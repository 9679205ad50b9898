------------------------- MODULE SystemSettingsProofs -------------------------
(***************************************************************************)
(* For any administrators, rows, models, rules, weights and answers: a      *)
(* saved verdict rests on a complete answer, on the rules in force and on   *)
(* the exact mean; and a save from a page that is up to date leaves the     *)
(* models of the page, each with its key.                                   *)
(***************************************************************************)
EXTENDS SystemSettings, SequenceTheorems, WellFoundedInduction, TLAPS

-----------------------------------------------------------------------------
(* Folds over a list *)

\* Induction up to n, for a set: the numbers for which something holds.
LEMMA CountUp ==
    ASSUME NEW n \in Nat, NEW S, 0 \in S, \A k \in 0..n : k \in S /\ k < n => k + 1 \in S
    PROVE  \A k \in 0..n : k \in S
<1> DEFINE Missing == {k \in 0..n : k \notin S}
<1> SUFFICES ASSUME Missing # {} PROVE FALSE
  OBVIOUS
<1>0. Missing \subseteq Nat
  OBVIOUS
<1>1. PICK m \in Missing : \A k \in Missing : ~ (<<k, m>> \in OpToRel(<, Nat))
  <2> HIDE DEF Missing
  <2> QED  BY <1>0, NatLessThanWellFounded, WFMin
<1>2. ASSUME NEW k \in Missing PROVE ~(k < m)
  <2> SUFFICES ASSUME k < m PROVE <<k, m>> \in OpToRel(<, Nat)
    BY <1>1
  <2>1. k \in Nat /\ m \in Nat
    OBVIOUS
  <2> QED  BY <2>1 DEF OpToRel
<1>3. m # 0 /\ m - 1 \in 0..n /\ m - 1 < m /\ m - 1 < n
  OBVIOUS
<1>4. m - 1 \in S
  BY <1>2, <1>3
<1>5. m \in S
  BY <1>3, <1>4
<1> QED  BY <1>5

\* The greatest index of a set of indices.
LEMMA MaxIndex ==
    ASSUME NEW n \in Nat, NEW S, S \subseteq 1..n, S # {}
    PROVE  Max(S) \in S /\ \A k \in S : k <= Max(S)
<1> DEFINE Above == {n - k : k \in S}
<1>0. \A k \in S : k \in Nat /\ n - k \in Nat
  OBVIOUS
<1>1. Above \subseteq Nat /\ Above # {}
  BY <1>0
<1>2. PICK d \in Above : \A e \in Above : ~ (<<e, d>> \in OpToRel(<, Nat))
  <2> HIDE DEF Above
  <2> QED  BY <1>1, NatLessThanWellFounded, WFMin
<1>3. ASSUME NEW e \in Above PROVE d <= e
  <2>1. e \in Nat /\ d \in Nat
    BY <1>1
  <2>2. ~(e < d)
    <3> SUFFICES ASSUME e < d PROVE <<e, d>> \in OpToRel(<, Nat)
      BY <1>2
    <3> QED  BY <2>1 DEF OpToRel
  <2> QED  BY <2>1, <2>2
<1>4. PICK m \in S : d = n - m
  OBVIOUS
<1>5. \A k \in S : m >= k
  BY <1>0, <1>3, <1>4
<1> QED  BY <1>0, <1>4, <1>5 DEF Max

\* f folds the indices of a set in their order, beginning with b.
FoldsBy(f, n, b, h) ==
    \A s \in SUBSET (1..n) : f[s] = IF s = {} THEN b ELSE h[f[s \ {Max(s)}], Max(s)]

\* There is such a fold for every step within a set T.
LEMMA FoldExists ==
    ASSUME NEW n \in Nat, NEW T, NEW b \in T, NEW h \in [T \X (1..n) -> T]
    PROVE  \E f \in [SUBSET (1..n) -> T] : FoldsBy(f, n, b, h)
<1> DEFINE Folds(f, k) == \A s \in SUBSET (1..k) :
              f[s] = IF s = {} THEN b ELSE h[f[s \ {Max(s)}], Max(s)]
           Found(k) == \E f \in [SUBSET (1..k) -> T] : Folds(f, k)
           S == {k \in 0..n : Found(k)}
<1>1. Found(0)
  <2> DEFINE f == [s \in SUBSET (1..0) |-> b]
  <2>0. 1..0 = {}
    OBVIOUS
  <2>1. Folds(f, 0)
    BY <2>0
  <2>2. f \in [SUBSET (1..0) -> T]
    OBVIOUS
  <2> HIDE DEF f, Folds
  <2> QED  BY <2>1, <2>2
<1>2. ASSUME NEW k \in 0..n, Found(k), k < n PROVE Found(k + 1)
  <2>0. k + 1 \in 1..n
    <3> HIDE DEF Found
    <3> QED  BY <1>2
  <2>1. PICK f \in [SUBSET (1..k) -> T] : Folds(f, k)
    BY <1>2
  <2> DEFINE g == [s \in SUBSET (1..(k + 1)) |-> IF k + 1 \in s THEN h[f[s \ {k + 1}], k + 1] ELSE f[s]]
  <2>2. \A s \in SUBSET (1..(k + 1)) : s \ {k + 1} \in SUBSET (1..k)
    OBVIOUS
  <2>3. g \in [SUBSET (1..(k + 1)) -> T]
    <3>1. ASSUME NEW s \in SUBSET (1..(k + 1)) PROVE g[s] \in T
      <4>1. CASE k + 1 \in s
        <5>1. f[s \ {k + 1}] \in T
          BY <2>1, <2>2
        <5> QED  BY <2>0, <4>1, <5>1
      <4>2. CASE k + 1 \notin s
        <5>1. s \in SUBSET (1..k)
          BY <2>2, <4>2
        <5> QED  BY <4>2, <5>1
      <4> QED  BY <4>1, <4>2
    <3> QED  BY <3>1
  <2>4. ASSUME NEW s \in SUBSET (1..(k + 1))
        PROVE  g[s] = IF s = {} THEN b ELSE h[g[s \ {Max(s)}], Max(s)]
    <3>1. CASE k + 1 \in s
      <4>1. Max(s) = k + 1
        <5>1. Max(s) \in s /\ \A i \in s : i <= Max(s)
          <6>1. k + 1 \in Nat /\ s # {}
            BY <3>1
          <6> QED  BY <6>1, MaxIndex
        <5>2. Max(s) \in 1..(k + 1) /\ k + 1 <= Max(s)
          BY <3>1, <5>1
        <5> QED  BY <5>2
      <4>2. g[s \ {k + 1}] = f[s \ {k + 1}]
        BY <2>2
      <4> QED  BY <3>1, <4>1, <4>2
    <3>2. CASE k + 1 \notin s
      <4>1. s \in SUBSET (1..k)
        BY <2>2, <3>2
      <4>2. g[s] = f[s]
        BY <3>2
      <4>3. CASE s = {}
        BY <2>1, <4>1, <4>2, <4>3
      <4>4. CASE s # {}
        <5>1. s \ {Max(s)} \in SUBSET (1..k)
          BY <4>1
        <5>2. g[s \ {Max(s)}] = f[s \ {Max(s)}]
          BY <3>2, <5>1
        <5>3. f[s] = h[f[s \ {Max(s)}], Max(s)]
          BY <2>1, <4>1, <4>4
        <5> QED  BY <4>2, <4>4, <5>2, <5>3
      <4> QED  BY <4>3, <4>4
    <3> QED  BY <3>1, <3>2
  <2>5. Folds(g, k + 1)
    BY <2>4
  <2> HIDE DEF g, Folds
  <2> QED  BY <2>3, <2>5
<1> HIDE DEF Found
<1>3. 0 \in S /\ \A k \in 0..n : k \in S /\ k < n => k + 1 \in S
  BY <1>1, <1>2
<1>4. n \in S
  <2> HIDE DEF S
  <2> QED  BY <1>3, CountUp
<1> QED  BY <1>4 DEF Found, FoldsBy

-----------------------------------------------------------------------------
(* mergeLlmSlots, slot by slot *)

\* What the folds of LlmSlots work on.
AnySlots == [id : Nat, model : Models, key : Models \cup {NoKey}]
Merges == [out : Seq(AnySlots), next : Nat \ {0}, ids : Nat]
Fills == [out : Seq(AnySlots), ids : Nat]

\* A merged slot leaves a list of slots, a position and a last id.
LEMMA MergeSlotType ==
    ASSUME NEW stored \in Seq(AnySlots), NEW acc \in Merges, NEW s \in AnySlots
    PROVE  MergeSlot(stored, acc, s) \in Merges
<1>1. KeyById(stored, s) \in Models \cup {NoKey}
  <2>1. SameId(stored, s) # {} => Max(SameId(stored, s)) \in DOMAIN stored
    <3>1. SameId(stored, s) \subseteq 1..Len(stored) /\ Len(stored) \in Nat
      BY DEF SameId
    <3>2. SameId(stored, s) # {} => Max(SameId(stored, s)) \in SameId(stored, s)
      BY <3>1, MaxIndex
    <3> QED  BY <3>2 DEF SameId
  <2>2. \A i \in DOMAIN stored : stored[i].key \in Models \cup {NoKey}
    <3>1. \A i \in DOMAIN stored : stored[i] \in AnySlots
      OBVIOUS
    <3> QED  BY <3>1 DEF AnySlots
  <2> QED  BY <2>1, <2>2 DEF KeyById
<1>2. StoredKey(stored, s, acc.next) \in Models \cup {NoKey}
  <2>1. acc.next \in Nat /\ acc.next > 0
    BY DEF Merges
  <2>2. acc.next <= Len(stored) => stored[acc.next].key \in Models \cup {NoKey}
    <3>1. acc.next <= Len(stored) => stored[acc.next] \in AnySlots
      BY <2>1
    <3> QED  BY <3>1 DEF AnySlots
  <2> QED  BY <1>1, <2>2 DEF StoredKey
<1> DEFINE key == IF s.key # NoKey THEN s.key ELSE StoredKey(stored, s, acc.next)
           id == IF SameId(stored, s) # {} THEN s.id ELSE acc.ids + 1
           next == IF s.key = NoKey /\ KeyById(stored, s) # NoKey THEN acc.next ELSE acc.next + 1
           ids1 == IF SameId(stored, s) # {} THEN acc.ids ELSE acc.ids + 1
<1>3. /\ key \in Models \cup {NoKey} /\ id \in Nat /\ next \in Nat \ {0} /\ ids1 \in Nat
      /\ s.model \in Models
  BY <1>2 DEF AnySlots, Merges
<1>4. \/ MergeSlot(stored, acc, s) = [acc EXCEPT !.next = next]
      \/ MergeSlot(stored, acc, s) =
            [out |-> Append(acc.out, [id |-> id, model |-> s.model, key |-> key]),
             next |-> next, ids |-> ids1]
  BY DEF MergeSlot
<1> HIDE DEF key, id, next, ids1
<1>5. [id |-> id, model |-> s.model, key |-> key] \in AnySlots
  BY <1>3 DEF AnySlots
<1>6. [acc EXCEPT !.next = next] \in Merges
  BY <1>3 DEF Merges
<1>7. Append(acc.out, [id |-> id, model |-> s.model, key |-> key]) \in Seq(AnySlots)
  <2>1. acc.out \in Seq(AnySlots)
    BY DEF Merges
  <2> QED  BY <1>5, <2>1
<1>8. [out |-> Append(acc.out, [id |-> id, model |-> s.model, key |-> key]),
       next |-> next, ids |-> ids1] \in Merges
  BY <1>3, <1>7 DEF Merges
<1> QED  BY <1>4, <1>6, <1>8

\* The results after each slot that was sent.
MergedBy(acc, stored, incoming, given) ==
    /\ acc[0] = [out |-> <<>>, next |-> 1, ids |-> given]
    /\ \A k \in 1..Len(incoming) : acc[k] = MergeSlot(stored, acc[k - 1], incoming[k])
    /\ acc[Len(incoming)] = MergeLlmSlots(stored, incoming, given)

\* mergeLlmSlots is the last of a sequence of steps, one for each slot sent.
LEMMA MergeSteps ==
    ASSUME NEW stored \in Seq(AnySlots), NEW incoming \in Seq(AnySlots), NEW given \in Nat
    PROVE  \E acc \in [0..Len(incoming) -> Merges] : MergedBy(acc, stored, incoming, given)
<1> DEFINE n == Len(incoming)
           base == [out |-> <<>>, next |-> 1, ids |-> given]
           h == [p \in Merges \X (1..n) |-> MergeSlot(stored, p[1], incoming[p[2]])]
           Folds(f) == f = [s \in SUBSET (DOMAIN incoming) |-> IF s = {} THEN base
                              ELSE MergeSlot(stored, f[s \ {Max(s)}], incoming[Max(s)])]
           F == CHOOSE f : Folds(f)
<1>1. n \in Nat /\ DOMAIN incoming = 1..n
  OBVIOUS
<1>2. base \in Merges
  BY DEF Merges
<1>3. h \in [Merges \X (1..n) -> Merges]
  BY MergeSlotType
<1>4. MergeLlmSlots(stored, incoming, given) = F[DOMAIN incoming]
  BY DEF MergeLlmSlots, FoldLeft, MapThenFoldSet
<1>5. \E f : Folds(f)
  <2>0. PICK f \in [SUBSET (1..n) -> Merges] : FoldsBy(f, n, base, h)
    <3> HIDE DEF h, base, n
    <3> QED  BY <1>1, <1>2, <1>3, FoldExists
  <2>1. \A s \in SUBSET (1..n) : f[s] = IF s = {} THEN base ELSE h[f[s \ {Max(s)}], Max(s)]
    BY <2>0 DEF FoldsBy
  <2>2. ASSUME NEW s \in SUBSET (1..n), s # {}
        PROVE  h[f[s \ {Max(s)}], Max(s)] = MergeSlot(stored, f[s \ {Max(s)}], incoming[Max(s)])
    <3>1. Max(s) \in 1..n
      BY <1>1, <2>2, MaxIndex
    <3>2. f[s \ {Max(s)}] \in Merges
      OBVIOUS
    <3> QED  BY <3>1, <3>2
  <2> HIDE DEF h, base
  <2>3. f = [s \in SUBSET (DOMAIN incoming) |-> IF s = {} THEN base
                              ELSE MergeSlot(stored, f[s \ {Max(s)}], incoming[Max(s)])]
    BY <1>1, <2>1, <2>2
  <2> QED  BY <2>3
<1>6. Folds(F)
  <2> HIDE DEF Folds
  <2> QED  BY <1>5
<1> DEFINE acc == [k \in 0..n |-> F[1..k]]
<1> HIDE DEF F
<1>7. acc[0] = base /\ acc[n] = MergeLlmSlots(stored, incoming, given)
  <2>1. 1..0 = {} /\ {} \in SUBSET (DOMAIN incoming)
    OBVIOUS
  <2> HIDE DEF base
  <2>2. F[{}] = base
    BY <1>6, <2>1
  <2> QED  BY <1>1, <1>4, <2>1, <2>2
<1>8. ASSUME NEW k \in 1..n PROVE acc[k] = MergeSlot(stored, acc[k - 1], incoming[k])
  <2>1. 1..k \in SUBSET (DOMAIN incoming) /\ 1..k # {}
    BY <1>1
  <2>2. Max(1..k) = k
    <3>1. k \in Nat /\ 1..k # {} /\ k \in 1..k
      BY <1>1
    <3>2. Max(1..k) \in 1..k /\ k <= Max(1..k)
      BY <3>1, MaxIndex
    <3> QED  BY <3>1, <3>2
  <2>3. (1..k) \ {k} = 1..(k - 1)
    BY <1>1
  <2> HIDE DEF base
  <2>4. F[1..k] = MergeSlot(stored, F[(1..k) \ {Max(1..k)}], incoming[Max(1..k)])
    BY <1>6, <2>1
  <2>5. k \in 0..n /\ k - 1 \in 0..n
    BY <1>1
  <2> HIDE DEF n
  <2>6. acc[k] = F[1..k] /\ acc[k - 1] = F[1..(k - 1)]
    BY <2>5
  <2> QED  BY <2>2, <2>3, <2>4, <2>6
<1>9. acc \in [0..n -> Merges]
  <2> DEFINE S == {k \in 0..n : acc[k] \in Merges}
  <2>1. 0 \in S
    <3> HIDE DEF acc, base
    <3> QED  BY <1>1, <1>2, <1>7
  <2>2. \A k \in 0..n : k \in S /\ k < n => k + 1 \in S
    <3> HIDE DEF acc
    <3>1. ASSUME NEW k \in 0..n, acc[k] \in Merges, k < n PROVE acc[k + 1] \in Merges
      <4>1. k + 1 \in 1..n /\ (k + 1) - 1 = k /\ incoming[k + 1] \in AnySlots
        BY <1>1, <3>1
      <4> QED  BY <1>8, <3>1, <4>1, MergeSlotType
    <3> QED  BY <1>1, <3>1
  <2>3. \A k \in 0..n : k \in S
    <3> HIDE DEF S
    <3> QED  BY <1>1, <2>1, <2>2, CountUp
  <2> QED  BY <2>3
<1> HIDE DEF acc, F
<1>10. MergedBy(acc, stored, incoming, given)
  BY <1>7, <1>8 DEF MergedBy
<1> QED  BY <1>9, <1>10

\* No id twice, none above n, and no slot without a key.
IdsDistinct(list) ==
    \A i, j \in DOMAIN list : list[i].id = list[j].id /\ list[i].id # NoId => i = j
IdsBelow(list, n) == \A i \in DOMAIN list : list[i].id <= n
Keyed(list) == \A i \in DOMAIN list : list[i].key # NoKey

\* What a page that is up to date knows of the stored list.
Matched(list, stored) ==
    \A i \in DOMAIN list : list[i].key = NoKey =>
        \/ list[i].id = NoId /\ stored = <<>>
        \/ \E j \in DOMAIN stored : stored[j].id = list[i].id /\ stored[j].id # NoId
                                    /\ stored[j].model = list[i].model

\* The ids of a merged list are distinct, whatever the page and the stored list.
LEMMA MergeIds ==
    ASSUME NEW stored \in Seq(AnySlots), NEW incoming \in Seq(AnySlots), NEW given \in Nat,
           IdsBelow(stored, given), IdsDistinct(incoming)
    PROVE  LET new == MergeLlmSlots(stored, incoming, given) IN
           /\ new \in Merges /\ new.ids >= given
           /\ IdsDistinct(new.out) /\ IdsBelow(new.out, new.ids) /\ Keyed(new.out)
<1>0. PICK acc \in [0..Len(incoming) -> Merges] : MergedBy(acc, stored, incoming, given)
  BY MergeSteps
<1>1. /\ acc[0] = [out |-> <<>>, next |-> 1, ids |-> given]
      /\ \A k \in 1..Len(incoming) : acc[k] = MergeSlot(stored, acc[k - 1], incoming[k])
      /\ acc[Len(incoming)] = MergeLlmSlots(stored, incoming, given)
  BY <1>0 DEF MergedBy
<1> DEFINE n == Len(incoming)
           Origin(id, k) == id > given \/ \E j \in 1..k : id = incoming[j].id /\ id # NoId
           G(k) == /\ acc[k].ids >= given
                   /\ IdsDistinct(acc[k].out) /\ IdsBelow(acc[k].out, acc[k].ids)
                   /\ Keyed(acc[k].out)
                   /\ \A i \in DOMAIN acc[k].out : Origin(acc[k].out[i].id, k)
           S == {k \in 0..n : G(k)}
<1>2. n \in Nat /\ \A k \in 0..n : acc[k] \in Merges
  OBVIOUS
<1>3. G(0)
  BY <1>1 DEF IdsDistinct, IdsBelow, Keyed
<1>4. ASSUME NEW k \in 0..n, G(k), k < n PROVE G(k + 1)
  <2> DEFINE old == acc[k]
             new == acc[k + 1]
             s == incoming[k + 1]
             known == SameId(stored, s) # {}
             id == IF known THEN s.id ELSE old.ids + 1
  <2>1. k + 1 \in 1..n /\ (k + 1) - 1 = k /\ s \in AnySlots
    <3> HIDE DEF G
    <3> QED  BY <1>2, <1>4
  <2>2. new = MergeSlot(stored, old, s)
    <3> HIDE DEF G
    <3> QED  BY <1>1, <2>1
  <2>3. old \in Merges /\ old.out \in Seq(AnySlots) /\ old.ids \in Nat
    <3> HIDE DEF G
    <3> QED  BY <1>2 DEF Merges
  <2>4. \A x : Origin(x, k) => Origin(x, k + 1)
    BY <2>1
  <2>5. CASE new.out = old.out /\ new.ids = old.ids
    <3> HIDE DEF Origin
    <3> QED  BY <1>4, <2>4, <2>5
  <2>6. CASE /\ new.ids = IF known THEN old.ids ELSE old.ids + 1
             /\ \E key : key # NoKey /\ new.out = Append(old.out, [id |-> id, model |-> s.model, key |-> key])
    <3>1. PICK key : key # NoKey /\ new.out = Append(old.out, [id |-> id, model |-> s.model, key |-> key])
      BY <2>6
    <3> DEFINE m == Len(old.out)
               slot == [id |-> id, model |-> s.model, key |-> key]
    <3>2. /\ m \in Nat /\ DOMAIN old.out = 1..m /\ DOMAIN new.out = 1..(m + 1)
          /\ new.out[m + 1] = slot
          /\ \A i \in 1..m : new.out[i] = old.out[i] /\ old.out[i].id \in Nat
      <4>1. \A i \in DOMAIN old.out : old.out[i] \in AnySlots
        BY <2>3
      <4> HIDE DEF new, old, slot
      <4>2. new.out = Append(old.out, slot)
        BY <3>1 DEF slot
      <4> QED  BY <2>3, <4>1, <4>2 DEF AnySlots
    <3>3. known => id # NoId /\ id \in Nat /\ id <= given /\ id = s.id
      BY <2>1 DEF SameId, IdsBelow, AnySlots
    <3>4. ~known => id = old.ids + 1 /\ id > given
      BY <1>4, <2>3
    <3>5. new.ids \in Nat /\ new.ids >= old.ids /\ id <= new.ids /\ new.ids >= given
      BY <1>4, <2>3, <2>6, <3>3, <3>4
    <3>6. \A i \in 1..m : old.out[i].id # id
      <4> SUFFICES ASSUME NEW i \in 1..m, old.out[i].id = id PROVE FALSE
        OBVIOUS
      <4>1. i \in DOMAIN old.out /\ Origin(id, k)
        BY <1>4, <3>2
      <4>2. CASE ~known
        BY <1>4, <2>3, <3>4, <4>1, <4>2 DEF IdsBelow
      <4>3. CASE known
        <5>1. PICK j \in 1..k : s.id = incoming[j].id
          BY <3>3, <4>1, <4>3
        <5>2. j \in DOMAIN incoming /\ k + 1 \in DOMAIN incoming /\ j # k + 1
          BY <1>2, <2>1
        <5> QED  BY <3>3, <4>3, <5>1, <5>2 DEF IdsDistinct
      <4> QED  BY <4>2, <4>3
    <3>7. Origin(id, k + 1)
      BY <2>1, <3>3, <3>4
    <3> HIDE DEF Origin, old, new, id, known
    <3>8. slot.id = id /\ slot.key # NoKey
      BY <3>1
    <3> HIDE DEF slot, m
    <3>9. \A i \in DOMAIN new.out : i \in 1..m \/ i = m + 1
      BY <3>2
    <3>10. IdsDistinct(new.out)
      BY <1>4, <3>2, <3>6, <3>8, <3>9 DEF IdsDistinct, old
    <3>11. IdsBelow(new.out, new.ids)
      <4>1. \A i \in 1..m : old.out[i].id <= old.ids
        BY <1>4, <3>2 DEF IdsBelow, old
      <4>2. \A i \in 1..m : new.out[i].id <= new.ids
        <5> SUFFICES ASSUME NEW i \in 1..m PROVE new.out[i].id <= new.ids
          OBVIOUS
        <5>1. /\ old.ids \in Nat /\ new.ids \in Nat /\ new.ids >= old.ids
              /\ old.out[i].id \in Nat /\ old.out[i].id <= old.ids
              /\ new.out[i] = old.out[i]
          BY <2>3, <3>2, <3>5, <4>1
        <5> QED  BY <5>1
      <4>3. new.out[m + 1].id <= new.ids
        BY <3>2, <3>5, <3>8
      <4> QED  BY <3>9, <4>2, <4>3 DEF IdsBelow
    <3>12. Keyed(new.out)
      BY <1>4, <3>2, <3>8, <3>9 DEF Keyed, old
    <3>13. \A i \in DOMAIN new.out : Origin(new.out[i].id, k + 1)
      BY <1>4, <2>4, <3>2, <3>7, <3>8, <3>9 DEF old
    <3> QED  BY <3>5, <3>10, <3>11, <3>12, <3>13 DEF new
  <2>7. \/ new.out = old.out /\ new.ids = old.ids
        \/ /\ new.ids = IF known THEN old.ids ELSE old.ids + 1
           /\ \E key : key # NoKey /\ new.out = Append(old.out, [id |-> id, model |-> s.model, key |-> key])
    <3> HIDE DEF G
    <3>1. DOMAIN old = {"out", "next", "ids"}
      BY <2>3 DEF Merges
    <3> HIDE DEF old, new, s
    <3> QED  BY <2>2, <3>1 DEF MergeSlot
  <2> QED  BY <2>5, <2>6, <2>7
<1> HIDE DEF G
<1>5. 0 \in S /\ \A k \in 0..n : k \in S /\ k < n => k + 1 \in S
  BY <1>2, <1>3, <1>4
<1>6. n \in S
  <2>1. n \in Nat /\ n \in 0..n
    BY <1>2
  <2> HIDE DEF S, n
  <2>2. \A k \in 0..n : k \in S
    BY <1>5, <2>1, CountUp
  <2> QED  BY <2>1, <2>2
<1> QED  BY <1>1, <1>2, <1>6 DEF G

\* The key of a slot of a page that is up to date.
LEMMA SlotKey ==
    ASSUME NEW stored \in Seq(AnySlots), NEW s \in AnySlots, NEW next \in Nat \ {0},
           IdsDistinct(stored), Keyed(stored), s.key = NoKey,
           \/ s.id = NoId /\ stored = <<>>
           \/ \E j \in DOMAIN stored : stored[j].id = s.id /\ stored[j].id # NoId
                                       /\ stored[j].model = s.model
    PROVE  \/ s.id = NoId /\ StoredKey(stored, s, next) = NoKey
           \/ s.id # NoId /\ StoredKey(stored, s, next) # NoKey
              /\ StoredKey(stored, s, next) \in Meant(s, stored)
<1>1. CASE s.id = NoId /\ stored = <<>>
  BY <1>1 DEF StoredKey, KeyById, SameId
<1>2. CASE \E j \in DOMAIN stored : stored[j].id = s.id /\ stored[j].id # NoId
                                    /\ stored[j].model = s.model
  <2>1. PICK j \in DOMAIN stored : stored[j].id = s.id /\ s.id # NoId /\ stored[j].model = s.model
    BY <1>2
  <2>2. SameId(stored, s) = {j}
    BY <2>1 DEF SameId, IdsDistinct
  <2>3. Max({j}) = j
    <3>1. Len(stored) \in Nat /\ {j} \subseteq 1..Len(stored) /\ {j} # {}
      OBVIOUS
    <3>2. Max({j}) \in {j}
      BY <3>1, MaxIndex
    <3> QED  BY <3>2
  <2>4. StoredKey(stored, s, next) = stored[j].key /\ stored[j].key # NoKey
    BY <2>2, <2>3 DEF StoredKey, KeyById, Keyed
  <2>5. stored[j].key \in Meant(s, stored)
    BY <2>1, <2>2 DEF Meant
  <2> QED  BY <2>1, <2>4, <2>5
<1> QED  BY <1>1, <1>2

\* Merging the list of a page that is up to date keeps its models and their keys.
LEMMA MergeKeys ==
    ASSUME NEW stored \in Seq(AnySlots), NEW incoming \in Seq(AnySlots), NEW given \in Nat,
           IdsDistinct(stored), Keyed(stored), Matched(incoming, stored)
    PROVE  LET new == MergeLlmSlots(stored, incoming, given).out IN
           /\ KeysKept(new, incoming, stored) /\ ModelsOf(new) = Sent(incoming)
<1>0. PICK acc \in [0..Len(incoming) -> Merges] : MergedBy(acc, stored, incoming, given)
  BY MergeSteps
<1>1. /\ acc[0] = [out |-> <<>>, next |-> 1, ids |-> given]
      /\ \A k \in 1..Len(incoming) : acc[k] = MergeSlot(stored, acc[k - 1], incoming[k])
      /\ acc[Len(incoming)] = MergeLlmSlots(stored, incoming, given)
  BY <1>0 DEF MergedBy
<1> DEFINE n == Len(incoming)
           Counts(j) == incoming[j].key # NoKey \/ incoming[j].id # NoId
           From(slot, k) == \E j \in 1..k : Counts(j) /\ slot.model = incoming[j].model
                                            /\ slot.key \in Meant(incoming[j], stored)
           Got(list, j) == \E i \in DOMAIN list : list[i].model = incoming[j].model
           G(k) == /\ \A i \in DOMAIN acc[k].out : From(acc[k].out[i], k)
                   /\ \A j \in 1..k : Counts(j) => Got(acc[k].out, j)
           S == {k \in 0..n : G(k)}
<1>2. n \in Nat /\ \A k \in 0..n : acc[k] \in Merges
  OBVIOUS
<1>3. G(0)
  BY <1>1
<1>4. ASSUME NEW k \in 0..n, G(k), k < n PROVE G(k + 1)
  <2> DEFINE old == acc[k]
             new == acc[k + 1]
             s == incoming[k + 1]
             key == IF s.key # NoKey THEN s.key ELSE StoredKey(stored, s, old.next)
             slot(id) == [id |-> id, model |-> s.model, key |-> key]
  <2>1. k + 1 \in 1..n /\ (k + 1) - 1 = k /\ s \in AnySlots
    <3> HIDE DEF G
    <3> QED  BY <1>2, <1>4
  <2>2. new = MergeSlot(stored, old, s)
    <3> HIDE DEF G
    <3> QED  BY <1>1, <2>1
  <2>3. old \in Merges /\ old.out \in Seq(AnySlots) /\ old.next \in Nat \ {0}
    <3> HIDE DEF G
    <3> QED  BY <1>2 DEF Merges
  <2>4. \/ key = NoKey /\ ~Counts(k + 1)
        \/ key # NoKey /\ Counts(k + 1) /\ key \in Meant(s, stored)
    <3> HIDE DEF G
    <3>1. CASE s.key # NoKey
      BY <3>1 DEF Meant
    <3>2. CASE s.key = NoKey
      <4>1. k + 1 \in DOMAIN incoming
        BY <1>2, <2>1
      <4>2. \/ s.id = NoId /\ stored = <<>>
            \/ \E j \in DOMAIN stored : stored[j].id = s.id /\ stored[j].id # NoId
                                       /\ stored[j].model = s.model
        BY <3>2, <4>1 DEF Matched
      <4> HIDE DEF s
      <4>3. \/ s.id = NoId /\ StoredKey(stored, s, old.next) = NoKey
            \/ s.id # NoId /\ StoredKey(stored, s, old.next) # NoKey
               /\ StoredKey(stored, s, old.next) \in Meant(s, stored)
        BY <2>1, <2>3, <3>2, <4>2, SlotKey
      <4> QED  BY <3>2, <4>3 DEF s
    <3> QED  BY <3>1, <3>2
  <2>5. \/ /\ new.out = old.out
           /\ key # NoKey => \E i \in DOMAIN old.out : old.out[i].model = s.model
        \/ key # NoKey /\ \E id : new.out = Append(old.out, slot(id))
    <3> HIDE DEF G
    <3>1. DOMAIN old = {"out", "next", "ids"}
      BY <2>3 DEF Merges
    <3> HIDE DEF old, new, s
    <3> QED  BY <2>2, <3>1 DEF MergeSlot
  <2>6. \A x : From(x, k) => From(x, k + 1)
    BY <2>1
  <2>7. CASE /\ new.out = old.out
             /\ key # NoKey => \E i \in DOMAIN old.out : old.out[i].model = s.model
    <3>1. \A i \in DOMAIN new.out : From(new.out[i], k + 1)
      <4> HIDE DEF From
      <4> QED  BY <1>4, <2>6, <2>7
    <3>2. ASSUME NEW j \in 1..(k + 1), Counts(j) PROVE Got(new.out, j)
      <4>1. CASE j = k + 1
        BY <2>4, <2>7, <3>2, <4>1
      <4>2. CASE j # k + 1
        <5>1. j \in 1..k
          BY <4>2
        <5> QED  BY <1>4, <2>7, <3>2, <5>1
      <4> QED  BY <4>1, <4>2
    <3> QED  BY <3>1, <3>2
  <2>8. CASE key # NoKey /\ \E id : new.out = Append(old.out, slot(id))
    <3>1. PICK id : new.out = Append(old.out, slot(id))
      BY <2>8
    <3> DEFINE m == Len(old.out)
    <3>2. /\ m \in Nat /\ DOMAIN old.out = 1..m /\ DOMAIN new.out = 1..(m + 1)
          /\ new.out[m + 1] = slot(id)
          /\ \A i \in 1..m : new.out[i] = old.out[i]
      <4> HIDE DEF G, new, old, slot
      <4> QED  BY <2>3, <3>1
    <3>3. slot(id).model = s.model /\ slot(id).key = key
      OBVIOUS
    <3>4. From(slot(id), k + 1)
      BY <2>1, <2>4, <2>8, <3>3
    <3>5. ASSUME NEW i \in DOMAIN new.out PROVE From(new.out[i], k + 1)
      <4> HIDE DEF From, slot
      <4>1. CASE i = m + 1
        BY <3>2, <3>4, <4>1
      <4>2. CASE i # m + 1
        <5>1. i \in 1..m
          BY <3>2, <4>2
        <5> QED  BY <1>4, <2>6, <3>2, <5>1
      <4> QED  BY <4>1, <4>2
    <3>6. ASSUME NEW j \in 1..(k + 1), Counts(j) PROVE Got(new.out, j)
      <4>1. CASE j = k + 1
        <5>1. m + 1 \in DOMAIN new.out /\ new.out[m + 1].model = s.model
          BY <3>2, <3>3
        <5> QED  BY <4>1, <5>1
      <4>2. CASE j # k + 1
        <5>1. j \in 1..k
          BY <4>2
        <5>2. PICK i \in DOMAIN old.out : old.out[i].model = incoming[j].model
          BY <1>4, <3>6, <5>1
        <5>3. i \in DOMAIN new.out /\ new.out[i] = old.out[i]
          BY <3>2
        <5> QED  BY <5>2, <5>3
      <4> QED  BY <4>1, <4>2
    <3> QED  BY <3>5, <3>6
  <2> QED  BY <2>5, <2>7, <2>8
<1> HIDE DEF G
<1>5. 0 \in S /\ \A k \in 0..n : k \in S /\ k < n => k + 1 \in S
  BY <1>2, <1>3, <1>4
<1>6. n \in S
  <2>1. n \in Nat /\ n \in 0..n
    BY <1>2
  <2> HIDE DEF S, n
  <2>2. \A k \in 0..n : k \in S
    BY <1>5, <2>1, CountUp
  <2> QED  BY <2>1, <2>2
<1>7. G(n) /\ DOMAIN incoming = 1..n
  BY <1>6
<1> DEFINE new == acc[n].out
<1>8. KeysKept(new, incoming, stored)
  BY <1>7 DEF KeysKept, G
<1>9. ModelsOf(new) = Sent(incoming)
  <2>1. ASSUME NEW i \in DOMAIN new PROVE new[i].model \in Sent(incoming)
    <3>1. PICK j \in DOMAIN incoming : Counts(j) /\ new[i].model = incoming[j].model
      BY <1>7 DEF G
    <3> QED  BY <3>1 DEF Sent
  <2>2. ASSUME NEW j \in DOMAIN incoming, Counts(j) PROVE incoming[j].model \in ModelsOf(new)
    <3>1. PICK i \in DOMAIN new : new[i].model = incoming[j].model
      BY <1>7, <2>2 DEF G
    <3> QED  BY <3>1 DEF ModelsOf
  <2> HIDE DEF new
  <2>3. ModelsOf(new) \subseteq Sent(incoming)
    BY <2>1 DEF ModelsOf
  <2>4. Sent(incoming) \subseteq ModelsOf(new)
    BY <2>2 DEF Sent
  <2> QED  BY <2>3, <2>4
<1> QED  BY <1>1, <1>8, <1>9

-----------------------------------------------------------------------------
(* The ids given by a GET *)

\* One slot that is shown gets an id when it has none.
FillSlot(acc, s) ==
    IF s.id # NoId THEN [acc EXCEPT !.out = Append(@, s)]
    ELSE [out |-> Append(acc.out, [s EXCEPT !.id = acc.ids + 1]), ids |-> acc.ids + 1]

\* It leaves a list of slots and a last id.
LEMMA FillSlotType ==
    ASSUME NEW acc \in Fills, NEW s \in AnySlots
    PROVE  FillSlot(acc, s) \in Fills
<1>1. acc.out \in Seq(AnySlots) /\ acc.ids \in Nat
  BY DEF Fills
<1>2. [s EXCEPT !.id = acc.ids + 1] \in AnySlots
  BY <1>1 DEF AnySlots
<1>3. Append(acc.out, s) \in Seq(AnySlots) /\ Append(acc.out, [s EXCEPT !.id = acc.ids + 1]) \in Seq(AnySlots)
  BY <1>1, <1>2
<1>4. [acc EXCEPT !.out = Append(@, s)] \in Fills
  BY <1>3 DEF Fills
<1>5. [out |-> Append(acc.out, [s EXCEPT !.id = acc.ids + 1]), ids |-> acc.ids + 1] \in Fills
  BY <1>1, <1>3 DEF Fills
<1> QED  BY <1>4, <1>5 DEF FillSlot

\* The results after each slot that is stored.
FilledBy(acc, stored, given) ==
    /\ acc[0] = [out |-> <<>>, ids |-> given]
    /\ \A k \in 1..Len(stored) : acc[k] = FillSlot(acc[k - 1], stored[k])
    /\ acc[Len(stored)] = WithIds(stored, given)

\* The ids are given step by step, one step for each slot.
LEMMA FillSteps ==
    ASSUME NEW stored \in Seq(AnySlots), NEW given \in Nat
    PROVE  \E acc \in [0..Len(stored) -> Fills] : FilledBy(acc, stored, given)
<1> DEFINE n == Len(stored)
           base == [out |-> <<>>, ids |-> given]
           h == [p \in Fills \X (1..n) |-> FillSlot(p[1], stored[p[2]])]
           Folds(f) == f = [s \in SUBSET (DOMAIN stored) |-> IF s = {} THEN base
                              ELSE FillSlot(f[s \ {Max(s)}], stored[Max(s)])]
           F == CHOOSE f : Folds(f)
<1>1. n \in Nat /\ DOMAIN stored = 1..n
  OBVIOUS
<1>2. base \in Fills
  BY DEF Fills
<1>3. h \in [Fills \X (1..n) -> Fills]
  BY FillSlotType
<1>4. WithIds(stored, given) = F[DOMAIN stored]
  BY DEF WithIds, FoldLeft, MapThenFoldSet, FillSlot
<1>5. \E f : Folds(f)
  <2>0. PICK f \in [SUBSET (1..n) -> Fills] : FoldsBy(f, n, base, h)
    <3> HIDE DEF h, base, n
    <3> QED  BY <1>1, <1>2, <1>3, FoldExists
  <2>1. \A s \in SUBSET (1..n) : f[s] = IF s = {} THEN base ELSE h[f[s \ {Max(s)}], Max(s)]
    BY <2>0 DEF FoldsBy
  <2>2. ASSUME NEW s \in SUBSET (1..n), s # {}
        PROVE  h[f[s \ {Max(s)}], Max(s)] = FillSlot(f[s \ {Max(s)}], stored[Max(s)])
    <3>1. Max(s) \in 1..n
      BY <1>1, <2>2, MaxIndex
    <3>2. f[s \ {Max(s)}] \in Fills
      OBVIOUS
    <3> QED  BY <3>1, <3>2
  <2> HIDE DEF h, base
  <2>3. f = [s \in SUBSET (DOMAIN stored) |-> IF s = {} THEN base
                              ELSE FillSlot(f[s \ {Max(s)}], stored[Max(s)])]
    BY <1>1, <2>1, <2>2
  <2> QED  BY <2>3
<1>6. Folds(F)
  <2> HIDE DEF Folds
  <2> QED  BY <1>5
<1> DEFINE acc == [k \in 0..n |-> F[1..k]]
<1> HIDE DEF F
<1>7. acc[0] = base /\ acc[n] = WithIds(stored, given)
  <2>1. 1..0 = {} /\ {} \in SUBSET (DOMAIN stored)
    OBVIOUS
  <2> HIDE DEF base
  <2>2. F[{}] = base
    BY <1>6, <2>1
  <2> QED  BY <1>1, <1>4, <2>1, <2>2
<1>8. ASSUME NEW k \in 1..n PROVE acc[k] = FillSlot(acc[k - 1], stored[k])
  <2>0. k \in Nat /\ k > 0 /\ k <= n
    BY <1>1
  <2>1. 1..k \in SUBSET (DOMAIN stored) /\ 1..k # {}
    <3>1. \A i \in 1..k : i \in 1..n
      <4> HIDE DEF n
      <4> QED  BY <1>1, <2>0
    <3>2. 1 \in 1..k
      BY <2>0
    <3> QED  BY <1>1, <3>1, <3>2
  <2>2. Max(1..k) = k
    <3>1. k \in Nat /\ 1..k # {} /\ k \in 1..k
      BY <2>0
    <3>2. Max(1..k) \in 1..k /\ k <= Max(1..k)
      BY <3>1, MaxIndex
    <3> QED  BY <3>1, <3>2
  <2>3. (1..k) \ {k} = 1..(k - 1)
    BY <1>1
  <2> HIDE DEF base
  <2>4. F[1..k] = FillSlot(F[(1..k) \ {Max(1..k)}], stored[Max(1..k)])
    BY <1>6, <2>1
  <2>5. k \in 0..n /\ k - 1 \in 0..n
    BY <1>1
  <2> HIDE DEF n
  <2>6. acc[k] = F[1..k] /\ acc[k - 1] = F[1..(k - 1)]
    BY <2>5
  <2> QED  BY <2>2, <2>3, <2>4, <2>6
<1>9. acc \in [0..n -> Fills]
  <2> DEFINE S == {k \in 0..n : acc[k] \in Fills}
  <2>1. 0 \in S
    <3> HIDE DEF acc, base
    <3> QED  BY <1>1, <1>2, <1>7
  <2>2. \A k \in 0..n : k \in S /\ k < n => k + 1 \in S
    <3> HIDE DEF acc
    <3>1. ASSUME NEW k \in 0..n, acc[k] \in Fills, k < n PROVE acc[k + 1] \in Fills
      <4>1. k + 1 \in 1..n /\ (k + 1) - 1 = k /\ stored[k + 1] \in AnySlots
        BY <1>1, <3>1
      <4> QED  BY <1>8, <3>1, <4>1, FillSlotType
    <3> QED  BY <1>1, <3>1
  <2>3. \A k \in 0..n : k \in S
    <3> HIDE DEF S
    <3> QED  BY <1>1, <2>1, <2>2, CountUp
  <2> QED  BY <2>3
<1> HIDE DEF acc, F
<1>10. FilledBy(acc, stored, given)
  BY <1>7, <1>8 DEF FilledBy
<1> QED  BY <1>9, <1>10

\* Afterwards every slot has an id of its own, within the last one given, and
\* none has lost its key.
LEMMA FillIds ==
    ASSUME NEW stored \in Seq(AnySlots), NEW given \in Nat,
           IdsDistinct(stored), IdsBelow(stored, given), Keyed(stored)
    PROVE  LET new == WithIds(stored, given) IN
           /\ new \in Fills /\ new.ids >= given
           /\ IdsDistinct(new.out) /\ IdsBelow(new.out, new.ids) /\ Keyed(new.out)
           /\ DOMAIN new.out = DOMAIN stored
           /\ \A i \in DOMAIN new.out : new.out[i].id # NoId
<1>0. PICK acc \in [0..Len(stored) -> Fills] : FilledBy(acc, stored, given)
  BY FillSteps
<1>1. /\ acc[0] = [out |-> <<>>, ids |-> given]
      /\ \A k \in 1..Len(stored) : acc[k] = FillSlot(acc[k - 1], stored[k])
      /\ acc[Len(stored)] = WithIds(stored, given)
  BY <1>0 DEF FilledBy
<1> DEFINE n == Len(stored)
           Named(slot, i) == /\ slot.id # NoId /\ slot.key = stored[i].key
                             /\ slot.id = stored[i].id \/ slot.id > given
           G(k) == /\ acc[k].ids >= given
                   /\ DOMAIN acc[k].out = 1..k
                   /\ \A i \in 1..k : Named(acc[k].out[i], i)
                   /\ IdsDistinct(acc[k].out) /\ IdsBelow(acc[k].out, acc[k].ids)
           S == {k \in 0..n : G(k)}
<1>2. n \in Nat /\ DOMAIN stored = 1..n /\ \A k \in 0..n : acc[k] \in Fills
  OBVIOUS
<1>3. G(0)
  BY <1>1 DEF IdsDistinct, IdsBelow
<1>4. ASSUME NEW k \in 0..n, G(k), k < n PROVE G(k + 1)
  <2> DEFINE old == acc[k]
             new == acc[k + 1]
             s == stored[k + 1]
             slot == IF s.id # NoId THEN s ELSE [s EXCEPT !.id = old.ids + 1]
  <2>1. k + 1 \in 1..n /\ k \in Nat /\ (k + 1) - 1 = k /\ s \in AnySlots
    <3> HIDE DEF G
    <3> QED  BY <1>2, <1>4
  <2>2. old \in Fills /\ old.out \in Seq(AnySlots) /\ old.ids \in Nat
    <3> HIDE DEF G
    <3> QED  BY <1>2 DEF Fills
  <2>3. /\ new.out = Append(old.out, slot)
        /\ new.ids = IF s.id # NoId THEN old.ids ELSE old.ids + 1
    <3> HIDE DEF G
    <3>1. new = FillSlot(old, s)
      BY <1>1, <2>1
    <3>2. DOMAIN old = {"out", "ids"}
      BY <2>2 DEF Fills
    <3> HIDE DEF old, new, s
    <3> QED  BY <3>1, <3>2 DEF FillSlot
  <2>4. Len(old.out) = k /\ DOMAIN old.out = 1..k
    <3>1. DOMAIN old.out = 1..k
      BY <1>4
    <3> HIDE DEF G, old
    <3> QED  BY <2>1, <2>2, <3>1
  <2>5. /\ DOMAIN new.out = 1..(k + 1) /\ new.out[k + 1] = slot
        /\ \A i \in 1..k : new.out[i] = old.out[i] /\ old.out[i].id \in Nat
    <3>1. \A i \in DOMAIN old.out : old.out[i] \in AnySlots
      BY <2>2
    <3>2. \A i \in 1..k : old.out[i].id \in Nat
      BY <2>4, <3>1 DEF AnySlots
    <3> HIDE DEF G, new, old, slot
    <3> QED  BY <2>1, <2>2, <2>3, <2>4, <3>2
  <2>6. s.id \in Nat /\ s.id <= given
    BY <1>2, <2>1 DEF IdsBelow, AnySlots
  <2>7. /\ slot.id \in Nat /\ slot.id <= new.ids /\ slot.id # NoId /\ slot.key = s.key
        /\ slot.id = s.id \/ (slot.id = old.ids + 1 /\ slot.id > given)
        /\ new.ids \in Nat /\ new.ids >= old.ids /\ new.ids >= given
    <3>1. old.ids >= given
      BY <1>4
    <3> HIDE DEF G, old, new
    <3>2. CASE s.id # NoId
      <4>1. slot = s /\ new.ids = old.ids
        BY <2>3, <3>2
      <4> HIDE DEF slot
      <4> QED  BY <2>2, <2>6, <3>1, <3>2, <4>1
    <3>3. CASE s.id = NoId
      <4>1. slot.id = old.ids + 1 /\ slot.key = s.key /\ new.ids = old.ids + 1
        BY <2>1, <2>3, <3>3 DEF AnySlots
      <4> HIDE DEF slot
      <4> QED  BY <2>2, <3>1, <4>1 DEF NoId
    <3> QED  BY <3>2, <3>3
  <2>8. \A i \in 1..k : old.out[i].id # slot.id
    <3> SUFFICES ASSUME NEW i \in 1..k, old.out[i].id = slot.id PROVE FALSE
      OBVIOUS
    <3>1. old.out[i].id <= old.ids /\ (old.out[i].id = stored[i].id \/ old.out[i].id > given)
      BY <1>4, <2>4 DEF IdsBelow
    <3>2. slot.id = s.id
      BY <2>2, <2>7, <3>1
    <3>3. stored[i].id = s.id /\ i \in DOMAIN stored /\ k + 1 \in DOMAIN stored /\ i # k + 1
      BY <1>2, <2>1, <2>6, <2>7, <3>1, <3>2
    <3> QED  BY <2>7, <3>2, <3>3 DEF IdsDistinct
  <2>9. /\ \A i \in 1..k : Named(old.out[i], i) /\ old.out[i].id <= old.ids
        /\ IdsDistinct(old.out)
    BY <1>4, <2>4 DEF IdsBelow
  <2>10. Named(slot, k + 1)
    BY <2>7
  <2> HIDE DEF Named, old, new, s, slot
  <2>11. \A i \in 1..(k + 1) : i \in 1..k \/ i = k + 1
    BY <2>1
  <2>12. \A i \in 1..(k + 1) : Named(new.out[i], i)
    BY <2>5, <2>9, <2>10, <2>11
  <2>13. IdsDistinct(new.out)
    BY <2>4, <2>5, <2>8, <2>9, <2>11 DEF IdsDistinct
  <2>14. ASSUME NEW i \in 1..(k + 1) PROVE new.out[i].id <= new.ids
    <3>1. CASE i = k + 1
      BY <2>5, <2>7, <3>1
    <3>2. CASE i \in 1..k
      <4>1. /\ old.out[i].id \in Nat /\ old.out[i].id <= old.ids /\ old.ids \in Nat
            /\ new.ids \in Nat /\ new.ids >= old.ids /\ new.out[i] = old.out[i]
        BY <2>2, <2>5, <2>7, <2>9, <3>2
      <4> QED  BY <4>1
    <3> QED  BY <2>11, <3>1, <3>2
  <2>15. IdsBelow(new.out, new.ids)
    BY <2>5, <2>14 DEF IdsBelow
  <2> QED  BY <2>5, <2>7, <2>12, <2>13, <2>15 DEF new
<1> HIDE DEF G
<1>5. 0 \in S /\ \A k \in 0..n : k \in S /\ k < n => k + 1 \in S
  BY <1>2, <1>3, <1>4
<1>6. n \in S
  <2>1. n \in Nat /\ n \in 0..n
    BY <1>2
  <2> HIDE DEF S, n
  <2>2. \A k \in 0..n : k \in S
    BY <1>5, <2>1, CountUp
  <2> QED  BY <2>1, <2>2
<1>7. G(n)
  BY <1>6
<1>8. Keyed(acc[n].out)
  BY <1>2, <1>7 DEF Keyed, G
<1>9. acc[n] \in Fills
  <2>1. n \in 0..n
    BY <1>2
  <2> QED  BY <1>2, <2>1
<1> QED  BY <1>1, <1>2, <1>7, <1>8, <1>9 DEF G

-----------------------------------------------------------------------------
(* The lists of the state *)

\* What a column of rules holds.
Columns == RuleChoices \cup {NoRules}

\* What the stored list, a page and a request consist of.
Typed ==
    /\ DOMAIN rows \subseteq RowIds
    /\ \A x \in DOMAIN rows : rows[x] \in [slots : SlotLists \cup {Unset}, rules : Columns]
    /\ newest \in RowIds \cup {None}
    /\ page \in [Admins -> [list : SlotLists, open : BOOLEAN, fresh : BOOLEAN, edits : Nat]]
    /\ req \in [Admins -> [pc : Pcs, row : RowIds \cup {None}, stored : SlotLists, rules : Columns]]
    /\ ids \in 0..MaxIds

\* Ids are never given twice, and no slot is stored without a key.
Sound(list) == IdsDistinct(list) /\ IdsBelow(list, ids) /\ Keyed(list)
ListsSound ==
    /\ \A x \in DOMAIN rows : rows[x].slots # Unset => Sound(rows[x].slots)
    /\ \A a \in Admins : Sound(req[a].stored) /\ IdsDistinct(page[a].list)

\* The list a page will be merged with if it stays up to date.
Basis(a) == IF At(a, "fill") THEN req[a].stored ELSE ListOf(newest)
UpToDate(a) ==
    /\ At(a, "find") => req[a].stored = <<>>
    /\ At(a, "read") => req[a].row # None
    /\ At(a, "write") /\ req[a].row = None => req[a].stored = <<>>
    /\ ~raced /\ page[a].fresh =>
          /\ Matched(page[a].list, Basis(a))
          /\ At(a, "write") /\ req[a].row # None => req[a].stored = ListOf(newest)

\* The invariant of the lists.
KInv == Typed /\ ListsSound /\ \A a \in Admins : UpToDate(a)

\* Lists of the model are lists of the folds.
LEMMA ListsWide ==
    ASSUME NEW list \in SlotLists
    PROVE  list \in Seq(AnySlots) /\ \A i \in DOMAIN list : list[i] \in Slots(MaxIds)
<1>1. Slots(MaxIds) \subseteq AnySlots
  BY SettingsAssumption DEF Slots, AnySlots, NoId
<1>2. list \in Seq(Slots(MaxIds))
  BY DEF SlotLists
<1> HIDE DEF SlotLists
<1>3. \A i \in 1..Len(list) : list[i] \in Slots(MaxIds)
  BY <1>2
<1>4. list \in Seq(AnySlots)
  BY <1>1, <1>2
<1> QED  BY <1>2, <1>3, <1>4

\* A list whose ids stay within the bound is a list of the model.
LEMMA ListsNarrow ==
    ASSUME NEW list \in Seq(AnySlots), NEW n \in 0..MaxIds, IdsBelow(list, n)
    PROVE  list \in SlotLists
<1>1. Len(list) \in Nat /\ DOMAIN list = 1..Len(list) /\ \A i \in 1..Len(list) : list[i] \in AnySlots
  OBVIOUS
<1>2. ASSUME NEW i \in 1..Len(list) PROVE list[i] \in Slots(MaxIds)
  <2>1. list[i] \in AnySlots /\ list[i].id \in Nat /\ list[i].id <= n
    BY <1>1 DEF IdsBelow, AnySlots
  <2>2. list[i].id \in NoId..MaxIds
    BY <2>1, SettingsAssumption DEF NoId
  <2> QED  BY <2>1, <2>2 DEF Slots, AnySlots
<1>3. list \in [1..Len(list) -> Slots(MaxIds)]
  BY <1>1, <1>2
<1> QED  BY <1>1, <1>3 DEF SlotLists

\* A sound list stays so when more ids are given.
LEMMA StaysBelow ==
    ASSUME NEW list \in SlotLists, NEW m \in Nat, NEW n \in Nat, m <= n, IdsBelow(list, m)
    PROVE  IdsBelow(list, n)
<1>1. \A i \in DOMAIN list : list[i].id \in Nat
  <2>1. \A i \in DOMAIN list : list[i] \in Slots(MaxIds)
    BY ListsWide
  <2> QED  BY <2>1, SettingsAssumption DEF Slots, NoId
<1> QED  BY <1>1 DEF IdsBelow

\* What is read as the list of a row.
LEMMA ListRead ==
    ASSUME Typed, ListsSound, NEW x
    PROVE  ListOf(x) \in SlotLists /\ Sound(ListOf(x))
<1>1. Sound(<<>>) /\ <<>> \in SlotLists
  BY DEF Sound, IdsDistinct, IdsBelow, Keyed, SlotLists
<1>2. CASE x \in DOMAIN rows /\ rows[x].slots # Unset
  <2>1. rows[x].slots \in SlotLists /\ Sound(rows[x].slots)
    BY <1>2 DEF Typed, ListsSound
  <2> QED  BY <1>2, <2>1 DEF ListOf, SlotsOf
<1>3. CASE ~(x \in DOMAIN rows /\ rows[x].slots # Unset)
  <2>1. ListOf(x) = <<>>
    BY <1>3 DEF ListOf, SlotsOf
  <2> QED  BY <1>1, <2>1
<1> QED  BY <1>2, <1>3

\* The edits of a page keep what it knows.
LEMMA EditKeeps ==
    ASSUME NEW list \in SlotLists, NEW new \in Edited(list), IdsDistinct(list)
    PROVE  /\ new \in SlotLists /\ IdsDistinct(new)
           /\ \A stored : Matched(list, stored) => Matched(new, stored)
<1> DEFINE n == Len(list)
<1>1. n \in Nat /\ DOMAIN list = 1..n /\ \A i \in 1..n : list[i] \in Slots(MaxIds)
  BY DEF SlotLists
<1>2. CASE \E i \in DOMAIN list : new = RemoveAt(list, i)
  <2>1. PICK i \in 1..n : new = RemoveAt(list, i)
    BY <1>1, <1>2
  <2> DEFINE from(j) == IF j < i THEN j ELSE j + 1
  <2>2. Len(new) = n - 1 /\ DOMAIN new = 1..(n - 1) /\ \A j \in 1..(n - 1) : new[j] = list[from(j)]
    <3>1. list \in Seq(Slots(MaxIds))
      BY DEF SlotLists
    <3> DEFINE before == SubSeq(list, 1, i - 1)
               after == SubSeq(list, i + 1, n)
    <3>2. i \in Nat /\ i >= 1 /\ i <= n
      BY <1>1
    <3>3. /\ before \in Seq(Slots(MaxIds)) /\ Len(before) = i - 1
          /\ \A j \in 1..(i - 1) : before[j] = list[j]
      BY <1>1, <3>1, <3>2
    <3>4. /\ after \in Seq(Slots(MaxIds)) /\ Len(after) = n - i
          /\ \A j \in 1..(n - i) : after[j] = list[i + j]
      <4>1. i + 1 \in Int /\ n \in Int /\ \A j \in (i + 1)..n : list[j] \in Slots(MaxIds)
        BY <1>1, <3>2
      <4>2. /\ after \in Seq(Slots(MaxIds))
            /\ Len(after) = IF i + 1 <= n THEN n - (i + 1) + 1 ELSE 0
            /\ \A j \in 1..(n - (i + 1) + 1) : after[j] = list[(i + 1) + j - 1]
        BY <4>1, SubSeqProperties
      <4>3. n - (i + 1) + 1 = n - i /\ \A j \in 1..(n - i) : (i + 1) + j - 1 = i + j
        BY <1>1, <3>2
      <4> HIDE DEF after, n
      <4> QED  BY <1>1, <3>2, <4>2, <4>3
    <3>5. new = before \o after
      BY <2>1 DEF RemoveAt
    <3> HIDE DEF before, after, n
    <3>6. Len(new) = n - 1 /\ DOMAIN new = 1..(n - 1)
      <4>1. Len(new) = Len(before) + Len(after) /\ new \in Seq(Slots(MaxIds))
        BY <3>3, <3>4, <3>5, ConcatProperties
      <4> QED  BY <1>1, <3>2, <3>3, <3>4, <4>1
    <3>7. ASSUME NEW j \in 1..(n - 1) PROVE new[j] = list[from(j)]
      <4>1. CASE j < i
        <5>1. j \in 1..(i - 1)
          BY <3>2, <4>1
        <5> QED  BY <1>1, <3>2, <3>3, <3>4, <3>5, <4>1, <5>1
      <4>2. CASE ~(j < i)
        <5>1. j - (i - 1) \in 1..(n - i) /\ i + (j - (i - 1)) = j + 1
          BY <1>1, <3>2, <4>2
        <5>2. new[j] = after[j - (i - 1)]
          BY <1>1, <3>2, <3>3, <3>4, <3>5, <4>2, <5>1
        <5> QED  BY <3>4, <4>2, <5>1, <5>2
      <4> QED  BY <4>1, <4>2
    <3> QED  BY <3>6, <3>7
  <2>3. \A j \in 1..(n - 1) : from(j) \in 1..n /\ \A k \in 1..(n - 1) : from(j) = from(k) => j = k
    BY <1>1
  <2> HIDE DEF from
  <2>4. new \in SlotLists
    <3>1. new \in Seq(Slots(MaxIds))
      BY <2>1 DEF RemoveAt, SlotLists
    <3> QED  BY <3>1 DEF SlotLists
  <2>5. IdsDistinct(new)
    BY <1>1, <2>2, <2>3 DEF IdsDistinct
  <2>6. \A stored : Matched(list, stored) => Matched(new, stored)
    BY <1>1, <2>2, <2>3 DEF Matched
  <2> QED  BY <2>4, <2>5, <2>6
<1>3. CASE \E m \in Models : new = Append(list, [id |-> NoId, model |-> m, key |-> m])
  <2>1. PICK m \in Models : new = Append(list, [id |-> NoId, model |-> m, key |-> m])
    BY <1>3
  <2> DEFINE slot == [id |-> NoId, model |-> m, key |-> m]
  <2>2. slot \in Slots(MaxIds) /\ slot.id = NoId /\ slot.key # NoKey
    BY SettingsAssumption DEF Slots, NoId
  <2> HIDE DEF slot
  <2>3. /\ new \in Seq(Slots(MaxIds)) /\ DOMAIN new = 1..(n + 1)
        /\ new[n + 1] = slot /\ \A j \in 1..n : new[j] = list[j]
    BY <1>1, <2>1, <2>2 DEF SlotLists, slot
  <2>4. \A j \in 1..(n + 1) : j \in 1..n \/ j = n + 1
    BY <1>1
  <2>5. IdsDistinct(new)
    BY <1>1, <2>2, <2>3, <2>4 DEF IdsDistinct
  <2>6. \A stored : Matched(list, stored) => Matched(new, stored)
    BY <1>1, <2>2, <2>3, <2>4 DEF Matched
  <2> QED  BY <2>3, <2>5, <2>6 DEF SlotLists
<1>4. CASE \E i \in DOMAIN list : new = [list EXCEPT ![i].key = list[i].model]
  <2>1. PICK i \in 1..n : new = [list EXCEPT ![i].key = list[i].model]
    BY <1>1, <1>4
  <2>2. /\ DOMAIN new = 1..n
        /\ \A j \in 1..n : new[j].id = list[j].id /\ new[j] \in Slots(MaxIds)
        /\ \A j \in 1..n : j # i => new[j] = list[j]
        /\ new[i].key # NoKey
    BY <1>1, <2>1, SettingsAssumption DEF Slots
  <2>3. new \in SlotLists
    <3>1. new \in [1..n -> Slots(MaxIds)]
      BY <1>1, <2>1, <2>2
    <3> QED  BY <1>1, <3>1 DEF SlotLists
  <2>4. IdsDistinct(new)
    BY <1>1, <2>2 DEF IdsDistinct
  <2>5. \A stored : Matched(list, stored) => Matched(new, stored)
    BY <1>1, <2>2 DEF Matched
  <2> QED  BY <2>3, <2>4, <2>5
<1>5. CASE \E i \in 1..(n - 1) : new = [list EXCEPT ![i] = list[i + 1], ![i + 1] = list[i]]
  <2>1. PICK i \in 1..(n - 1) : new = [list EXCEPT ![i] = list[i + 1], ![i + 1] = list[i]]
    BY <1>5
  <2> DEFINE from(j) == IF j = i THEN i + 1 ELSE IF j = i + 1 THEN i ELSE j
  <2>2. i \in 1..n /\ i + 1 \in 1..n /\ i # i + 1
    BY <1>1
  <2>3. \A j \in 1..n : from(j) \in 1..n /\ \A k \in 1..n : from(j) = from(k) => j = k
    BY <1>1, <2>2
  <2>4. DOMAIN new = 1..n /\ \A j \in 1..n : new[j] = list[from(j)]
    BY <1>1, <2>1, <2>2
  <2> HIDE DEF from
  <2>5. new \in SlotLists
    <3>1. new \in [1..n -> Slots(MaxIds)]
      <4>1. \A j \in 1..n : new[j] \in Slots(MaxIds)
        BY <1>1, <2>3, <2>4
      <4> QED  BY <1>1, <2>1, <4>1
    <3> QED  BY <1>1, <3>1 DEF SlotLists
  <2>6. IdsDistinct(new)
    BY <1>1, <2>3, <2>4 DEF IdsDistinct
  <2>7. \A stored : Matched(list, stored) => Matched(new, stored)
    BY <1>1, <2>3, <2>4 DEF Matched
  <2> QED  BY <2>5, <2>6, <2>7
<1> QED  BY <1>2, <1>3, <1>4, <1>5 DEF Edited

-----------------------------------------------------------------------------
(* The mean *)

\* Rounding to the nearest tenth and comparing with k tenths is comparing the
\* exact quotient with half a tenth less than k.
LEMMA Rounding ==
    ASSUME NEW T \in Nat, T > 0, NEW W \in Int, NEW k \in Int
    PROVE  (20 * W + T) \div (2 * T) >= k <=> 20 * W >= (2 * k - 1) * T
<1> DEFINE D == 2 * T
           N == 20 * W + T
           q == N \div D
<1>1. D \in Nat /\ D > 0 /\ N \in Int
  OBVIOUS
<1>2. q \in Int /\ N = D * q + (N % D) /\ N % D \in 0..(D - 1)
  <2> HIDE DEF D, N
  <2> QED  BY <1>1
<1>3. D * q <= N /\ N < D * q + D
  <2> HIDE DEF D, N, q
  <2>1. D * q \in Int
    BY <1>1, <1>2
  <2> QED  BY <1>1, <1>2, <2>1
<1>4. ASSUME q >= k PROVE N >= D * k
  <2> HIDE DEF D, N, q
  <2>1. D * q >= D * k
    BY <1>1, <1>2, <1>4
  <2> QED  BY <1>1, <1>2, <1>3, <2>1
<1>5. ASSUME q < k PROVE N < D * k
  <2> HIDE DEF D, N, q
  <2>1. q + 1 <= k
    BY <1>2, <1>5
  <2>2. D * (q + 1) <= D * k
    BY <1>1, <1>2, <2>1
  <2>3. D * (q + 1) = D * q + D
    BY <1>1, <1>2
  <2> QED  BY <1>1, <1>2, <1>3, <2>2, <2>3
<1>6. q >= k <=> N >= D * k
  <2> HIDE DEF D, N, q
  <2>1. D * k \in Int
    BY <1>1
  <2> QED  BY <1>1, <1>2, <1>4, <1>5, <2>1
<1>7. N >= D * k <=> 20 * W >= (2 * k - 1) * T
  <2>1. (2 * k - 1) * T = D * k - T
    OBVIOUS
  <2>2. D * k \in Int
    OBVIOUS
  <2> QED  BY <2>1, <2>2
<1> QED  BY <1>6, <1>7

\* The weights that count are natural numbers, and not all zero.
LEMMA WeightsCount ==
    ASSUME NEW configured \in [Scoring -> Nat]
    PROVE  /\ Weights(configured) \in [Scoring -> Nat]
           /\ Total(Weights(configured)) \in Nat
           /\ Total(Weights(configured)) > 0
<1> DEFINE w == Weights(configured)
<1>1. DefaultWeights \in [Scoring -> Nat] /\ Total(DefaultWeights) = 92
  BY DEF DefaultWeights, Scoring, Total
<1>2. w \in [Scoring -> Nat] /\ \E d \in Scoring : w[d] > 0
  BY <1>1 DEF Weights, DefaultWeights, Scoring
<1>3. w.profile \in Nat /\ w.duties \in Nat /\ w.requirements \in Nat
      /\ w.background \in Nat /\ w.bonus \in Nat
  BY <1>2 DEF Scoring
<1>4. w.profile > 0 \/ w.duties > 0 \/ w.requirements > 0 \/ w.background > 0 \/ w.bonus > 0
  BY <1>2 DEF Scoring
<1> HIDE DEF w
<1>5. Total(w) \in Nat /\ Total(w) > 0
  BY <1>3, <1>4 DEF Total
<1> QED  BY <1>2, <1>5 DEF w

\* evaluateWeightedScreening passes exactly those whom the rules and the exact
\* weighted mean let pass.
LEMMA VerdictExact ==
    ASSUME NEW scores \in [Dimensions -> ScoreRange], NEW configured \in [Scoring -> Nat],
           NEW rules \in Rules
    PROVE  Passes(scores, configured, rules) <=> Deserved(scores, configured, rules)
<1> DEFINE w == Weights(configured)
<1>1. w \in [Scoring -> Nat] /\ Total(w) \in Nat /\ Total(w) > 0
  BY WeightsCount
<1> HIDE DEF w
<1>2. \A d \in Scoring : scores[d] \in Int /\ w[d] \in Int
  BY <1>1 DEF Dimensions, ScoreRange
<1>3. Weighed(scores, w) \in Int
  <2>1. \A d \in Scoring : scores[d] * w[d] \in Int
    BY <1>2
  <2>2. /\ scores.profile * w.profile \in Int /\ scores.duties * w.duties \in Int
        /\ scores.requirements * w.requirements \in Int
        /\ scores.background * w.background \in Int /\ scores.bonus * w.bonus \in Int
    BY <2>1 DEF Scoring
  <2> QED  BY <2>2 DEF Weighed
<1>4. rules.weighted \in Int
  BY DEF Rules
<1>5. Tenths(scores, w) >= rules.weighted
      <=> 20 * Weighed(scores, w) >= (2 * rules.weighted - 1) * Total(w)
  BY <1>1, <1>3, <1>4, Rounding DEF Tenths
<1> QED  BY <1>5 DEF Passes, Deserved, w

-----------------------------------------------------------------------------
(* The answer *)

\* An answer that is used is a complete map of scores.
LEMMA UsableComplete ==
    ASSUME NEW primary \in Usable
    PROVE  primary \in AnswerScores /\ Complete(primary)
<1>1. PICK answer \in Answers : primary = Effective(answer)
  BY DEF Usable
<1>2. answer.outer \in AnswerScores /\ answer.inner \in AnswerScores
  BY <1>1, SettingsAssumption
<1> QED  BY <1>1, <1>2 DEF Usable, Effective

\* What fills the gaps of a complete answer changes nothing: its clamped scores
\* are those that count.
LEMMA PrimaryCounts ==
    ASSUME NEW primary \in AnswerScores, Complete(primary), NEW supplement
    PROVE  /\ Normalized(Merged(primary, supplement)) \in [Dimensions -> ScoreRange]
           /\ \A d \in Dimensions :
                 Normalized(Merged(primary, supplement))[d] = Clamped(primary[d])
<1>1. \A d \in Dimensions : primary[d] # NoScore /\ primary[d] \in Int
  BY DEF Complete, Scored, AnswerScores
<1>2. \A d \in Dimensions : Merged(primary, supplement)[d] = primary[d]
  BY <1>1 DEF Merged
<1>3. \A d \in Dimensions :
        Normalized(Merged(primary, supplement))[d] = Clamped(primary[d])
  BY <1>1, <1>2 DEF Normalized
<1>4. \A n \in Int : Clamped(n) \in ScoreRange
  BY DEF Clamped, ScoreRange
<1>5. DOMAIN Normalized(Merged(primary, supplement)) = Dimensions
  BY DEF Normalized
<1>6. Normalized(Merged(primary, supplement)) \in [Dimensions -> ScoreRange]
  BY <1>1, <1>2, <1>4 DEF Normalized
<1> QED  BY <1>3, <1>6

-----------------------------------------------------------------------------
(* The rules in force *)

\* What the steps rely on in the shape of the state.
Shape ==
    /\ DOMAIN rows \subseteq RowIds
    /\ \A x \in DOMAIN rows : rows[x].rules \in Columns
    /\ newest \in RowIds \cup {None}
    /\ DOMAIN req = Admins
    /\ \A a \in Admins :
          /\ DOMAIN req[a] = DOMAIN NoRequest
          /\ req[a].row \in RowIds \cup {None} /\ req[a].rules \in Columns
          /\ req[a].pc = "fill" => req[a].row # None

\* Without a race there is one row: every request works on it, or found none,
\* and it holds the rules saved last.
OneRow ==
    raced \/ /\ lastSaved = RulesOf(newest)
             /\ \A a \in Admins : req[a].row \in {None, newest}

\* What the screening has read.
ReadRight ==
    /\ DOMAIN screen = DOMAIN NoScreening
    /\ screen.pc = "idle" => screen = NoScreening
    /\ screen.pc = "position" =>
          /\ screen.rules \in Columns /\ "position" \notin screen.unread
          /\ raced \/ screen.rules = AsFound("system", screen.asRead)
    /\ screen.pc = "ask" => screen.rules \in Rules

VInv == Shape /\ OneRow /\ ReadRight /\ VerdictStands

-----------------------------------------------------------------------------
(* Every step keeps the invariant *)

LEMMA SettingsInit ==
    ASSUME Init PROVE VInv
<1> USE SettingsAssumption DEF Init
<1>1. rows \in Starts /\ DOMAIN rows \subseteq {1}
      /\ \A x \in DOMAIN rows : rows[x].rules \in Columns
  BY DEF Columns
<1>2. 1 \in RowIds
  BY DEF RowIds
<1>3. Shape
  BY <1>1, <1>2 DEF Shape, NoRequest, Columns
<1>4. OneRow
  BY DEF OneRow, NoRequest
<1>5. ReadRight /\ VerdictStands
  BY DEF ReadRight, VerdictStands, NoScreening
<1> QED  BY <1>3, <1>4, <1>5 DEF VInv

\* A write of a list leaves the rules of every row as they are.
LEMMA ListWritten ==
    ASSUME Shape, NEW x \in RowIds, NEW list, WriteList(x, list)
    PROVE  /\ newest' = x /\ DOMAIN rows' \subseteq RowIds
           /\ \A y \in DOMAIN rows' : rows'[y].rules \in Columns
           /\ RulesOf(x)' = RulesOf(x)
<1>1. newest' = x /\ rows' = Put(x, [slots |-> list, rules |-> RulesOf(x)])
  BY DEF WriteList
<1>2. DOMAIN rows' = DOMAIN rows \cup {x}
  BY <1>1 DEF Put
<1>3. \A y \in DOMAIN rows' :
         rows'[y] = IF y = x THEN [slots |-> list, rules |-> RulesOf(x)] ELSE rows[y]
  BY <1>1 DEF Put
<1>4. RulesOf(x) \in Columns
  BY DEF RulesOf, Shape, Columns
<1>5. \A y \in DOMAIN rows' : rows'[y].rules \in Columns
  BY <1>2, <1>3, <1>4 DEF Shape
<1>6. RulesOf(x)' = RulesOf(x)
  BY <1>2, <1>3 DEF RulesOf
<1> QED  BY <1>1, <1>2, <1>5, <1>6 DEF Shape

\* A write of the newest row, or of the first, keeps one row in use.
LEMMA OneRowKept ==
    ASSUME Shape, OneRow, NEW a \in Admins, NEW x \in RowIds, Target(a, x),
           newest' = x, End(a),
           raced' <=> (raced \/ (req[a].row = None /\ newest # None)),
           \/ lastSaved' = RulesOf(x)'
           \/ lastSaved' = lastSaved /\ RulesOf(x)' = RulesOf(x)
    PROVE  OneRow'
<1> SUFFICES ASSUME ~raced' PROVE OneRow'
  BY DEF OneRow
<1>1. ~raced /\ (req[a].row = None => newest = None)
  OBVIOUS
<1>2. lastSaved = RulesOf(newest) /\ \A b \in Admins : req[b].row \in {None, newest}
  BY <1>1 DEF OneRow
<1>3. newest = None \/ newest = x
  BY <1>1, <1>2 DEF Target
<1>4. \A b \in Admins : req'[b] = IF b = a THEN NoRequest ELSE req[b]
  BY DEF End, Shape
<1>5. \A b \in Admins : req'[b].row \in {None, x}
  BY <1>2, <1>3, <1>4 DEF NoRequest
<1>6. RulesOf(newest) = RulesOf(x)
  <2>1. CASE newest = x
    BY <2>1
  <2>2. CASE newest = None
    <3>1. x \notin DOMAIN rows
      BY <1>1, <1>2, <2>2, SettingsAssumption DEF Target, Fresh, Shape, RowIds
    <3>2. None \notin DOMAIN rows
      BY SettingsAssumption DEF Shape, RowIds
    <3> QED  BY <2>2, <3>1, <3>2 DEF RulesOf
  <2> QED  BY <1>3, <2>1, <2>2
<1>7. lastSaved' = RulesOf(newest)'
  BY <1>2, <1>6 DEF RulesOf
<1> QED  BY <1>5, <1>7 DEF OneRow

\* A request changes nothing of the screening.
LEMMA ScreeningKept ==
    ASSUME ReadRight, VerdictStands, SettingsStep, raced => raced'
    PROVE  ReadRight' /\ VerdictStands'
BY DEF ReadRight, VerdictStands, SettingsStep, AsFound

\* The steps of a request, one by one.
LEMMA RequestStep ==
    ASSUME VInv, NEW a \in Admins,
           \/ Load(a) \/ Fill(a) \/ FillFails(a) \/ Edit(a) \/ Save(a) \/ Find(a) \/ Read(a)
           \/ ReadFails(a) \/ Write(a) \/ SaveRules(a) \/ WriteRules(a)
    PROVE  VInv'
<1> USE DEF VInv
<1>0. None \notin RowIds
  BY SettingsAssumption DEF RowIds
<1>1. CASE Load(a)
  <2> USE <1>1 DEF Load
  <2>1. \/ req' = req
        \/ /\ newest # None
           /\ \E list : req' = [req EXCEPT ![a] = [@ EXCEPT !.pc = "fill", !.row = newest,
                                                           !.stored = list]]
    OBVIOUS
  <2>2. Shape'
    BY <2>1 DEF Shape, NoRequest
  <2>3. OneRow'
    BY <2>1 DEF OneRow, Shape, NoRequest, RulesOf
  <2> QED  BY <2>2, <2>3, ScreeningKept
<1>2. CASE Fill(a)
  <2>0. PICK x \in RowIds : x = req[a].row
    BY <1>2 DEF Fill, At, Shape
  <2>1. /\ WriteList(x, req[a].stored) /\ End(a) /\ Target(a, x)
        /\ lastSaved' = lastSaved /\ raced' = raced /\ SettingsStep
    BY <1>0, <1>2, <2>0 DEF Fill, Target
  <2>2. /\ newest' = x /\ DOMAIN rows' \subseteq RowIds /\ RulesOf(x)' = RulesOf(x)
        /\ \A y \in DOMAIN rows' : rows'[y].rules \in Columns
    BY <2>1, ListWritten
  <2>3. Shape'
    BY <2>1, <2>2 DEF Shape, End, NoRequest, Columns
  <2>4. raced' <=> (raced \/ (req[a].row = None /\ newest # None))
    BY <1>0, <2>0, <2>1
  <2>5. OneRow'
    BY <2>1, <2>2, <2>4, OneRowKept
  <2> QED  BY <2>1, <2>3, <2>5, ScreeningKept
<1>3. CASE Edit(a)
  <2>1. Shape' /\ OneRow'
    BY <1>3 DEF Edit, Shape, OneRow, RulesOf
  <2> QED  BY <1>3, <2>1, ScreeningKept DEF Edit
<1>4. CASE Save(a) \/ SaveRules(a)
  <2>1. PICK p \in {"find", "findRules"}, rules \in Columns :
          req' = [req EXCEPT ![a] = [NoRequest EXCEPT !.pc = p, !.rules = rules]]
    BY <1>4 DEF Save, SaveRules, Begin, Columns
  <2>2. UNCHANGED <<rows, newest, lastSaved, raced>> /\ SettingsStep
    BY <1>4 DEF Save, SaveRules
  <2>3. Shape' /\ OneRow'
    BY <2>1, <2>2 DEF Shape, OneRow, NoRequest, RulesOf
  <2> QED  BY <2>2, <2>3, ScreeningKept
<1>5. CASE Find(a)
  <2> USE <1>5 DEF Find
  <2>1. \E p \in {"read", "write", "writeRules"} :
          req' = [req EXCEPT ![a].row = newest, ![a].pc = p]
    <3>1. CASE At(a, "findRules")
      BY <3>1
    <3>2. CASE ~At(a, "findRules") /\ newest = None
      BY <3>2
    <3>3. CASE ~At(a, "findRules") /\ newest # None
      BY <3>3
    <3> QED  BY <3>1, <3>2, <3>3
  <2>2. Shape' /\ OneRow'
    BY <2>1 DEF Shape, OneRow, NoRequest, RulesOf
  <2> QED  BY <2>2, ScreeningKept
<1>6. CASE Read(a) \/ ReadFails(a)
  <2> USE <1>6 DEF Read, ReadFails
  <2>1. Shape' /\ OneRow'
    BY DEF Shape, OneRow, NoRequest, RulesOf
  <2> QED  BY <2>1, ScreeningKept
<1>7. CASE Write(a)
  <2>0. PICK x \in RowIds : \E list : Target(a, x) /\ WriteList(x, list)
    BY <1>7 DEF Write
  <2>1. PICK list : Target(a, x) /\ WriteList(x, list)
    BY <2>0
  <2>2. /\ raced' <=> (raced \/ (req[a].row = None /\ newest # None))
        /\ End(a) /\ lastSaved' = lastSaved /\ SettingsStep
    BY <1>7 DEF Write
  <2>3. /\ newest' = x /\ DOMAIN rows' \subseteq RowIds /\ RulesOf(x)' = RulesOf(x)
        /\ \A y \in DOMAIN rows' : rows'[y].rules \in Columns
    BY <2>1, ListWritten
  <2>4. Shape'
    BY <2>2, <2>3 DEF Shape, End, NoRequest, Columns
  <2>5. OneRow'
    BY <2>1, <2>2, <2>3, OneRowKept
  <2> QED  BY <2>2, <2>4, <2>5, ScreeningKept
<1>8. CASE WriteRules(a)
  <2>1. PICK x \in RowIds :
          /\ Target(a, x) /\ newest' = x
          /\ rows' = Put(x, [slots |-> SlotsOf(x), rules |-> req[a].rules])
    BY <1>8 DEF WriteRules
  <2>2. /\ raced' <=> (raced \/ (req[a].row = None /\ newest # None))
        /\ End(a) /\ lastSaved' = req[a].rules /\ SettingsStep
    BY <1>8 DEF WriteRules
  <2>3. /\ DOMAIN rows' = DOMAIN rows \cup {x}
        /\ \A y \in DOMAIN rows' : rows'[y].rules = IF y = x THEN req[a].rules ELSE rows[y].rules
    BY <2>1 DEF Put
  <2>4. Shape'
    BY <2>1, <2>2, <2>3 DEF Shape, End, NoRequest, Columns
  <2>5. lastSaved' = RulesOf(x)'
    BY <2>2, <2>3 DEF RulesOf
  <2>6. OneRow'
    BY <2>1, <2>2, <2>5, OneRowKept
  <2> QED  BY <2>2, <2>4, <2>6, ScreeningKept
<1>9. CASE FillFails(a)
  <2>1. UNCHANGED <<rows, newest, lastSaved, raced>> /\ End(a) /\ SettingsStep
    BY <1>9 DEF FillFails
  <2>2. Shape' /\ OneRow'
    BY <2>1 DEF Shape, OneRow, End, NoRequest, RulesOf, Columns
  <2> QED  BY <2>1, <2>2, ScreeningKept
<1> QED  BY <1>1, <1>2, <1>3, <1>4, <1>5, <1>6, <1>7, <1>8, <1>9

\* A verdict rests on an answer, a supplement and weights.
LEMMA JudgePicks ==
    ASSUME Judge
    PROVE  \E primary \in Usable, supplement \in Supplements, weights \in WeightChoices :
             LET scores == Normalized(Merged(primary, supplement)) IN
             screen' = [NoScreening EXCEPT !.pc = "saved", !.rules = screen.rules,
                   !.primary = primary, !.scores = scores, !.weights = weights,
                   !.verdict = IF Passes(scores, weights, screen.rules) THEN "passed" ELSE "not passed"]
<1>1. PICK e \in Evaluations, weights \in WeightChoices :
        screen' = [NoScreening EXCEPT !.pc = "saved", !.rules = screen.rules,
             !.primary = e.primary, !.scores = Normalized(e.merged), !.weights = weights,
             !.verdict = IF Passes(Normalized(e.merged), weights, screen.rules)
                         THEN "passed" ELSE "not passed"]
  BY DEF Judge
<1>2. PICK primary \in Usable, supplement \in Supplements :
         e = [primary |-> primary, merged |-> Merged(primary, supplement)]
  BY DEF Evaluations
<1>3. e.primary = primary /\ e.merged = Merged(primary, supplement)
  BY <1>2
<1> QED  BY <1>1, <1>3

\* The steps of the screening.
LEMMA ScreeningStep ==
    ASSUME VInv, ReadRules \/ RulesFail \/ ReadPosition \/ PositionFails \/ Judge \/ GiveUp
    PROVE  VInv'
<1> USE DEF VInv
<1>1. ScreenStep
  BY DEF ReadRules, RulesFail, BeginScreening, ReadPosition, PositionFails, Judge, GiveUp
<1>2. Shape' /\ OneRow'
  BY <1>1 DEF ScreenStep, Shape, OneRow, RulesOf
<1>3. CASE ReadRules \/ RulesFail
  <2>1. RulesOf(newest) \in Columns /\ NoRules \in Columns
    BY DEF RulesOf, Shape, Columns
  <2>2. raced \/ RulesOf(newest) = lastSaved
    BY DEF OneRow
  <2>3. PICK rules \in Columns, unread \in {{}, {"system"}} :
           /\ BeginScreening(rules, unread)
           /\ raced \/ rules = IF "system" \in unread THEN NoRules ELSE lastSaved
    BY <1>3, <2>1, <2>2 DEF ReadRules, RulesFail
  <2>4. screen' = [NoScreening EXCEPT !.pc = "position", !.rules = rules,
                     !.asRead = lastSaved, !.unread = unread]
    BY <2>3 DEF BeginScreening, Screening, ReadRight, NoScreening
  <2>5. ReadRight' /\ VerdictStands'
    BY <1>1, <2>3, <2>4 DEF ReadRight, VerdictStands, AsFound, NoScreening, ScreenStep
  <2> QED  BY <1>2, <2>5
<1>4. CASE ReadPosition \/ PositionFails
  <2>1. /\ Screening("position") /\ screen.rules \in Columns /\ "position" \notin screen.unread
        /\ raced \/ screen.rules = AsFound("system", screen.asRead)
    BY <1>4 DEF ReadPosition, PositionFails, Screening, ReadRight
  <2>2. PICK own \in Columns, failed \in {{}, {"position"}} :
          screen' = [screen EXCEPT !.pc = "ask", !.own = own, !.unread = @ \cup failed,
                        !.rules = Resolved(@, IF failed = {} THEN own ELSE NoRules, Builtin)]
    <3>1. CASE ReadPosition
      <4>1. PICK own \in Columns :
              screen' = [screen EXCEPT !.pc = "ask", !.own = own, !.rules = Resolved(@, own, Builtin)]
        BY <3>1 DEF ReadPosition, Columns
      <4>2. [screen EXCEPT !.pc = "ask", !.own = own, !.rules = Resolved(@, own, Builtin)]
            = [screen EXCEPT !.pc = "ask", !.own = own, !.unread = @ \cup {},
                        !.rules = Resolved(@, own, Builtin)]
        BY DEF ReadRight, NoScreening
      <4> QED  BY <4>1, <4>2
    <3>2. CASE PositionFails
      BY <3>2 DEF PositionFails, Columns
    <3> QED  BY <1>4, <3>1, <3>2
  <2> DEFINE read == IF failed = {} THEN own ELSE NoRules
  <2>3. read \in Columns /\ Resolved(screen.rules, read, Builtin) \in Rules
    BY <2>1, SettingsAssumption DEF Resolved, Columns
  <2>4. /\ DOMAIN screen' = DOMAIN NoScreening /\ screen'.pc = "ask"
        /\ screen'.rules = Resolved(screen.rules, read, Builtin)
        /\ screen'.own = own /\ screen'.asRead = screen.asRead
        /\ screen'.unread = screen.unread \cup failed
    BY <2>2 DEF ReadRight, NoScreening
  <2>5. AsFound("system", screen.asRead)' = AsFound("system", screen.asRead)
        /\ AsFound("position", screen.own)' = read
    BY <2>1, <2>4 DEF AsFound
  <2>6. raced' = raced
    BY <1>1 DEF ScreenStep
  <2> HIDE DEF read
  <2>7. ReadRight' /\ VerdictStands'
    BY <2>1, <2>3, <2>4, <2>5, <2>6 DEF ReadRight, VerdictStands
  <2> QED  BY <1>2, <2>7
<1>5. CASE Judge
  <2>1. PICK primary \in Usable, supplement \in Supplements, weights \in WeightChoices :
          LET scores == Normalized(Merged(primary, supplement)) IN
          screen' = [NoScreening EXCEPT !.pc = "saved", !.rules = screen.rules,
                !.primary = primary, !.scores = scores, !.weights = weights,
                !.verdict = IF Passes(scores, weights, screen.rules) THEN "passed" ELSE "not passed"]
    BY <1>5, JudgePicks
  <2> DEFINE scores == Normalized(Merged(primary, supplement))
  <2>2. screen.rules \in Rules
    BY <1>5 DEF Judge, Screening, ReadRight
  <2>3. primary \in AnswerScores /\ Complete(primary)
    BY UsableComplete
  <2>4. /\ scores \in [Dimensions -> ScoreRange]
        /\ \A d \in Dimensions : scores[d] = Clamped(primary[d])
    BY <2>3, PrimaryCounts
  <2>5. weights \in [Scoring -> Nat]
    BY SettingsAssumption
  <2> HIDE DEF scores
  <2>6. Passes(scores, weights, screen.rules) <=> Deserved(scores, weights, screen.rules)
    BY <2>2, <2>4, <2>5, VerdictExact
  <2>7. /\ DOMAIN screen' = DOMAIN NoScreening
        /\ screen'.pc = "saved" /\ screen'.primary = primary /\ screen'.scores = scores
        /\ screen'.weights = weights /\ screen'.rules = screen.rules
        /\ screen'.verdict = IF Passes(scores, weights, screen.rules) THEN "passed" ELSE "not passed"
    BY <2>1 DEF NoScreening, scores
  <2>8. ReadRight'
    BY <2>7 DEF ReadRight
  <2>9. VerdictStands'
    BY <2>3, <2>4, <2>6, <2>7 DEF VerdictStands
  <2> QED  BY <1>2, <2>8, <2>9
<1>6. CASE GiveUp
  <2>1. ReadRight' /\ VerdictStands'
    BY <1>6 DEF GiveUp, ReadRight, VerdictStands, NoScreening
  <2> QED  BY <1>2, <2>1
<1> QED  BY <1>3, <1>4, <1>5, <1>6

-----------------------------------------------------------------------------
(* Every step keeps the lists *)

\* The list without slots.
LEMMA EmptyList ==
    /\ <<>> \in SlotLists /\ IdsDistinct(<<>>) /\ Keyed(<<>>)
    /\ \A n : IdsBelow(<<>>, n)
    /\ \A stored : Matched(<<>>, stored)
BY DEF SlotLists, IdsDistinct, Keyed, IdsBelow, Matched

\* At first no slot has an id and nobody has a page.
LEMMA KeysInit ==
    ASSUME Init PROVE KInv
<1> USE SettingsAssumption DEF Init
<1>1. rows \in Starts /\ DOMAIN rows \subseteq {1} /\ 1 \in RowIds
  BY DEF RowIds
<1>2. ASSUME NEW x \in DOMAIN rows, rows[x].slots # Unset
      PROVE  rows[x].slots \in SlotLists /\ Sound(rows[x].slots)
  <2> DEFINE list == rows[x].slots
  <2>1. list \in Seq(FirstSlots)
    BY <1>1, <1>2
  <2>2. FirstSlots \subseteq Slots(MaxIds)
    BY DEF FirstSlots, Slots, NoId
  <2>3. \A i \in DOMAIN list : list[i].id = NoId /\ list[i].key # NoKey
    <3>1. \A i \in DOMAIN list : list[i] \in FirstSlots
      BY <2>1
    <3> QED  BY <3>1 DEF FirstSlots
  <2> HIDE DEF list
  <2>4. Sound(list)
    BY <2>3 DEF Sound, IdsDistinct, IdsBelow, Keyed, NoId
  <2>5. list \in SlotLists
    BY <2>1, <2>2 DEF SlotLists
  <2> QED  BY <2>4, <2>5 DEF list
<1>3. \A x \in DOMAIN rows : rows[x] \in [slots : SlotLists \cup {Unset}, rules : Columns]
  <2> SUFFICES ASSUME NEW x \in DOMAIN rows
               PROVE  rows[x] \in [slots : SlotLists \cup {Unset}, rules : Columns]
    OBVIOUS
  <2>1. rows[x] \in [slots : {Unset} \cup Seq(FirstSlots), rules : Columns]
    BY <1>1 DEF Columns
  <2>2. rows[x].slots \in SlotLists \cup {Unset}
    BY <1>2
  <2> QED  BY <2>1, <2>2
<1>4. Typed
  <2>1. NoRequest \in [pc : Pcs, row : RowIds \cup {None}, stored : SlotLists, rules : Columns]
    BY EmptyList DEF NoRequest, Pcs, Columns
  <2>2. Closed \in [list : SlotLists, open : BOOLEAN, fresh : BOOLEAN, edits : Nat]
    BY EmptyList DEF Closed
  <2> QED  BY <1>1, <1>3, <2>1, <2>2 DEF Typed
<1>5. ListsSound
  BY <1>2, EmptyList DEF ListsSound, Sound, NoRequest, Closed
<1>6. \A a \in Admins : UpToDate(a)
  BY EmptyList DEF UpToDate, NoRequest, Closed, At
<1> QED  BY <1>4, <1>5, <1>6 DEF KInv

\* What was sound stays so when ids are given.
LEMMA SoundKept ==
    ASSUME Typed, NEW list \in SlotLists, Sound(list), ids' \in 0..MaxIds, ids' >= ids
    PROVE  IdsDistinct(list) /\ IdsBelow(list, ids') /\ Keyed(list)
<1>1. ids \in Nat /\ ids' \in Nat /\ ids <= ids'
  BY SettingsAssumption DEF Typed
<1> QED  BY <1>1, StaysBelow DEF Sound

\* A write of a sound list.
LEMMA SlotsWritten ==
    ASSUME Typed, ListsSound, ids' \in 0..MaxIds, ids' >= ids,
           NEW x \in RowIds, NEW list \in SlotLists, WriteList(x, list),
           IdsDistinct(list), IdsBelow(list, ids'), Keyed(list)
    PROVE  /\ DOMAIN rows' \subseteq RowIds /\ newest' = x
           /\ \A y \in DOMAIN rows' : rows'[y] \in [slots : SlotLists \cup {Unset}, rules : Columns]
           /\ \A y \in DOMAIN rows' : rows'[y].slots # Unset =>
                 IdsDistinct(rows'[y].slots) /\ IdsBelow(rows'[y].slots, ids') /\ Keyed(rows'[y].slots)
           /\ rows'[newest'].slots = list /\ ListOf(newest)' = list
<1> DEFINE row == [slots |-> list, rules |-> RulesOf(x)]
<1>1. newest' = x /\ rows' = Put(x, row)
  BY DEF WriteList
<1>2. RulesOf(x) \in Columns
  BY DEF RulesOf, Typed, Columns
<1>3. row.slots = list /\ row \in [slots : SlotLists \cup {Unset}, rules : Columns]
  BY <1>2
<1> HIDE DEF row
<1>4. DOMAIN rows' = DOMAIN rows \cup {x} /\ \A y \in DOMAIN rows' : rows'[y] = IF y = x THEN row ELSE rows[y]
  BY <1>1 DEF Put
<1>5. DOMAIN rows' \subseteq RowIds
  BY <1>4 DEF Typed
<1>6. \A y \in DOMAIN rows' : rows'[y] \in [slots : SlotLists \cup {Unset}, rules : Columns]
  BY <1>3, <1>4 DEF Typed
<1>7. ASSUME NEW y \in DOMAIN rows', rows'[y].slots # Unset
      PROVE  IdsDistinct(rows'[y].slots) /\ IdsBelow(rows'[y].slots, ids') /\ Keyed(rows'[y].slots)
  <2>1. CASE y = x
    BY <1>3, <1>4, <2>1
  <2>2. CASE y # x
    <3>1. y \in DOMAIN rows /\ rows'[y] = rows[y]
      BY <1>4, <2>2
    <3>2. rows[y].slots \in SlotLists /\ Sound(rows[y].slots)
      BY <1>7, <3>1 DEF Typed, ListsSound
    <3> QED  BY <3>1, <3>2, SoundKept
  <2> QED  BY <2>1, <2>2
<1>8. rows'[newest'].slots = list /\ list # Unset /\ newest' \in DOMAIN rows'
  BY <1>1, <1>3, <1>4, SettingsAssumption DEF SlotLists
<1>9. ListOf(newest)' = list
  BY <1>8 DEF ListOf, SlotsOf
<1> QED  BY <1>1, <1>5, <1>6, <1>7, <1>8, <1>9

\* What the page shows of a list whose slots have their ids.
LEMMA MaskedMatches ==
    ASSUME Typed, NEW list \in SlotLists, IdsDistinct(list),
           \A i \in DOMAIN list : list[i].id # NoId
    PROVE  /\ Masked(list) \in SlotLists /\ IdsDistinct(Masked(list))
           /\ Matched(Masked(list), list)
<1> DEFINE n == Len(list)
<1>1. n \in Nat /\ DOMAIN list = 1..n /\ \A i \in 1..n : list[i] \in Slots(MaxIds)
  BY DEF SlotLists
<1>2. CASE list # <<>>
  <2> DEFINE new == Masked(list)
  <2>1. /\ new = [i \in 1..n |-> [list[i] EXCEPT !.key = NoKey]]
        /\ \A i \in 1..n : new[i].id = list[i].id /\ new[i].model = list[i].model
        /\ \A i \in 1..n : new[i] \in Slots(MaxIds)
    BY <1>1, <1>2 DEF Masked, Slots
  <2> HIDE DEF new, n
  <2>2. new \in [1..n -> Slots(MaxIds)]
    BY <2>1
  <2>3. new \in SlotLists
    BY <1>1, <2>2 DEF SlotLists
  <2>4. IdsDistinct(new)
    BY <1>1, <2>1 DEF IdsDistinct
  <2>5. Matched(new, list)
    BY <1>1, <2>1 DEF Matched
  <2> QED  BY <2>3, <2>4, <2>5 DEF new
<1>3. CASE list = <<>> /\ newest # 1
  BY <1>3, EmptyList DEF Masked
<1>4. CASE list = <<>> /\ newest = 1
  <2> DEFINE new == [i \in DOMAIN Legacy |-> [id |-> NoId, model |-> Legacy[i], key |-> NoKey]]
             m == Len(Legacy)
  <2>1. Masked(list) = new
    BY <1>4 DEF Masked
  <2>2. m \in Nat /\ DOMAIN Legacy = 1..m /\ \A i \in 1..m : Legacy[i] \in Models
    BY SettingsAssumption
  <2>3. \A i \in DOMAIN new : new[i] \in Slots(MaxIds) /\ new[i].id = NoId
    BY <2>2, SettingsAssumption DEF Slots, NoId
  <2>4. new \in [1..m -> Slots(MaxIds)]
    BY <2>2, <2>3
  <2> HIDE DEF new, m
  <2>5. new \in SlotLists
    BY <2>2, <2>4 DEF SlotLists
  <2> QED  BY <1>4, <2>1, <2>3, <2>5 DEF IdsDistinct, Matched
<1> QED  BY <1>2, <1>3, <1>4

\* A step that neither writes nor reads a list.
LEMMA QuietKeys ==
    ASSUME KInv, UNCHANGED <<rows, newest, page, ids, raced, req>> PROVE KInv'
BY DEF KInv, Typed, ListsSound, Sound, UpToDate, Basis, ListOf, SlotsOf, At

\* A page is loaded: it shows the stored list, or the one that is about to be
\* written back with ids.
LEMMA LoadKeys ==
    ASSUME KInv, Shape, NEW a \in Admins, Load(a) PROVE KInv'
<1> DEFINE old == ListOf(newest)
           new == WithIds(old, ids)
<1>1. Typed /\ ListsSound /\ \A b \in Admins : UpToDate(b)
  BY DEF KInv
<1>2. old \in SlotLists /\ Sound(old) /\ old \in Seq(AnySlots)
  BY <1>1, ListRead, ListsWide
<1>3. ids \in Nat
  BY <1>1, SettingsAssumption DEF Typed
<1>4. /\ new \in Fills /\ new.ids >= ids
      /\ IdsDistinct(new.out) /\ IdsBelow(new.out, new.ids) /\ Keyed(new.out)
      /\ \A i \in DOMAIN new.out : new.out[i].id # NoId
  BY <1>2, <1>3, FillIds DEF Sound
<1>5. /\ At(a, "idle") /\ new.ids <= MaxIds /\ ids' = new.ids
      /\ page' = [page EXCEPT ![a] = Shown(new.out)]
      /\ UNCHANGED <<rows, newest, raced>>
      /\ \/ req' = req /\ (newest = None \/ new.out = old)
         \/ /\ newest # None
            /\ req' = [req EXCEPT ![a] = [@ EXCEPT !.pc = "fill", !.row = newest, !.stored = new.out]]
  BY DEF Load
<1>6. ids' \in 0..MaxIds /\ ids' >= ids
  BY <1>3, <1>4, <1>5, SettingsAssumption DEF Fills
<1>7. new.out \in SlotLists
  BY <1>4, <1>5, <1>6, ListsNarrow DEF Fills
<1>8. newest = None => new.out = old
  <2>1. newest = None => old = <<>>
    BY <1>1, SettingsAssumption DEF ListOf, SlotsOf, Typed, RowIds
  <2>2. DOMAIN new.out = DOMAIN old
    BY <1>2, <1>3, FillIds DEF Sound
  <2> HIDE DEF new, old
  <2>3. old = <<>> => new.out = <<>>
    <3> DEFINE out == new.out
    <3>1. out \in Seq(Slots(MaxIds)) /\ DOMAIN out = DOMAIN old
      BY <1>7, <2>2 DEF SlotLists
    <3> HIDE DEF out
    <3>2. Len(out) \in Nat /\ DOMAIN out = 1..Len(out)
      BY <3>1
    <3>3. old = <<>> => Len(out) = 0
      <4>1. old = <<>> => DOMAIN old = 1..0
        OBVIOUS
      <4>2. 1..Len(out) = 1..0 => Len(out) = 0
        BY <3>2
      <4> HIDE DEF old
      <4> QED  BY <3>1, <3>2, <4>1, <4>2
    <3>4. old = <<>> => out = <<>>
      BY <3>1, <3>3, EmptySeq
    <3> QED  BY <3>4 DEF out
  <2> QED  BY <2>1, <2>3
<1> DEFINE list == Masked(new.out)
<1>9. list \in SlotLists /\ IdsDistinct(list) /\ Matched(list, new.out)
  BY <1>1, <1>4, <1>7, MaskedMatches
<1>10. Shown(new.out) = [list |-> list, open |-> TRUE, fresh |-> TRUE, edits |-> 0]
  BY DEF Shown
<1> HIDE DEF new, old, list
<1>11. Typed'
  <2>1. page' \in [Admins -> [list : SlotLists, open : BOOLEAN, fresh : BOOLEAN, edits : Nat]]
    BY <1>1, <1>5, <1>9, <1>10 DEF Typed
  <2>2. req' \in [Admins -> [pc : Pcs, row : RowIds \cup {None}, stored : SlotLists, rules : Columns]]
    <3> DEFINE Requests == [pc : Pcs, row : RowIds \cup {None}, stored : SlotLists, rules : Columns]
               next == [req[a] EXCEPT !.pc = "fill", !.row = newest, !.stored = new.out]
    <3>1. req \in [Admins -> Requests] /\ req[a] \in Requests /\ newest \in RowIds \cup {None}
      BY <1>1 DEF Typed
    <3>2. next \in Requests
      BY <1>7, <3>1 DEF Pcs
    <3>3. req' = req \/ req' = [req EXCEPT ![a] = next]
      BY <1>5
    <3> HIDE DEF Requests, next
    <3>4. req' \in [Admins -> Requests]
      BY <3>1, <3>2, <3>3
    <3> QED  BY <3>4 DEF Requests
  <2> QED  BY <1>1, <1>5, <1>6, <2>1, <2>2 DEF Typed
<1>12. ListsSound'
  <2>1. \A x \in DOMAIN rows : rows[x].slots # Unset =>
           IdsDistinct(rows[x].slots) /\ IdsBelow(rows[x].slots, ids') /\ Keyed(rows[x].slots)
    BY <1>1, <1>6, SoundKept DEF ListsSound, Typed
  <2>2. \A b \in Admins : IdsDistinct(req'[b].stored) /\ IdsBelow(req'[b].stored, ids')
                          /\ Keyed(req'[b].stored)
    <3> SUFFICES ASSUME NEW b \in Admins
                 PROVE  IdsDistinct(req'[b].stored) /\ IdsBelow(req'[b].stored, ids')
                        /\ Keyed(req'[b].stored)
      OBVIOUS
    <3>1. req'[b].stored = req[b].stored \/ req'[b].stored = new.out
      BY <1>1, <1>5 DEF Typed
    <3>2. req[b].stored \in SlotLists /\ Sound(req[b].stored)
      BY <1>1 DEF Typed, ListsSound
    <3> QED  BY <1>1, <1>4, <1>5, <1>6, <3>1, <3>2, SoundKept
  <2>3. \A b \in Admins : IdsDistinct(page'[b].list)
    BY <1>1, <1>5, <1>9, <1>10 DEF Typed, ListsSound
  <2> QED  BY <1>5, <2>1, <2>2, <2>3 DEF ListsSound, Sound
<1>13. ASSUME NEW b \in Admins PROVE UpToDate(b)'
  <2>1. CASE b # a
    <3>1. page'[b] = page[b] /\ req'[b] = req[b]
      BY <1>1, <1>5, <2>1 DEF Typed
    <3> QED  BY <1>1, <1>5, <3>1 DEF UpToDate, Basis, At, ListOf, SlotsOf
  <2>2. CASE b = a
    <3>1. page'[a].list = list
      BY <1>1, <1>5, <1>10 DEF Typed
    <3>2. ListOf(newest)' = old
      BY <1>5 DEF ListOf, SlotsOf, old
    <3>3. CASE req' = req /\ new.out = old
      BY <1>5, <1>9, <2>2, <3>1, <3>2, <3>3 DEF UpToDate, Basis, At
    <3>4. CASE req' = [req EXCEPT ![a] = [@ EXCEPT !.pc = "fill", !.row = newest, !.stored = new.out]]
      <4>1. req'[a].pc = "fill" /\ req'[a].stored = new.out
        BY <1>1, <3>4 DEF Typed
      <4> QED  BY <1>9, <2>2, <3>1, <4>1 DEF UpToDate, Basis, At
    <3> QED  BY <1>5, <1>8, <3>3, <3>4
  <2> QED  BY <2>1, <2>2
<1> QED  BY <1>11, <1>12, <1>13 DEF KInv

\* The steps of a request that only change the request or the page.
LEMMA LocalKeys ==
    ASSUME KInv, Shape, OneRow, NEW a \in Admins,
           Edit(a) \/ Save(a) \/ SaveRules(a) \/ Find(a) \/ Read(a) \/ ReadFails(a)
    PROVE  KInv'
<1>1. Typed /\ ListsSound /\ \A b \in Admins : UpToDate(b)
  BY DEF KInv
<1>2. UNCHANGED <<rows, newest, ids, raced>> /\ ListOf(newest)' = ListOf(newest)
  BY DEF Edit, Save, SaveRules, Find, Read, ReadFails, ListOf, SlotsOf
<1>3. CASE Edit(a)
  <2>1. PICK new \in Edited(page[a].list) :
           page' = [page EXCEPT ![a].list = new, ![a].edits = @ + 1] /\ req' = req /\ At(a, "idle")
    BY <1>3 DEF Edit
  <2>2. /\ new \in SlotLists /\ IdsDistinct(new)
        /\ \A stored : Matched(page[a].list, stored) => Matched(new, stored)
    BY <1>1, EditKeeps DEF Typed, ListsSound
  <2>3. /\ page'[a].list = new /\ page'[a].fresh = page[a].fresh
        /\ \A b \in Admins \ {a} : page'[b] = page[b]
        /\ page' \in [Admins -> [list : SlotLists, open : BOOLEAN, fresh : BOOLEAN, edits : Nat]]
    BY <1>1, <2>1, <2>2 DEF Typed
  <2>4. Typed'
    BY <1>1, <1>2, <2>1, <2>3 DEF Typed
  <2>5. ListsSound'
    BY <1>1, <1>2, <2>1, <2>2, <2>3 DEF ListsSound, Sound
  <2>6. ASSUME NEW b \in Admins PROVE UpToDate(b)'
    <3>1. Basis(b)' = Basis(b)
      BY <1>2, <2>1 DEF Basis, At
    <3>2. UpToDate(b)
      BY <1>1
    <3> QED  BY <1>2, <2>1, <2>2, <2>3, <3>1, <3>2 DEF UpToDate, At
  <2> QED  BY <2>4, <2>5, <2>6 DEF KInv
<1>4. CASE Save(a) \/ SaveRules(a) \/ Find(a) \/ Read(a) \/ ReadFails(a)
  <2>1. /\ page' = page
        /\ \A b \in Admins \ {a} : req'[b] = req[b]
        /\ req' \in [Admins -> [pc : Pcs, row : RowIds \cup {None}, stored : SlotLists, rules : Columns]]
        /\ req[a].pc # "fill" /\ req'[a].pc # "fill"
        /\ req'[a].stored \in {<<>>, req[a].stored, ListOf(req[a].row)}
    <3>1. CASE Save(a) \/ SaveRules(a)
      <4>1. PICK p \in {"find", "findRules"}, rules \in Columns :
              req' = [req EXCEPT ![a] = [NoRequest EXCEPT !.pc = p, !.rules = rules]]
        BY <3>1 DEF Save, SaveRules, Begin, Columns
      <4>2. page' = page /\ At(a, "idle")
        BY <3>1 DEF Save, SaveRules, Begin
      <4> QED  BY <1>1, <4>1, <4>2, EmptyList DEF Typed, NoRequest, Pcs, At
    <3>2. CASE Find(a)
      <4>1. PICK p \in {"writeRules", "write", "read"} :
               req' = [req EXCEPT ![a].row = newest, ![a].pc = p]
        BY <3>2 DEF Find
      <4> QED  BY <1>1, <3>2, <4>1 DEF Typed, Pcs, At, Find
    <3>3. CASE Read(a)
      <4>1. ListOf(req[a].row) \in SlotLists
        BY <1>1, ListRead
      <4> QED  BY <1>1, <3>3, <4>1 DEF Typed, Pcs, At, Read
    <3>4. CASE ReadFails(a)
      BY <1>1, <3>4, EmptyList DEF Typed, Pcs, At, ReadFails
    <3> QED  BY <1>4, <3>1, <3>2, <3>3, <3>4
  <2>2. Typed'
    BY <1>1, <1>2, <2>1 DEF Typed
  <2>3. ListsSound'
    <3>1. ASSUME NEW b \in Admins
          PROVE  IdsDistinct(req'[b].stored) /\ IdsBelow(req'[b].stored, ids) /\ Keyed(req'[b].stored)
      BY <1>1, <2>1, EmptyList, ListRead DEF ListsSound, Sound
    <3> QED  BY <1>1, <1>2, <2>1, <3>1 DEF ListsSound, Sound
  <2>4. ASSUME NEW b \in Admins PROVE UpToDate(b)'
    <3>0. UpToDate(b)
      BY <1>1
    <3>1. CASE b # a
      BY <1>2, <2>1, <3>0, <3>1 DEF UpToDate, Basis, At
    <3>2. CASE b = a
      <4>1. ~raced /\ page[a].fresh => Matched(page[a].list, ListOf(newest))
        BY <2>1, <3>0, <3>2 DEF UpToDate, Basis, At
      <4>2. ~raced' /\ page'[a].fresh => Matched(page'[a].list, Basis(a)')
        BY <1>2, <2>1, <4>1 DEF Basis, At
      <4>3. CASE Save(a) \/ SaveRules(a)
        <5>1. req'[a].pc \in {"find", "findRules"} /\ req'[a].stored = <<>>
          <6>1. PICK p \in {"find", "findRules"}, rules \in Columns :
                  req' = [req EXCEPT ![a] = [NoRequest EXCEPT !.pc = p, !.rules = rules]]
            BY <4>3 DEF Save, SaveRules, Begin, Columns
          <6>2. req'[a] = [NoRequest EXCEPT !.pc = p, !.rules = rules]
            BY <1>1, <6>1 DEF Typed
          <6> QED  BY <6>2 DEF NoRequest
        <5> QED  BY <3>2, <4>2, <5>1 DEF UpToDate, At
      <4>4. CASE Find(a)
        <5>1. req'[a].row = newest /\ req'[a].stored = req[a].stored
          BY <1>1, <4>4 DEF Find, Typed
        <5>2. \/ At(a, "findRules") /\ req'[a].pc = "writeRules"
              \/ At(a, "find") /\ newest = None /\ req'[a].pc = "write"
              \/ At(a, "find") /\ newest # None /\ req'[a].pc = "read"
          BY <1>1, <4>4 DEF Find, Typed, At
        <5> QED  BY <3>0, <3>2, <4>2, <5>1, <5>2 DEF UpToDate, At
      <4>5. CASE Read(a)
        <5>1. /\ req'[a].row = req[a].row /\ req[a].row # None /\ req'[a].pc = "write"
              /\ req'[a].stored = ListOf(req[a].row)
          BY <1>1, <3>0, <3>2, <4>5 DEF Read, Typed, UpToDate
        <5>2. ~raced => req[a].row = newest
          BY <5>1 DEF OneRow
        <5> QED  BY <1>2, <3>2, <4>2, <5>1, <5>2 DEF UpToDate, At
      <4>6. CASE ReadFails(a)
        <5>1. req'[a].pc = "unread"
          BY <1>1, <4>6 DEF ReadFails, Typed
        <5> QED  BY <3>2, <4>2, <5>1 DEF UpToDate, At
      <4> QED  BY <1>4, <4>3, <4>4, <4>5, <4>6
    <3> QED  BY <3>1, <3>2
  <2> QED  BY <2>2, <2>3, <2>4 DEF KInv
<1> QED  BY <1>3, <1>4

\* A list is written: the invariant holds again when the writer's page fits what
\* he wrote; the pages of the others are out of date.
LEMMA WrittenKeys ==
    ASSUME KInv, NEW a \in Admins, NEW x \in RowIds, NEW list \in SlotLists,
           WriteList(x, list), ids' \in 0..MaxIds, ids' >= ids,
           IdsDistinct(list), IdsBelow(list, ids'), Keyed(list), End(a),
           raced => raced',
           NEW own \in [list : SlotLists, open : BOOLEAN, fresh : BOOLEAN, edits : Nat],
           page' = [OthersOutOfDate(a) EXCEPT ![a] = own],
           IdsDistinct(own.list), ~raced' /\ own.fresh => Matched(own.list, list)
    PROVE  KInv'
<1>1. Typed /\ ListsSound /\ \A b \in Admins : UpToDate(b)
  BY DEF KInv
<1>2. /\ DOMAIN rows' \subseteq RowIds /\ newest' = x
      /\ \A y \in DOMAIN rows' : rows'[y] \in [slots : SlotLists \cup {Unset}, rules : Columns]
      /\ \A y \in DOMAIN rows' : rows'[y].slots # Unset =>
            IdsDistinct(rows'[y].slots) /\ IdsBelow(rows'[y].slots, ids') /\ Keyed(rows'[y].slots)
      /\ ListOf(newest)' = list
  BY <1>1, SlotsWritten
<1>3. /\ req'[a] = NoRequest /\ \A b \in Admins \ {a} : req'[b] = req[b]
      /\ req' \in [Admins -> [pc : Pcs, row : RowIds \cup {None}, stored : SlotLists, rules : Columns]]
  <2>1. NoRequest \in [pc : Pcs, row : RowIds \cup {None}, stored : SlotLists, rules : Columns]
    BY EmptyList DEF NoRequest, Pcs, Columns
  <2> QED  BY <1>1, <2>1 DEF Typed, End
<1>4. /\ page'[a] = own
      /\ \A b \in Admins \ {a} : page'[b] = [page[b] EXCEPT !.fresh = FALSE]
      /\ page' \in [Admins -> [list : SlotLists, open : BOOLEAN, fresh : BOOLEAN, edits : Nat]]
  BY <1>1 DEF Typed, OthersOutOfDate
<1>5. Typed'
  BY <1>2, <1>3, <1>4 DEF Typed
<1>6. ListsSound'
  <2>1. ASSUME NEW b \in Admins
        PROVE  IdsDistinct(req'[b].stored) /\ IdsBelow(req'[b].stored, ids') /\ Keyed(req'[b].stored)
    <3>1. CASE b = a
      BY <1>3, <3>1, EmptyList DEF NoRequest
    <3>2. CASE b # a
      <4>1. req[b].stored \in SlotLists /\ Sound(req[b].stored) /\ req'[b] = req[b]
        BY <1>1, <1>3, <3>2 DEF Typed, ListsSound
      <4> QED  BY <1>1, <4>1, SoundKept
    <3> QED  BY <3>1, <3>2
  <2>2. ASSUME NEW b \in Admins PROVE IdsDistinct(page'[b].list)
    BY <1>1, <1>4 DEF Typed, ListsSound
  <2> QED  BY <1>2, <2>1, <2>2 DEF ListsSound, Sound
<1>7. ASSUME NEW b \in Admins PROVE UpToDate(b)'
  <2>1. CASE b = a
    <3>1. req'[a].pc = "idle" /\ page'[a] = own
      BY <1>3, <1>4 DEF NoRequest
    <3> QED  BY <1>2, <2>1, <3>1 DEF UpToDate, Basis, At
  <2>2. CASE b # a
    <3>1. req'[b] = req[b] /\ ~page'[b].fresh
      BY <1>1, <1>3, <1>4, <2>2 DEF Typed
    <3>2. UpToDate(b)
      BY <1>1
    <3> QED  BY <3>1, <3>2 DEF UpToDate, At
  <2> QED  BY <2>1, <2>2
<1> QED  BY <1>5, <1>6, <1>7 DEF KInv

\* The slots that were given ids are written back.
LEMMA FillKeys ==
    ASSUME KInv, Shape, NEW a \in Admins, Fill(a) PROVE KInv'
<1> DEFINE list == req[a].stored
           own == page[a]
<1>1. Typed /\ ListsSound /\ UpToDate(a)
  BY DEF KInv
<1>2. /\ At(a, "fill") /\ WriteList(req[a].row, list) /\ page' = OthersOutOfDate(a) /\ End(a)
      /\ ids' = ids /\ raced' = raced
  BY DEF Fill
<1>3. req[a].row \in RowIds
  BY <1>2 DEF At, Shape
<1>4. list \in SlotLists /\ IdsDistinct(list) /\ IdsBelow(list, ids') /\ Keyed(list)
  BY <1>1, <1>2 DEF Typed, ListsSound, Sound
<1>5. /\ own \in [list : SlotLists, open : BOOLEAN, fresh : BOOLEAN, edits : Nat]
      /\ IdsDistinct(own.list)
  BY <1>1 DEF Typed, ListsSound
<1>6. page' = [OthersOutOfDate(a) EXCEPT ![a] = own]
  BY <1>2 DEF OthersOutOfDate
<1>7. ~raced' /\ own.fresh => Matched(own.list, list)
  BY <1>1, <1>2 DEF UpToDate, Basis
<1>8. ids \in 0..MaxIds /\ ids' \in 0..MaxIds /\ ids' >= ids
  BY <1>1, <1>2, SettingsAssumption DEF Typed
<1> HIDE DEF list, own
<1> QED  BY <1>2, <1>3, <1>4, <1>5, <1>6, <1>7, <1>8, WrittenKeys

\* They are not written back: the page is not up to date.
LEMMA FillFailsKeys ==
    ASSUME KInv, NEW a \in Admins, FillFails(a) PROVE KInv'
<1>1. Typed /\ ListsSound /\ \A b \in Admins : UpToDate(b)
  BY DEF KInv
<1>2. /\ page' = [page EXCEPT ![a].fresh = FALSE] /\ End(a)
      /\ UNCHANGED <<rows, newest, ids, raced>> /\ ListOf(newest)' = ListOf(newest)
  BY DEF FillFails, ListOf, SlotsOf
<1>3. /\ req'[a] = NoRequest /\ \A b \in Admins \ {a} : req'[b] = req[b]
      /\ req' \in [Admins -> [pc : Pcs, row : RowIds \cup {None}, stored : SlotLists, rules : Columns]]
  <2>1. NoRequest \in [pc : Pcs, row : RowIds \cup {None}, stored : SlotLists, rules : Columns]
    BY EmptyList DEF NoRequest, Pcs, Columns
  <2> QED  BY <1>1, <1>2, <2>1 DEF Typed, End
<1>4. /\ ~page'[a].fresh /\ page'[a].list = page[a].list
      /\ \A b \in Admins \ {a} : page'[b] = page[b]
      /\ page' \in [Admins -> [list : SlotLists, open : BOOLEAN, fresh : BOOLEAN, edits : Nat]]
  BY <1>1, <1>2 DEF Typed
<1>5. Typed'
  BY <1>1, <1>2, <1>3, <1>4 DEF Typed
<1>6. ListsSound'
  <2>1. \A b \in Admins : Sound(req'[b].stored) /\ IdsDistinct(page'[b].list)
    BY <1>1, <1>3, <1>4, EmptyList DEF ListsSound, Sound, NoRequest
  <2> QED  BY <1>1, <1>2, <2>1 DEF ListsSound, Sound
<1>7. ASSUME NEW b \in Admins PROVE UpToDate(b)'
  <2>0. UpToDate(b)
    BY <1>1
  <2>1. CASE b = a
    <3>1. req'[a].pc = "idle" /\ ~page'[a].fresh
      BY <1>3, <1>4 DEF NoRequest
    <3> QED  BY <2>1, <3>1 DEF UpToDate, At
  <2>2. CASE b # a
    <3>1. req'[b] = req[b] /\ page'[b] = page[b]
      BY <1>3, <1>4, <2>2
    <3> QED  BY <1>2, <2>0, <3>1 DEF UpToDate, Basis, At
  <2> QED  BY <2>1, <2>2
<1> QED  BY <1>5, <1>6, <1>7 DEF KInv

\* The page's list is merged and written.
LEMMA WriteKeys ==
    ASSUME KInv, Shape, OneRow, NEW a \in Admins, Write(a)
    PROVE  /\ KInv'
           /\ At(a, "write") /\ ~raced' /\ page[a].fresh =>
                 /\ KeysKept(rows'[newest'].slots, page[a].list, ListOf(newest))
                 /\ ModelsOf(rows'[newest'].slots) = Sent(page[a].list)
<1> DEFINE stored == req[a].stored
           sent == page[a].list
           new == MergeLlmSlots(stored, sent, ids)
<1>1. Typed /\ ListsSound /\ UpToDate(a)
  BY DEF KInv
<1>2. /\ new.ids <= MaxIds /\ ids' = new.ids
      /\ page' = [OthersOutOfDate(a) EXCEPT ![a] = Closed] /\ End(a)
      /\ raced' <=> (raced \/ (req[a].row = None /\ newest # None))
  BY DEF Write
<1>3. PICK x \in RowIds : Target(a, x) /\ WriteList(x, new.out)
  BY DEF Write
<1>4. /\ stored \in SlotLists /\ stored \in Seq(AnySlots) /\ Sound(stored)
      /\ sent \in SlotLists /\ sent \in Seq(AnySlots) /\ IdsDistinct(sent)
  <2>1. stored \in SlotLists /\ sent \in SlotLists
    BY <1>1 DEF Typed
  <2> HIDE DEF stored, sent
  <2>2. stored \in Seq(AnySlots) /\ sent \in Seq(AnySlots)
    BY <2>1, ListsWide
  <2>3. Sound(stored) /\ IdsDistinct(sent)
    BY <1>1 DEF ListsSound, stored, sent
  <2> QED  BY <2>1, <2>2, <2>3
<1>5. ids \in Nat /\ ids \in 0..MaxIds
  BY <1>1, SettingsAssumption DEF Typed
<1> HIDE DEF stored, sent
<1>6. /\ new \in Merges /\ new.ids >= ids
      /\ IdsDistinct(new.out) /\ IdsBelow(new.out, new.ids) /\ Keyed(new.out)
  BY <1>4, <1>5, MergeIds DEF Sound
<1>7. ids' \in 0..MaxIds /\ ids' >= ids
  BY <1>2, <1>5, <1>6, SettingsAssumption DEF Merges
<1>8. new.out \in SlotLists
  BY <1>2, <1>6, <1>7, ListsNarrow DEF Merges
<1> HIDE DEF new
<1>9. KInv'
  <2>1. /\ Closed \in [list : SlotLists, open : BOOLEAN, fresh : BOOLEAN, edits : Nat]
        /\ IdsDistinct(Closed.list) /\ Matched(Closed.list, new.out)
    BY EmptyList DEF Closed
  <2>2. IdsBelow(new.out, ids') /\ (raced => raced')
    BY <1>2, <1>6
  <2> HIDE DEF KInv
  <2> QED  BY <1>2, <1>3, <1>6, <1>7, <1>8, <2>1, <2>2, WrittenKeys
<1>10. ASSUME At(a, "write"), ~raced', page[a].fresh
       PROVE  /\ KeysKept(rows'[newest'].slots, page[a].list, ListOf(newest))
              /\ ModelsOf(rows'[newest'].slots) = Sent(page[a].list)
  <2>1. rows'[newest'].slots = new.out
    <3>1. IdsBelow(new.out, ids')
      BY <1>2, <1>6
    <3> QED  BY <1>1, <1>3, <1>6, <1>7, <1>8, <3>1, SlotsWritten
  <2>2. Matched(sent, ListOf(newest)) /\ (req[a].row # None => stored = ListOf(newest))
    BY <1>1, <1>2, <1>10 DEF UpToDate, Basis, At, sent, stored
  <2>3. stored = ListOf(newest)
    <3>1. CASE req[a].row # None
      BY <2>2, <3>1
    <3>2. CASE req[a].row = None
      <4>1. stored = <<>> /\ newest = None
        BY <1>1, <1>2, <1>10, <3>2 DEF UpToDate, stored
      <4>2. ListOf(newest) = <<>>
        BY <1>1, <4>1, SettingsAssumption DEF ListOf, SlotsOf, Typed, RowIds
      <4> QED  BY <4>1, <4>2
    <3> QED  BY <3>1, <3>2
  <2>4. KeysKept(new.out, sent, stored) /\ ModelsOf(new.out) = Sent(sent)
    BY <1>4, <1>5, <2>2, <2>3, MergeKeys DEF Sound, new
  <2> QED  BY <2>1, <2>3, <2>4 DEF sent
<1> QED  BY <1>9, <1>10

\* The rules are written: no list changes.
LEMMA WriteRulesKeys ==
    ASSUME KInv, Shape, OneRow, NEW a \in Admins, WriteRules(a) PROVE KInv'
<1>1. Typed /\ ListsSound /\ \A b \in Admins : UpToDate(b)
  BY DEF KInv
<1>2. PICK x \in RowIds :
        /\ Target(a, x) /\ newest' = x
        /\ rows' = Put(x, [slots |-> SlotsOf(x), rules |-> req[a].rules])
  BY DEF WriteRules
<1>3. /\ At(a, "writeRules") /\ End(a) /\ UNCHANGED <<page, ids>>
      /\ raced' <=> (raced \/ (req[a].row = None /\ newest # None))
  BY DEF WriteRules
<1> DEFINE row == [slots |-> SlotsOf(x), rules |-> req[a].rules]
<1>4. row.slots = SlotsOf(x) /\ row \in [slots : SlotLists \cup {Unset}, rules : Columns]
  BY <1>1 DEF SlotsOf, Typed
<1>5. rows' = Put(x, row)
  BY <1>2
<1> HIDE DEF row
<1>6. DOMAIN rows' = DOMAIN rows \cup {x} /\ \A y \in DOMAIN rows' : rows'[y] = IF y = x THEN row ELSE rows[y]
  BY <1>5 DEF Put
<1>7. /\ DOMAIN rows' \subseteq RowIds
      /\ \A y \in DOMAIN rows' : rows'[y] \in [slots : SlotLists \cup {Unset}, rules : Columns]
  BY <1>1, <1>4, <1>6 DEF Typed
<1>8. \A y \in DOMAIN rows' : rows'[y].slots = SlotsOf(y)
  BY <1>4, <1>6 DEF SlotsOf
<1>9. \A y \in DOMAIN rows' : rows'[y].slots # Unset => Sound(rows'[y].slots)
  BY <1>1, <1>8 DEF SlotsOf, ListsSound
<1>10. /\ req'[a] = NoRequest /\ \A b \in Admins \ {a} : req'[b] = req[b]
       /\ req' \in [Admins -> [pc : Pcs, row : RowIds \cup {None}, stored : SlotLists, rules : Columns]]
  <2>1. NoRequest \in [pc : Pcs, row : RowIds \cup {None}, stored : SlotLists, rules : Columns]
    BY EmptyList DEF NoRequest, Pcs, Columns
  <2> QED  BY <1>1, <1>3, <2>1 DEF Typed, End
<1>11. Typed'
  BY <1>1, <1>2, <1>3, <1>7, <1>10 DEF Typed
<1>12. ListsSound'
  <2>1. \A b \in Admins : Sound(req'[b].stored)
    BY <1>1, <1>10, EmptyList DEF ListsSound, Sound, NoRequest
  <2> QED  BY <1>1, <1>3, <1>9, <2>1 DEF ListsSound, Sound
<1>13. ASSUME ~raced' PROVE ListOf(newest)' = ListOf(newest)
  <2>1. ~raced /\ (req[a].row = None => newest = None) /\ req[a].row \in {None, newest}
    BY <1>3, <1>13 DEF OneRow
  <2>2. newest = None \/ newest = x
    BY <1>2, <2>1 DEF Target
  <2>3. rows'[x].slots = SlotsOf(x) /\ x \in DOMAIN rows'
    BY <1>6, <1>8
  <2>4. SlotsOf(newest) = SlotsOf(x)
    <3>1. CASE newest = None
      <4>1. x \notin DOMAIN rows /\ None \notin DOMAIN rows
        BY <1>1, <1>2, <2>1, <3>1, SettingsAssumption DEF Target, Fresh, Typed, RowIds
      <4> QED  BY <3>1, <4>1 DEF SlotsOf
    <3> QED  BY <2>2, <3>1
  <2>5. SlotsOf(newest)' = SlotsOf(newest)
    BY <1>2, <2>3, <2>4 DEF SlotsOf
  <2> QED  BY <2>5 DEF ListOf
<1>14. ASSUME NEW b \in Admins PROVE UpToDate(b)'
  <2>0. UpToDate(b)
    BY <1>1
  <2>1. CASE b # a
    <3>1. req'[b] = req[b]
      BY <1>10, <2>1
    <3> QED  BY <1>3, <1>13, <2>0, <3>1 DEF UpToDate, Basis, At
  <2>2. CASE b = a
    <3>1. req'[a].pc = "idle"
      BY <1>10 DEF NoRequest
    <3> QED  BY <1>3, <1>13, <2>0, <2>2, <3>1 DEF UpToDate, Basis, At
  <2> QED  BY <2>1, <2>2
<1> QED  BY <1>11, <1>12, <1>14 DEF KInv

\* All steps of a request and of the screening.
LEMMA KeysStep ==
    ASSUME VInv, KInv, [Next]_vars PROVE KInv'
<1>1. Shape /\ OneRow
  BY DEF VInv
<1>2. ASSUME NEW a \in Admins,
             \/ Load(a) \/ Fill(a) \/ FillFails(a) \/ Edit(a) \/ Save(a) \/ Find(a) \/ Read(a)
             \/ ReadFails(a) \/ Write(a) \/ SaveRules(a) \/ WriteRules(a)
      PROVE  KInv'
  BY <1>1, <1>2, LoadKeys, FillKeys, FillFailsKeys, LocalKeys, WriteKeys, WriteRulesKeys
<1>3. CASE ReadRules \/ RulesFail \/ ReadPosition \/ PositionFails \/ Judge \/ GiveUp
  <2>1. UNCHANGED <<rows, newest, page, ids, raced, req>>
    BY <1>3 DEF ReadRules, RulesFail, BeginScreening, ReadPosition, PositionFails, Judge, GiveUp, ScreenStep
  <2> QED  BY <2>1, QuietKeys
<1>4. CASE UNCHANGED vars
  BY <1>4, QuietKeys DEF vars
<1> QED  BY <1>2, <1>3, <1>4 DEF Next

\* A step of one request is not a step of another that ends.
LEMMA OnlyWriteSaves ==
    ASSUME KInv, [Next]_vars, NEW b \in Admins, Saving(b) PROVE Write(b)
<1>1. Typed /\ req[b].pc = "write" /\ req'[b].pc = "idle"
  BY DEF KInv, Saving, At
<1>2. PICK a \in Admins :
        \/ Load(a) \/ Fill(a) \/ FillFails(a) \/ Edit(a) \/ Save(a) \/ Find(a) \/ Read(a)
        \/ ReadFails(a) \/ Write(a) \/ SaveRules(a) \/ WriteRules(a)
  <2>1. req' # req
    BY <1>1
  <2> QED  BY <2>1 DEF Next, ReadRules, RulesFail, BeginScreening, ReadPosition, PositionFails, Judge, GiveUp, ScreenStep, vars
<1>3. \A c \in Admins \ {a} : req'[c] = req[c]
  <2>1. req' = req \/ \E r : req' = [req EXCEPT ![a] = r]
    BY <1>2 DEF Load, Fill, FillFails, Edit, Save, Find, Read, ReadFails, Write, SaveRules, WriteRules, Begin, End
  <2> QED  BY <1>1, <2>1 DEF Typed
<1>4. a = b
  BY <1>1, <1>3
<1> QED  BY <1>1, <1>2, <1>4 DEF Load, Fill, FillFails, Edit, Save, Find, Read, ReadFails, SaveRules, WriteRules, Begin, At

-----------------------------------------------------------------------------
(* The results *)

\* Both invariants together.
LEMMA SettingsStepwise ==
    ASSUME VInv, [Next]_vars PROVE VInv'
<1>1. CASE Next
  BY <1>1, RequestStep, ScreeningStep DEF Next
<1>2. CASE UNCHANGED vars
  BY <1>2 DEF vars, VInv, Shape, OneRow, ReadRight, VerdictStands, RulesOf, AsFound
<1> QED  BY <1>1, <1>2

\* For any administrators, rules, weights and answers: a screening is judged by the
\* position's rules, the system's saved last, or the builtin ones, the first of them
\* that could be read, and its verdict is what they say of the exact mean of a
\* complete answer.
THEOREM VerdictsStand == Spec => []VerdictStands
<1>1. Init => VInv
  BY SettingsInit
<1>2. VInv /\ [Next]_vars => VInv'
  BY SettingsStepwise
<1>3. VInv => VerdictStands
  BY DEF VInv
<1> QED  BY <1>1, <1>2, <1>3, PTL DEF Spec

\* For any administrators, any first row and any edits, saves and rounds of ids: a
\* PUT of llm_slots_json from a page that is up to date leaves the models of the
\* page, each with the key that was typed or was stored for it.
THEOREM ModelsKept == Spec => SaveKeepsModels
<1>1. Init => VInv /\ KInv
  BY SettingsInit, KeysInit
<1>2. VInv /\ KInv /\ [Next]_vars => VInv' /\ KInv'
  BY SettingsStepwise, KeysStep
<1>3. VInv /\ KInv /\ [Next]_vars =>
        [\A a \in Admins : Saving(a) /\ page[a].fresh /\ ~raced' =>
           /\ KeysKept(rows'[newest'].slots, page[a].list, ListOf(newest))
           /\ ModelsOf(rows'[newest'].slots) = Sent(page[a].list)]_vars
  <2> SUFFICES ASSUME VInv, KInv, [Next]_vars,
                      NEW a \in Admins, Saving(a), page[a].fresh, ~raced'
               PROVE  /\ KeysKept(rows'[newest'].slots, page[a].list, ListOf(newest))
                      /\ ModelsOf(rows'[newest'].slots) = Sent(page[a].list)
    OBVIOUS
  <2>1. Write(a) /\ At(a, "write") /\ Shape /\ OneRow
    BY OnlyWriteSaves DEF VInv, Saving
  <2> QED  BY <2>1, WriteKeys
<1> QED  BY <1>1, <1>2, <1>3, PTL DEF Spec, SaveKeepsModels

\* What the types of the lists and of the rules leave open: what the screening
\* holds, the saves counted, and the history of a race.
Others == ScreenTypeOK /\ saves \in 0..MaxSaves /\ raced \in BOOLEAN

LEMMA OthersStep ==
    ASSUME VInv, Others, [Next]_vars PROVE Others'
<1>1. /\ ScreenTypeOK /\ saves \in 0..MaxSaves /\ raced \in BOOLEAN
      /\ MaxSaves \in Nat /\ ReadRight
  BY SettingsAssumption DEF VInv, Others
<1>2. ASSUME NEW a \in Admins,
             \/ Load(a) \/ Fill(a) \/ FillFails(a) \/ Edit(a) \/ Save(a) \/ Find(a) \/ Read(a)
             \/ ReadFails(a) \/ Write(a) \/ SaveRules(a) \/ WriteRules(a)
      PROVE  Others'
  <2>1. screen' = screen
    BY <1>2 DEF Load, Fill, FillFails, Edit, Save, Find, Read, ReadFails, Write, SaveRules, WriteRules, SettingsStep
  <2>2. saves' = saves \/ (saves < MaxSaves /\ saves' = saves + 1)
    BY <1>2 DEF Load, Fill, FillFails, Edit, Save, Find, Read, ReadFails, Write, SaveRules, WriteRules, Begin
  <2>3. raced' \in BOOLEAN
    BY <1>1, <1>2 DEF Load, Fill, FillFails, Edit, Save, Find, Read, ReadFails, Write, SaveRules, WriteRules
  <2>4. saves' \in 0..MaxSaves
    BY <1>1, <2>2
  <2> QED  BY <1>1, <2>1, <2>3, <2>4 DEF Others, ScreenTypeOK
<1>3. CASE ReadRules \/ RulesFail \/ GiveUp
  <2>1. RulesOf(newest) \in Columns /\ NoRules \in Rules \cup {NoRules} /\ Columns \subseteq Rules \cup {NoRules}
    BY SettingsAssumption DEF VInv, Shape, RulesOf, Columns
  <2>2. /\ screen'.pc \in {"position", "failed"} /\ screen'.rules \in Rules \cup {NoRules}
        /\ UNCHANGED <<saves, raced>>
    BY <1>1, <1>3, <2>1 DEF ReadRules, RulesFail, BeginScreening, GiveUp, ReadRight, NoScreening, ScreenStep
  <2> QED  BY <1>1, <2>2 DEF Others, ScreenTypeOK
<1>4. CASE ReadPosition \/ PositionFails
  <2>1. Screening("position") /\ screen.rules \in Columns
    BY <1>1, <1>4 DEF ReadPosition, PositionFails, Screening, ReadRight
  <2>2. \A own \in Columns : Resolved(screen.rules, own, Builtin) \in Rules
    BY <2>1, SettingsAssumption DEF Resolved, Columns
  <2>3. screen'.pc = "ask" /\ screen'.rules \in Rules
    <3>1. \A own \in RuleChoices \cup {NoRules} : Resolved(screen.rules, own, Builtin) \in Rules
      BY <2>2 DEF Columns
    <3>2. NoRules \in RuleChoices \cup {NoRules}
      OBVIOUS
    <3>3. DOMAIN screen = DOMAIN NoScreening
      BY <1>1 DEF ReadRight
    <3>4. CASE ReadPosition
      BY <3>1, <3>3, <3>4 DEF ReadPosition, NoScreening
    <3>5. CASE PositionFails
      BY <3>1, <3>2, <3>3, <3>5 DEF PositionFails, NoScreening
    <3> QED  BY <1>4, <3>4, <3>5
  <2>4. UNCHANGED <<saves, raced>>
    BY <1>4 DEF ReadPosition, PositionFails, ScreenStep
  <2> QED  BY <1>1, <2>3, <2>4 DEF Others, ScreenTypeOK
<1>5. CASE Judge
  <2>1. PICK primary \in Usable, supplement \in Supplements, weights \in WeightChoices :
          LET scores == Normalized(Merged(primary, supplement)) IN
          screen' = [NoScreening EXCEPT !.pc = "saved", !.rules = screen.rules,
                !.primary = primary, !.scores = scores, !.weights = weights,
                !.verdict = IF Passes(scores, weights, screen.rules) THEN "passed" ELSE "not passed"]
    BY <1>5, JudgePicks
  <2> DEFINE scores == Normalized(Merged(primary, supplement))
  <2>2. scores \in [Dimensions -> ScoreRange]
    BY UsableComplete, PrimaryCounts
  <2>3. /\ screen'.pc = "saved" /\ screen'.scores = scores /\ screen'.rules = screen.rules
        /\ UNCHANGED <<saves, raced>>
    BY <1>1, <1>5, <2>1 DEF Judge, NoScreening, ScreenStep
  <2> QED  BY <1>1, <2>2, <2>3 DEF Others, ScreenTypeOK
<1>6. CASE UNCHANGED vars
  BY <1>1, <1>6 DEF vars, Others, ScreenTypeOK
<1> QED  BY <1>2, <1>3, <1>4, <1>5, <1>6 DEF Next

\* The types hold for every choice of the constants: no merge and no round of ids
\* leaves a list of another form, and a saved score is one of 0 to 5.
THEOREM SettingsTypes == Spec => []TypeOK
<1>1. Init => VInv /\ KInv /\ Others
  <2> SUFFICES ASSUME Init PROVE Others
    BY SettingsInit, KeysInit
  <2>1. screen = NoScreening /\ saves = 0 /\ raced = FALSE
    BY DEF Init
  <2>2. ScreenTypeOK
    BY <2>1 DEF NoScreening, ScreenTypeOK
  <2>3. MaxSaves \in Nat
    BY SettingsAssumption
  <2>4. saves \in 0..MaxSaves
    BY <2>1, <2>3
  <2> QED  BY <2>1, <2>2, <2>4 DEF Others
<1>2. VInv /\ KInv /\ Others /\ [Next]_vars => VInv' /\ KInv' /\ Others'
  BY SettingsStepwise, KeysStep, OthersStep
<1>3. VInv /\ KInv /\ Others => TypeOK
  <2> SUFFICES ASSUME Typed, Others PROVE TypeOK
    BY DEF KInv
  <2>1. RowTypeOK
    BY DEF Typed, RowTypeOK, Columns
  <2>2. RequestTypeOK
    BY DEF Typed, RequestTypeOK
  <2> QED  BY <2>1, <2>2 DEF Typed, Others, TypeOK
<1> QED  BY <1>1, <1>2, <1>3, PTL DEF Spec

=============================================================================
