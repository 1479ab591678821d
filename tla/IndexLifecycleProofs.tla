------------------------ MODULE IndexLifecycleProofs ------------------------
(***************************************************************************)
(* Proofs about IndexLifecycle, for any number of points, levels, fields   *)
(* and queries: the arrays stay tiled, a program reads back what was saved *)
(* whole, a graph is built in one mode, the bytes of the visited table     *)
(* answer like a set, and the bracket of the tuning holds its target.      *)
(*                                                                         *)
(* The invariant has a part per component.  IndexInv says of an index in   *)
(* memory, and of the one that was saved, what the lemmas on LevelTable    *)
(* need; FileInv ties each field of the file to the index it was written   *)
(* from.                                                                   *)
(***************************************************************************)
EXTENDS IndexLifecycle, SequenceTheorems, TLAPS

-----------------------------------------------------------------------------
(* The layout of the arrays, one operation at a time: placing the next point *)
(* keeps the lists from sharing slots, drawing levels changes no list, and   *)
(* every write of a boundary stays within the list it lands on               *)

TableFields == {"levels", "offsets", "nslots", "links", "boundaries", "offset_neighbor"}

\* an index record, for what LevelTable knows of it; C is what a point may
\* remember about its links
IsTable(t, C) ==
  /\ t = [x \in DOMAIN t |-> t[x]] /\ TableFields \subseteq DOMAIN t
  /\ t.levels \in Seq(1 .. TopLevel + 1) /\ t.links \in Seq(C)
  /\ t.offsets \in Seq(Nat) /\ t.offset_neighbor \in Seq(Nat) /\ t.nslots \in Nat
  /\ t.boundaries \in [DOMAIN t.boundaries -> Nat]

\* The tables are as long as one another, the arrays end where the last range
\* does, and the lists tile them.
Laid(t) ==
  /\ Len(t.offsets) = Len(t.links) + 1 /\ Len(t.offset_neighbor) = Len(t.offsets)
  /\ Len(t.links) <= Len(t.levels)
  /\ t.offsets[Len(t.offsets)] = t.nslots
  /\ DOMAIN t.boundaries = 0 .. t.offset_neighbor[Len(t.offsets)] - 1
  /\ Tiles(t)

-----------------------------------------------------------------------------
(* Arithmetic of one list                                                   *)

LEMMA CumType == ASSUME NEW l \in Nat PROVE cum_nb_neighbors(l) \in Nat
<1>1. (l + 1) * M_exp \in Nat
  BY LevelTableAssumption
<1> QED BY <1>1 DEF cum_nb_neighbors

\* Higher levels have their slots behind those of lower ones.
LEMMA CumMonotone ==
  ASSUME NEW k \in Nat, NEW l \in Nat, k < l
  PROVE  cum_nb_neighbors(k + 1) <= cum_nb_neighbors(l)
<1> DEFINE d == l - k - 1
<1>1. d \in Nat /\ l + 1 = (k + 2) + d
  OBVIOUS
<1>2. (l + 1) * M_exp = (k + 2) * M_exp + d * M_exp /\ d * M_exp \in Nat
  BY <1>1, LevelTableAssumption
<1>3. (k + 2) * M_exp \in Nat /\ (l + 1) * M_exp \in Nat
  BY LevelTableAssumption
<1>4. /\ cum_nb_neighbors(k + 1) = (k + 2) * M_exp
      /\ cum_nb_neighbors(l) = (l + 1) * M_exp
  BY DEF cum_nb_neighbors
<1> QED BY <1>2, <1>3, <1>4

\* A list has room for its dist-oriented links, and for those that any higher
\* level may have.
LEMMA CapFits ==
  ASSUME NEW l \in Nat
  PROVE  /\ DistCap(l) \in Nat
         /\ DistCap(l) <= cum_nb_neighbors(l + 1) - cum_nb_neighbors(l)
         /\ M <= cum_nb_neighbors(l + 1) - cum_nb_neighbors(l)
<1>1. CASE l = 0
  <2>1. cum_nb_neighbors(1) = 2 * M_exp /\ cum_nb_neighbors(0) = 0
    BY DEF cum_nb_neighbors
  <2> QED BY <1>1, <2>1, LevelTableAssumption DEF DistCap
<1>2. CASE l # 0
  <2>1. (l + 2) * M_exp = (l + 1) * M_exp + M_exp /\ (l + 1) * M_exp \in Nat
    BY LevelTableAssumption
  <2>2. /\ cum_nb_neighbors(l + 1) = (l + 2) * M_exp
        /\ cum_nb_neighbors(l) = (l + 1) * M_exp
    BY <1>2 DEF cum_nb_neighbors
  <2> QED BY <1>2, <2>1, <2>2, LevelTableAssumption DEF DistCap
<1> QED BY <1>1, <1>2

\* Every slot of a point belongs to one of its levels.
LEMMA SlotHasLevel ==
  ASSUME NEW n \in Nat \ {0}, NEW j \in 0 .. cum_nb_neighbors(n) - 1
  PROVE  \E l \in 0 .. n - 1 :
           cum_nb_neighbors(l) <= j /\ j <= cum_nb_neighbors(l + 1) - 1
<1>0. j \in Nat /\ M_exp \in Nat \ {0} /\ cum_nb_neighbors(n) = (n + 1) * M_exp
  BY CumType, LevelTableAssumption DEF cum_nb_neighbors
<1>1. CASE j < 2 * M_exp
  <2>1. cum_nb_neighbors(0) = 0 /\ cum_nb_neighbors(0 + 1) = 2 * M_exp
    BY DEF cum_nb_neighbors
  <2> QED BY <1>0, <1>1, <2>1
<1>2. CASE ~(j < 2 * M_exp)
  <2> DEFINE q == j \div M_exp
             l == q - 1
  <2>1. q \in Nat /\ q * M_exp <= j /\ j < (q + 1) * M_exp
    BY <1>0
  <2>2. q >= 2
    <3>1. ~(q + 1 <= 2)
      <4> SUFFICES ASSUME q + 1 <= 2 PROVE FALSE
        OBVIOUS
      <4>1. q = 0 \/ q = 1
        BY <2>1
      <4>2. (q + 1) * M_exp <= 2 * M_exp
        BY <4>1, <1>0
      <4> QED BY <4>2, <2>1, <1>2, <1>0
    <3> QED BY <3>1, <2>1
  <2>3. q <= n
    <3> SUFFICES ASSUME q >= n + 1 PROVE FALSE
      BY <2>1
    <3>1. q * M_exp = (n + 1) * M_exp + (q - (n + 1)) * M_exp
      BY <2>1, <1>0
    <3>2. (q - (n + 1)) * M_exp \in Nat
      BY <2>1, <1>0
    <3>3. q * M_exp \in Nat /\ (n + 1) * M_exp \in Nat
      BY <2>1, <1>0
    <3> QED BY <3>1, <3>2, <3>3, <2>1, <1>0
  <2>4. l \in 0 .. n - 1 /\ l # 0
    BY <2>1, <2>2, <2>3
  <2>5. cum_nb_neighbors(l) = q * M_exp /\ cum_nb_neighbors(l + 1) = (q + 1) * M_exp
    BY <2>4, <2>1 DEF cum_nb_neighbors
  <2>6. (q + 1) * M_exp \in Nat
    BY <2>1, <1>0
  <2>7. cum_nb_neighbors(l) <= j /\ j <= cum_nb_neighbors(l + 1) - 1
    BY <2>1, <2>5, <2>6, <1>0
  <2> HIDE DEF l
  <2> QED BY <2>4, <2>7
<1> QED BY <1>1, <1>2

-----------------------------------------------------------------------------
(* The first table                                                          *)

\* An index without points has no lists, and its arrays are empty.
LEMMA EmptyLaid ==
  ASSUME NEW t, t.links = << >>, t.levels = << >>, t.offsets = << 0 >>,
         t.offset_neighbor = << 0 >>, t.nslots = 0, t.boundaries = << >>
  PROVE  Laid(t) /\ Fits(t) /\ Lists(t) = {}
<1>1. Placed(t) = {}
  BY DEF Placed
<1>2. Lists(t) = {}
  BY <1>1 DEF Lists
<1>3. 0 .. t.nslots - 1 = {} /\ DOMAIN t.boundaries = {}
  OBVIOUS
<1>4. {BoundarySlot(t, x[1], x[2]) : x \in Lists(t)} = {}
  BY <1>2
<1>5. Tiles(t)
  BY <1>2, <1>3, <1>4 DEF Tiles
<1>6. 0 .. t.offset_neighbor[Len(t.offsets)] - 1 = {}
  OBVIOUS
<1> QED BY <1>2, <1>3, <1>5, <1>6 DEF Laid, Fits

-----------------------------------------------------------------------------
(* New points                                                               *)

\* The levels of points without a range make no list.
LEMMA DrawKeepsLists ==
  ASSUME NEW C, NEW t, IsTable(t, C), Laid(t), NEW lv \in Seq(1 .. TopLevel + 1)
  PROVE  /\ IsTable(DrawLevels(t, lv), C) /\ Laid(DrawLevels(t, lv))
         /\ Lists(DrawLevels(t, lv)) = Lists(t)
<1> DEFINE u == DrawLevels(t, lv)
<1>1. /\ u.levels = t.levels \o lv /\ u.offsets = t.offsets /\ u.links = t.links
      /\ u.offset_neighbor = t.offset_neighbor /\ u.nslots = t.nslots
      /\ u.boundaries = t.boundaries
      /\ u = [x \in DOMAIN u |-> u[x]] /\ DOMAIN u = DOMAIN t
  BY DEF DrawLevels, IsTable, TableFields
<1>2. /\ u.levels \in Seq(1 .. TopLevel + 1)
      /\ Len(u.levels) = Len(t.levels) + Len(lv)
      /\ \A p \in 1 .. Len(t.levels) : u.levels[p] = t.levels[p]
  <2>1. t.levels \in Seq(1 .. TopLevel + 1)
    BY DEF IsTable
  <2> QED BY <1>1, <2>1
<1> HIDE DEF u
<1>3. IsTable(u, C)
  BY <1>1, <1>2 DEF IsTable
<1>4. Placed(u) = Placed(t) /\ Placed(t) \subseteq 1 .. Len(t.levels)
  <2>1. Len(t.links) \in Nat /\ Len(t.levels) \in Nat
    BY DEF IsTable
  <2> QED BY <1>1, <2>1 DEF Placed, Laid
<1>5. Lists(u) = Lists(t)
  BY <1>2, <1>4 DEF Lists
<1>6. \A p, l : /\ neighbor_range(u, p, l) = neighbor_range(t, p, l)
                /\ BoundarySlot(u, p, l) = BoundarySlot(t, p, l)
  BY <1>1 DEF neighbor_range, BoundarySlot
<1>7. Tiles(u)
  <2>1. Tiles(t)
    BY DEF Laid
  <2>2. {BoundarySlot(u, x[1], x[2]) : x \in Lists(u)}
          = {BoundarySlot(t, x[1], x[2]) : x \in Lists(t)}
    BY <1>5, <1>6
  <2>3. DOMAIN u.boundaries = {BoundarySlot(u, x[1], x[2]) : x \in Lists(u)}
    BY <1>1, <2>1, <2>2 DEF Tiles
  <2>4. /\ Len(u.offset_neighbor) = Len(u.offsets)
        /\ \A x \in Lists(u) : neighbor_range(u, x[1], x[2]) \subseteq 0 .. u.nslots - 1
        /\ \A i \in 0 .. u.nslots - 1 :
             \E x \in Lists(u) : i \in neighbor_range(u, x[1], x[2])
    BY <1>1, <1>5, <1>6, <2>1 DEF Tiles
  <2>5. \A x, y \in Lists(u) : x # y =>
          /\ neighbor_range(u, x[1], x[2]) \cap neighbor_range(u, y[1], y[2]) = {}
          /\ BoundarySlot(u, x[1], x[2]) # BoundarySlot(u, y[1], y[2])
    BY <1>5, <1>6, <2>1 DEF Tiles
  <2> QED BY <2>3, <2>4, <2>5 DEF Tiles
<1>8. Len(u.links) <= Len(u.levels)
  <2>1. Len(t.links) \in Nat /\ Len(t.levels) \in Nat /\ Len(lv) \in Nat
    BY DEF IsTable
  <2> QED BY <1>1, <1>2, <2>1 DEF Laid
<1>9. Laid(u)
  BY <1>1, <1>7, <1>8 DEF Laid
<1> QED BY <1>3, <1>5, <1>9 DEF u

\* What Place writes, and where the new lists lie.
LEMMA PlaceFields ==
  ASSUME NEW C, NotLinked \in C, NEW t, IsTable(t, C), Laid(t),
         Len(t.links) < Len(t.levels)
  PROVE  LET u == Place(t)
             p == Len(t.offsets)
             last == t.offset_neighbor[p] + t.levels[p]
         IN /\ IsTable(u, C) /\ DOMAIN u = DOMAIN t
            /\ u.levels = t.levels /\ u.links = Append(t.links, NotLinked)
            /\ p = Len(t.links) + 1 /\ p \in 1 .. Len(t.levels)
            /\ t.levels[p] \in 1 .. TopLevel + 1
            /\ t.offset_neighbor[p] \in Nat
            /\ Len(u.offsets) = p + 1 /\ Len(u.offset_neighbor) = p + 1
            /\ \A q \in 1 .. p : /\ u.offsets[q] = t.offsets[q]
                                 /\ u.offset_neighbor[q] = t.offset_neighbor[q]
            /\ u.nslots = t.nslots + cum_nb_neighbors(t.levels[p])
            /\ u.offsets[p + 1] = u.nslots /\ u.offset_neighbor[p + 1] = last
            /\ DOMAIN u.boundaries = 0 .. last - 1
            /\ \A i \in 0 .. last - 1 :
                 u.boundaries[i] = IF i \in DOMAIN t.boundaries THEN t.boundaries[i] ELSE 0
            /\ Lists(u) = Lists(t) \cup {<<p, l>> : l \in 0 .. t.levels[p] - 1}
<1> DEFINE u == Place(t)
           p == Len(t.offsets)
           last == t.offset_neighbor[p] + t.levels[p]
           end == t.offsets[p] + cum_nb_neighbors(t.levels[p])
<1>1. /\ p = Len(t.links) + 1 /\ p \in 1 .. Len(t.levels)
      /\ Len(t.links) \in Nat /\ Len(t.levels) \in Nat /\ p = Len(t.offset_neighbor)
  BY DEF IsTable, Laid
<1>2. t.levels[p] \in 1 .. TopLevel + 1 /\ t.offset_neighbor[p] \in Nat /\ t.offsets[p] \in Nat
  <2>1. /\ t.levels \in Seq(1 .. TopLevel + 1)
        /\ t.offsets \in Seq(Nat) /\ t.offset_neighbor \in Seq(Nat)
    BY DEF IsTable
  <2>2. t.levels[p] \in 1 .. TopLevel + 1
    BY <1>1, <2>1, ElementOfSeq
  <2>3. p \in 1 .. Len(t.offset_neighbor) /\ p \in 1 .. Len(t.offsets)
    BY <1>1
  <2>4. t.offset_neighbor[p] \in Nat /\ t.offsets[p] \in Nat
    BY <2>1, <2>3, ElementOfSeq
  <2> QED BY <2>2, <2>4
<1>3. end \in Nat /\ last \in Nat /\ end = t.nslots + cum_nb_neighbors(t.levels[p])
  <2>1. t.levels[p] \in Nat /\ t.offsets[p] = t.nslots
    BY <1>2, LevelTableAssumption DEF Laid
  <2>2. cum_nb_neighbors(t.levels[p]) \in Nat
    BY <2>1, CumType
  <2> DEFINE own == cum_nb_neighbors(t.levels[p])
             slots == t.offsets[p]
             first == t.offset_neighbor[p]
             height == t.levels[p]
  <2>3. own \in Nat /\ slots \in Nat /\ first \in Nat /\ height \in Nat
    BY <1>2, <2>1, <2>2
  <2>4. slots = t.nslots
    BY <2>1
  <2>5. end = slots + own /\ last = first + height
    OBVIOUS
  <2> HIDE DEF own, slots, first, height, end, last
  <2>6. end \in Nat /\ last \in Nat
    BY <2>3, <2>5
  <2>7. end = t.nslots + own
    BY <2>4, <2>5, Zenon
  <2> QED BY <2>6, <2>7 DEF own
<1>4. /\ u.levels = t.levels /\ u.links = Append(t.links, NotLinked)
      /\ u.offsets = Append(t.offsets, end) /\ u.nslots = end
      /\ u.offset_neighbor = Append(t.offset_neighbor, last)
      /\ u.boundaries = [i \in 0 .. last - 1 |->
           IF i \in DOMAIN t.boundaries THEN t.boundaries[i] ELSE 0]
      /\ u = [x \in DOMAIN u |-> u[x]] /\ DOMAIN u = DOMAIN t
  BY DEF Place, IsTable, TableFields
<1> HIDE DEF u, last, end
<1>5. /\ t.offsets \in Seq(Nat) /\ t.offset_neighbor \in Seq(Nat) /\ t.links \in Seq(C)
      /\ \A i \in DOMAIN t.boundaries : t.boundaries[i] \in Nat
  BY DEF IsTable
<1>6. /\ u.offsets \in Seq(Nat) /\ Len(u.offsets) = p + 1 /\ u.offsets[p + 1] = end
      /\ \A q \in 1 .. p : u.offsets[q] = t.offsets[q]
  BY <1>3, <1>4, <1>5, AppendProperties
<1>7. /\ u.offset_neighbor \in Seq(Nat) /\ Len(u.offset_neighbor) = p + 1
      /\ u.offset_neighbor[p + 1] = last
      /\ \A q \in 1 .. p : u.offset_neighbor[q] = t.offset_neighbor[q]
  <2>1. /\ Append(t.offset_neighbor, last) \in Seq(Nat)
        /\ Len(Append(t.offset_neighbor, last)) = Len(t.offset_neighbor) + 1
        /\ \A q \in 1 .. Len(t.offset_neighbor) :
             Append(t.offset_neighbor, last)[q] = t.offset_neighbor[q]
        /\ Append(t.offset_neighbor, last)[Len(t.offset_neighbor) + 1] = last
    BY <1>3, <1>5, AppendProperties
  <2>2. p = Len(t.offset_neighbor) /\ u.offset_neighbor = Append(t.offset_neighbor, last)
    BY <1>1, <1>4
  <2> HIDE DEF p
  <2> QED BY <2>1, <2>2
<1>8. u.links \in Seq(C)
  BY <1>4, <1>5
<1>9. /\ DOMAIN u.boundaries = 0 .. last - 1
      /\ \A i \in 0 .. last - 1 :
           u.boundaries[i] = IF i \in DOMAIN t.boundaries THEN t.boundaries[i] ELSE 0
      /\ u.boundaries \in [DOMAIN u.boundaries -> Nat]
  BY <1>4, <1>5
<1>10. IsTable(u, C)
  BY <1>3, <1>4, <1>6, <1>7, <1>8, <1>9 DEF IsTable
<1>11. Lists(u) = Lists(t) \cup {<<p, l>> : l \in 0 .. t.levels[p] - 1}
  <2>1. Placed(u) = Placed(t) \cup {p} /\ p \notin Placed(t)
    BY <1>1, <1>6 DEF Placed
  <2>2. 0 .. t.levels[p] - 1 = {l \in 0 .. TopLevel : l < t.levels[p]}
    BY <1>2, LevelTableAssumption
  <2>3. ASSUME NEW x \in Lists(u)
        PROVE  x \in Lists(t) \cup {<<p, l>> : l \in 0 .. t.levels[p] - 1}
    <3>1. /\ x = <<x[1], x[2]>> /\ x[1] \in Placed(u) /\ x[2] \in 0 .. TopLevel
          /\ x[2] < t.levels[x[1]]
      BY <1>4 DEF Lists
    <3> QED BY <2>1, <2>2, <3>1 DEF Lists
  <2>4. Lists(t) \subseteq Lists(u)
    BY <2>1, <1>4 DEF Lists
  <2>5. ASSUME NEW l \in 0 .. t.levels[p] - 1 PROVE <<p, l>> \in Lists(u)
    <3>1. l \in 0 .. TopLevel /\ l < t.levels[p]
      BY <2>2
    <3> QED BY <2>1, <3>1, <1>4 DEF Lists
  <2> QED BY <2>3, <2>4, <2>5
<1> QED BY <1>1, <1>2, <1>3, <1>4, <1>6, <1>7, <1>9, <1>10, <1>11 DEF u, last

\* The lists of the next point start where the arrays ended.
LEMMA PlaceLaid ==
  ASSUME NEW C, NotLinked \in C, NEW t, IsTable(t, C), Laid(t),
         Len(t.links) < Len(t.levels)
  PROVE  Laid(Place(t))
<1> DEFINE u == Place(t)
           p == Len(t.offsets)
           n == t.levels[p]
           last == t.offset_neighbor[p] + n
           New == {<<p, l>> : l \in 0 .. n - 1}
<1>1. /\ IsTable(u, C) /\ u.levels = t.levels /\ u.links = Append(t.links, NotLinked)
      /\ p = Len(t.links) + 1 /\ p \in 1 .. Len(t.levels)
      /\ n \in 1 .. TopLevel + 1 /\ t.offset_neighbor[p] \in Nat
      /\ Len(u.offsets) = p + 1 /\ Len(u.offset_neighbor) = p + 1
      /\ \A q \in 1 .. p : /\ u.offsets[q] = t.offsets[q]
                           /\ u.offset_neighbor[q] = t.offset_neighbor[q]
      /\ u.nslots = t.nslots + cum_nb_neighbors(n)
      /\ u.offsets[p + 1] = u.nslots /\ u.offset_neighbor[p + 1] = last
      /\ DOMAIN u.boundaries = 0 .. last - 1
      /\ Lists(u) = Lists(t) \cup New
  BY PlaceFields
<1>2. t.nslots \in Nat /\ t.links \in Seq(C) /\ Len(t.links) \in Nat
  BY DEF IsTable
<1>3. n \in Nat \ {0} /\ cum_nb_neighbors(n) \in Nat /\ t.offset_neighbor[p] \in Nat
  <2>1. n \in 1 .. TopLevel + 1 /\ TopLevel \in Nat
    BY <1>1, LevelTableAssumption
  <2> HIDE DEF n
  <2>2. n \in Nat \ {0}
    BY <2>1
  <2> QED BY <2>2, <1>1, CumType
<1>4. /\ t.offsets[p] = t.nslots /\ DOMAIN t.boundaries = 0 .. t.offset_neighbor[p] - 1
      /\ Tiles(t)
  BY DEF Laid
<1> HIDE DEF u, n, last
<1>5. \A x \in Lists(t) :
        /\ x[1] \in 1 .. p - 1 /\ x[2] \in Nat
        /\ neighbor_range(u, x[1], x[2]) = neighbor_range(t, x[1], x[2])
        /\ neighbor_range(t, x[1], x[2]) \subseteq 0 .. t.nslots - 1
        /\ BoundarySlot(u, x[1], x[2]) = BoundarySlot(t, x[1], x[2])
        /\ BoundarySlot(t, x[1], x[2]) \in 0 .. t.offset_neighbor[p] - 1
  <2> SUFFICES ASSUME NEW x \in Lists(t)
               PROVE  /\ x[1] \in 1 .. p - 1 /\ x[2] \in Nat
                      /\ neighbor_range(u, x[1], x[2]) = neighbor_range(t, x[1], x[2])
                      /\ neighbor_range(t, x[1], x[2]) \subseteq 0 .. t.nslots - 1
                      /\ BoundarySlot(u, x[1], x[2]) = BoundarySlot(t, x[1], x[2])
                      /\ BoundarySlot(t, x[1], x[2]) \in 0 .. t.offset_neighbor[p] - 1
    OBVIOUS
  <2>1. x[1] \in 1 .. p - 1 /\ x[2] \in Nat
    BY DEF Lists, Placed
  <2>2. x[1] \in 1 .. p
    BY <2>1, <1>1
  <2>3. /\ neighbor_range(u, x[1], x[2]) = neighbor_range(t, x[1], x[2])
        /\ BoundarySlot(u, x[1], x[2]) = BoundarySlot(t, x[1], x[2])
    BY <1>1, <2>2 DEF neighbor_range, BoundarySlot
  <2>4. neighbor_range(t, x[1], x[2]) \subseteq 0 .. t.nslots - 1
    BY <1>4 DEF Tiles
  <2>5. BoundarySlot(t, x[1], x[2]) \in 0 .. t.offset_neighbor[p] - 1
    BY <1>4 DEF Tiles
  <2> QED BY <2>1, <2>3, <2>4, <2>5
<1>6. \A l \in 0 .. n - 1 :
        /\ neighbor_range(u, p, l) = t.nslots + cum_nb_neighbors(l)
                                       .. t.nslots + cum_nb_neighbors(l + 1) - 1
        /\ cum_nb_neighbors(l) \in Nat /\ cum_nb_neighbors(l + 1) \in Nat
        /\ cum_nb_neighbors(l + 1) <= cum_nb_neighbors(n)
        /\ BoundarySlot(u, p, l) = t.offset_neighbor[p] + l
  <2> SUFFICES ASSUME NEW l \in 0 .. n - 1
               PROVE  /\ neighbor_range(u, p, l) = t.nslots + cum_nb_neighbors(l)
                                                     .. t.nslots + cum_nb_neighbors(l + 1) - 1
                      /\ cum_nb_neighbors(l) \in Nat /\ cum_nb_neighbors(l + 1) \in Nat
                      /\ cum_nb_neighbors(l + 1) <= cum_nb_neighbors(n)
                      /\ BoundarySlot(u, p, l) = t.offset_neighbor[p] + l
    OBVIOUS
  <2>1. l \in Nat /\ l + 1 \in Nat /\ l < n
    BY <1>3
  <2>2. p \in 1 .. p
    BY <1>1, <1>2
  <2> QED BY <1>1, <1>3, <1>4, <2>1, <2>2, CumType, CumMonotone
          DEF neighbor_range, BoundarySlot
<1>7. \A x \in Lists(u) : x \in Lists(t) \/ x \in New
  BY <1>1
<1>8. \A x \in New : x = <<p, x[2]>> /\ x[1] = p /\ x[2] \in 0 .. n - 1
  OBVIOUS
<1> HIDE DEF New, p
<1>9. ASSUME NEW x \in Lists(t), NEW y \in New
      PROVE  /\ neighbor_range(u, x[1], x[2]) \cap neighbor_range(u, y[1], y[2]) = {}
             /\ BoundarySlot(u, x[1], x[2]) # BoundarySlot(u, y[1], y[2])
  <2>1. /\ neighbor_range(u, y[1], y[2]) = t.nslots + cum_nb_neighbors(y[2])
                                   .. t.nslots + cum_nb_neighbors(y[2] + 1) - 1
        /\ cum_nb_neighbors(y[2]) \in Nat /\ cum_nb_neighbors(y[2] + 1) \in Nat
        /\ BoundarySlot(u, y[1], y[2]) = t.offset_neighbor[p] + y[2]
        /\ y[2] \in Nat
    BY <1>6, <1>8
  <2>2. \A i \in neighbor_range(u, x[1], x[2]) : i \in 0 .. t.nslots - 1
    BY <1>5
  <2>3. \A i \in neighbor_range(u, y[1], y[2]) : i >= t.nslots
    BY <2>1, <1>2
  <2>4. neighbor_range(u, x[1], x[2]) \cap neighbor_range(u, y[1], y[2]) = {}
    BY <2>2, <2>3, <1>2
  <2>5. BoundarySlot(u, x[1], x[2]) \in 0 .. t.offset_neighbor[p] - 1
    BY <1>5
  <2>6. BoundarySlot(u, x[1], x[2]) # BoundarySlot(u, y[1], y[2])
    BY <2>1, <2>5, <1>3, SMTT(30)
  <2> QED BY <2>4, <2>6
<1>10. ASSUME NEW x \in New, NEW y \in New, x # y
       PROVE  /\ neighbor_range(u, x[1], x[2]) \cap neighbor_range(u, y[1], y[2]) = {}
              /\ BoundarySlot(u, x[1], x[2]) # BoundarySlot(u, y[1], y[2])
  <2>1. /\ x[1] = p /\ y[1] = p /\ x[2] \in 0 .. n - 1 /\ y[2] \in 0 .. n - 1
        /\ x[2] # y[2]
    <3>1. x = <<p, x[2]>> /\ y = <<p, y[2]>>
      BY <1>8
    <3>2. x[2] # y[2]
      BY <3>1, <1>10
    <3> QED BY <3>2, <1>8
  <2>2. /\ BoundarySlot(u, p, x[2]) = t.offset_neighbor[p] + x[2]
        /\ BoundarySlot(u, p, y[2]) = t.offset_neighbor[p] + y[2]
    BY <1>6, <2>1
  <2>3. ASSUME NEW k \in 0 .. n - 1, NEW l \in 0 .. n - 1, k < l
        PROVE  neighbor_range(u, p, k) \cap neighbor_range(u, p, l) = {}
    <3>1. cum_nb_neighbors(k + 1) <= cum_nb_neighbors(l)
      BY <2>3, CumMonotone
    <3>2. /\ neighbor_range(u, p, k) = t.nslots + cum_nb_neighbors(k)
                                         .. t.nslots + cum_nb_neighbors(k + 1) - 1
          /\ neighbor_range(u, p, l) = t.nslots + cum_nb_neighbors(l)
                                         .. t.nslots + cum_nb_neighbors(l + 1) - 1
          /\ {cum_nb_neighbors(k), cum_nb_neighbors(k + 1),
              cum_nb_neighbors(l), cum_nb_neighbors(l + 1)} \subseteq Nat
      BY <1>6
    <3> QED BY <3>1, <3>2, <1>2, SMTT(30)
  <2>4. x[2] < y[2] \/ y[2] < x[2]
    BY <2>1
  <2>5. neighbor_range(u, p, x[2]) \cap neighbor_range(u, p, y[2]) = {}
    BY <2>1, <2>3, <2>4
  <2> QED BY <2>1, <2>2, <2>5, <1>1, SMTT(30)
<1>11. \A x, y \in Lists(u) : x # y =>
         /\ neighbor_range(u, x[1], x[2]) \cap neighbor_range(u, y[1], y[2]) = {}
         /\ BoundarySlot(u, x[1], x[2]) # BoundarySlot(u, y[1], y[2])
  <2> SUFFICES ASSUME NEW x \in Lists(u), NEW y \in Lists(u), x # y
               PROVE  /\ neighbor_range(u, x[1], x[2]) \cap neighbor_range(u, y[1], y[2]) = {}
                      /\ BoundarySlot(u, x[1], x[2]) # BoundarySlot(u, y[1], y[2])
    OBVIOUS
  <2>1. CASE x \in Lists(t) /\ y \in Lists(t)
    <3>1. /\ neighbor_range(t, x[1], x[2]) \cap neighbor_range(t, y[1], y[2]) = {}
          /\ BoundarySlot(t, x[1], x[2]) # BoundarySlot(t, y[1], y[2])
      BY <2>1, <1>4 DEF Tiles
    <3> QED BY <3>1, <2>1, <1>5
  <2>2. CASE x \in Lists(t) /\ y \in New
    BY <2>2, <1>9
  <2>3. CASE x \in New /\ y \in Lists(t)
    BY <2>3, <1>9
  <2>4. CASE x \in New /\ y \in New
    BY <2>4, <1>10
  <2> QED BY <1>7, <2>1, <2>2, <2>3, <2>4
<1>12. \A x \in Lists(u) : neighbor_range(u, x[1], x[2]) \subseteq 0 .. u.nslots - 1
  <2> SUFFICES ASSUME NEW x \in Lists(u), NEW i \in neighbor_range(u, x[1], x[2])
               PROVE  i \in 0 .. u.nslots - 1
    OBVIOUS
  <2>1. CASE x \in Lists(t)
    <3>1. i \in 0 .. t.nslots - 1
      BY <2>1, <1>5
    <3> QED BY <3>1, <1>1, <1>2, <1>3
  <2>2. CASE x \in New
    <3>1. /\ i \in t.nslots + cum_nb_neighbors(x[2])
                     .. t.nslots + cum_nb_neighbors(x[2] + 1) - 1
          /\ cum_nb_neighbors(x[2]) \in Nat /\ cum_nb_neighbors(x[2] + 1) \in Nat
          /\ cum_nb_neighbors(x[2] + 1) <= cum_nb_neighbors(n)
      BY <2>2, <1>6, <1>8
    <3> QED BY <3>1, <1>1, <1>2, <1>3
  <2> QED BY <1>7, <2>1, <2>2
<1>13. \A i \in 0 .. u.nslots - 1 :
         \E x \in Lists(u) : i \in neighbor_range(u, x[1], x[2])
  <2> SUFFICES ASSUME NEW i \in 0 .. u.nslots - 1
               PROVE  \E x \in Lists(u) : i \in neighbor_range(u, x[1], x[2])
    OBVIOUS
  <2>1. CASE i < t.nslots
    <3>1. i \in 0 .. t.nslots - 1
      BY <2>1, <1>2
    <3>2. PICK x \in Lists(t) : i \in neighbor_range(t, x[1], x[2])
      BY <3>1, <1>4 DEF Tiles
    <3> QED BY <3>2, <1>1, <1>5
  <2>2. CASE ~(i < t.nslots)
    <3>1. i - t.nslots \in 0 .. cum_nb_neighbors(n) - 1
      <4>1. /\ t.nslots \in Nat /\ cum_nb_neighbors(n) \in Nat
            /\ u.nslots = t.nslots + cum_nb_neighbors(n)
        BY <1>1, <1>2, <1>3
      <4> QED BY <2>2, <4>1
    <3>2. PICK l \in 0 .. n - 1 :
            /\ cum_nb_neighbors(l) <= i - t.nslots
            /\ i - t.nslots <= cum_nb_neighbors(l + 1) - 1
      BY <3>1, <1>3, SlotHasLevel
    <3>3. i \in neighbor_range(u, p, l)
      <4>1. /\ neighbor_range(u, p, l) = t.nslots + cum_nb_neighbors(l)
                                           .. t.nslots + cum_nb_neighbors(l + 1) - 1
            /\ cum_nb_neighbors(l) \in Nat /\ cum_nb_neighbors(l + 1) \in Nat
        BY <1>6
      <4>2. i \in Int /\ t.nslots \in Nat
        BY <1>2
      <4> QED BY <3>2, <4>1, <4>2
    <3>4. <<p, l>> \in Lists(u)
      BY <1>1 DEF New
    <3> QED BY <3>3, <3>4
  <2> QED BY <2>1, <2>2
<1>14. DOMAIN u.boundaries = {BoundarySlot(u, x[1], x[2]) : x \in Lists(u)}
  <2>1. ASSUME NEW x \in Lists(u) PROVE BoundarySlot(u, x[1], x[2]) \in 0 .. last - 1
    <3>1. CASE x \in Lists(t)
      <4>1. BoundarySlot(u, x[1], x[2]) \in 0 .. t.offset_neighbor[p] - 1
        BY <3>1, <1>5
      <4> QED BY <4>1, <1>3 DEF last
    <3>2. CASE x \in New
      <4>1. BoundarySlot(u, x[1], x[2]) = t.offset_neighbor[p] + x[2] /\ x[2] \in 0 .. n - 1
        BY <3>2, <1>6, <1>8
      <4> QED BY <4>1, <1>3 DEF last
    <3> QED BY <1>7, <3>1, <3>2
  <2>2. ASSUME NEW i \in 0 .. last - 1
        PROVE  \E x \in Lists(u) : i = BoundarySlot(u, x[1], x[2])
    <3>1. CASE i < t.offset_neighbor[p]
      <4>1. i \in DOMAIN t.boundaries
        BY <3>1, <1>1, <1>4
      <4>2. PICK x \in Lists(t) : i = BoundarySlot(t, x[1], x[2])
        BY <4>1, <1>4 DEF Tiles
      <4> QED BY <4>2, <1>1, <1>5
    <3>2. CASE ~(i < t.offset_neighbor[p])
      <4> DEFINE l == i - t.offset_neighbor[p]
      <4>1. l \in 0 .. n - 1 /\ i = t.offset_neighbor[p] + l
        BY <3>2, <1>3 DEF last
      <4> HIDE DEF l
      <4>2. i = BoundarySlot(u, p, l)
        BY <4>1, <1>6
      <4>3. <<p, l>> \in Lists(u)
        BY <4>1, <1>1 DEF New
      <4> QED BY <4>2, <4>3
    <3> QED BY <3>1, <3>2
  <2> QED BY <2>1, <2>2, <1>1
<1>15. Tiles(u)
  BY <1>1, <1>11, <1>12, <1>13, <1>14 DEF Tiles
<1>16. Len(u.links) = Len(t.links) + 1
  BY <1>1, <1>2
<1>17. Len(u.offsets) = Len(u.links) + 1 /\ Len(u.links) <= Len(u.levels)
  BY <1>1, <1>16
<1> QED BY <1>1, <1>15, <1>17 DEF Laid, u

\* The boundaries of the next point are 0.
LEMMA PlaceFits ==
  ASSUME NEW C, NotLinked \in C, NEW t, IsTable(t, C), Laid(t), Fits(t),
         Len(t.links) < Len(t.levels)
  PROVE  Fits(Place(t))
<1> DEFINE u == Place(t)
           p == Len(t.offsets)
           last == t.offset_neighbor[p] + t.levels[p]
           New == {<<p, l>> : l \in 0 .. t.levels[p] - 1}
<1>1. /\ p = Len(t.links) + 1 /\ t.levels[p] \in 1 .. TopLevel + 1
      /\ t.offset_neighbor[p] \in Nat
      /\ \A q \in 1 .. p : u.offset_neighbor[q] = t.offset_neighbor[q]
      /\ DOMAIN u.boundaries = 0 .. last - 1
      /\ \A i \in 0 .. last - 1 :
           u.boundaries[i] = IF i \in DOMAIN t.boundaries THEN t.boundaries[i] ELSE 0
      /\ Lists(u) = Lists(t) \cup New
  BY PlaceFields
<1>2. Laid(u)
  BY PlaceLaid
<1>3. /\ DOMAIN t.boundaries = 0 .. t.offset_neighbor[p] - 1
      /\ DOMAIN t.boundaries = {BoundarySlot(t, x[1], x[2]) : x \in Lists(t)}
      /\ DOMAIN u.boundaries = {BoundarySlot(u, x[1], x[2]) : x \in Lists(u)}
  BY <1>2 DEF Laid, Tiles
<1>4. p \in Nat /\ p >= 1
  <2>1. Len(t.links) \in Nat
    BY DEF IsTable
  <2> QED BY <1>1, <2>1
<1> HIDE DEF u, last
<1>5. SUFFICES ASSUME NEW x \in Lists(u)
               PROVE  u.boundaries[BoundarySlot(u, x[1], x[2])]
                        \in 0 .. cum_nb_neighbors(x[2] + 1) - cum_nb_neighbors(x[2])
  BY DEF Fits, u
<1> DEFINE i == BoundarySlot(u, x[1], x[2])
<1>6. i \in 0 .. last - 1
  BY <1>1, <1>3
<1>7. CASE x \in Lists(t)
  <2>1. x[1] \in 1 .. p
    BY <1>7, <1>4 DEF Lists, Placed
  <2>2. i = BoundarySlot(t, x[1], x[2])
    BY <2>1, <1>1 DEF BoundarySlot
  <2>3. i \in DOMAIN t.boundaries
    BY <2>2, <1>3, <1>7
  <2> QED BY <2>2, <2>3, <1>1, <1>6, <1>7 DEF Fits
<1>8. CASE x \in New
  <2>1. x[1] = p /\ x[2] \in 0 .. t.levels[p] - 1
    BY <1>8
  <2>2. i = t.offset_neighbor[p] + x[2]
    BY <2>1, <1>1, <1>4 DEF BoundarySlot
  <2>3. i \notin DOMAIN t.boundaries
    BY <2>1, <2>2, <1>1, <1>3
  <2>4. u.boundaries[i] = 0
    BY <2>3, <1>1, <1>6
  <2>0. x[2] \in Nat /\ x[2] + 1 \in Nat
    BY <2>1
  <2>5. DistCap(x[2]) \in Nat
        /\ DistCap(x[2]) <= cum_nb_neighbors(x[2] + 1) - cum_nb_neighbors(x[2])
    BY <2>0, CapFits
  <2>6. cum_nb_neighbors(x[2] + 1) \in Nat /\ cum_nb_neighbors(x[2]) \in Nat
    BY <2>0, CumType
  <2> QED BY <2>4, <2>5, <2>6
<1> QED BY <1>1, <1>7, <1>8

-----------------------------------------------------------------------------
(* Boundaries                                                               *)

\* Boundaries b that are the old ones, or fit the list they belong to.
WrittenWithin(t, b) ==
  /\ b \in [DOMAIN t.boundaries -> Nat]
  /\ \A i \in DOMAIN t.boundaries :
       b[i] = t.boundaries[i] \/
       \E x \in Lists(t) :
         /\ i = BoundarySlot(t, x[1], x[2])
         /\ b[i] <= cum_nb_neighbors(x[2] + 1) - cum_nb_neighbors(x[2])

\* No two lists share a boundary, so what fits one list fits wherever it is.
LEMMA WrittenFits ==
  ASSUME NEW t, Tiles(t), Fits(t), NEW b, WrittenWithin(t, b), NEW x \in Lists(t)
  PROVE  b[BoundarySlot(t, x[1], x[2])]
           \in 0 .. cum_nb_neighbors(x[2] + 1) - cum_nb_neighbors(x[2])
<1> DEFINE i == BoundarySlot(t, x[1], x[2])
<1>1. i \in DOMAIN t.boundaries
  BY DEF Tiles
<1>2. b[i] \in Nat
  BY <1>1 DEF WrittenWithin
<1>3. x[2] \in Nat
  BY DEF Lists
<1>4. cum_nb_neighbors(x[2] + 1) \in Nat /\ cum_nb_neighbors(x[2]) \in Nat
  BY <1>3, CumType
<1>5. CASE b[i] = t.boundaries[i]
  BY <1>5 DEF Fits
<1>6. CASE b[i] # t.boundaries[i]
  <2>1. PICK y \in Lists(t) :
          /\ i = BoundarySlot(t, y[1], y[2])
          /\ b[i] <= cum_nb_neighbors(y[2] + 1) - cum_nb_neighbors(y[2])
    BY <1>1, <1>6 DEF WrittenWithin
  <2>2. y = x
    BY <2>1 DEF Tiles
  <2> QED BY <2>1, <2>2, <1>2, <1>4
<1> QED BY <1>5, <1>6

\* The boundary of level l, wherever a point puts it: only level 0 may have
\* 2 * M dist-oriented links, and every point has a level 0.
LEMMA SetWithin ==
  ASSUME NEW C, NEW t, IsTable(t, C), Laid(t), NEW p \in Placed(t),
         NEW l \in 0 .. TopLevel
  PROVE  WrittenWithin(t, set_neighbor_dist_boundary(t, p, l, DistCap(l)).boundaries)
<1> DEFINE s == BoundarySlot(t, p, l)
           b == set_neighbor_dist_boundary(t, p, l, DistCap(l)).boundaries
<1>1. t.boundaries \in [DOMAIN t.boundaries -> Nat] /\ l \in Nat /\ DistCap(l) \in Nat
  BY CapFits DEF IsTable
<1>2. CASE s \notin DOMAIN t.boundaries
  <2>1. b = t.boundaries
    BY <1>2 DEF set_neighbor_dist_boundary
  <2> QED BY <2>1, <1>1 DEF WrittenWithin
<1>3. CASE s \in DOMAIN t.boundaries
  <2>1. b = [t.boundaries EXCEPT ![s] = DistCap(l)]
    BY <1>3 DEF set_neighbor_dist_boundary, IsTable, TableFields
  <2> HIDE DEF b
  <2>2. /\ b \in [DOMAIN t.boundaries -> Nat]
        /\ \A i \in DOMAIN t.boundaries : i # s => b[i] = t.boundaries[i]
        /\ b[s] = DistCap(l)
    BY <2>1, <1>1, <1>3
  <2>3. \E x \in Lists(t) :
          /\ s = BoundarySlot(t, x[1], x[2])
          /\ b[s] <= cum_nb_neighbors(x[2] + 1) - cum_nb_neighbors(x[2])
    <3>1. CASE l = 0
      <4>1. p \in 1 .. Len(t.levels)
        <5>1. Len(t.links) \in Nat /\ Len(t.levels) \in Nat
          BY DEF IsTable
        <5> QED BY <5>1 DEF Laid, Placed
      <4>2. t.levels[p] \in 1 .. TopLevel + 1
        BY <4>1, ElementOfSeq DEF IsTable
      <4>3. <<p, 0>> \in Lists(t)
        BY <4>2, LevelTableAssumption DEF Lists
      <4>4. b[s] <= cum_nb_neighbors(0 + 1) - cum_nb_neighbors(0)
        BY <3>1, <2>2, CapFits
      <4> QED BY <3>1, <4>3, <4>4
    <3>2. CASE l # 0
      <4>1. PICK x \in Lists(t) : s = BoundarySlot(t, x[1], x[2])
        <5>1. DOMAIN t.boundaries = {BoundarySlot(t, x[1], x[2]) : x \in Lists(t)}
          BY DEF Laid, Tiles
        <5> HIDE DEF s
        <5> QED BY <5>1, <1>3
      <4>2. x[2] \in Nat
        BY DEF Lists
      <4>3. b[s] = M
        BY <3>2, <2>2 DEF DistCap
      <4> QED BY <4>1, <4>2, <4>3, CapFits
    <3> QED BY <3>1, <3>2
  <2> QED BY <2>2, <2>3 DEF WrittenWithin, b
<1> QED BY <1>2, <1>3

-----------------------------------------------------------------------------
(* The tuning of bencher/pathseer.hpp: why the bracket of a bisection holds  *)
(* its target, for every recall function                                    *)

CostsKnown == filter_time_ns \in Nat /\ dist_comp_ns \in Nat

TuningType ==
  /\ CostsKnown
  /\ phase \in {"off", "profiled", "probe", "bisect", "choose", "test", "sweep"}
  /\ adaptive \in BOOLEAN /\ verified \in BOOLEAN
  /\ target \in 0 .. MaxRecall /\ prev_recall \in 0 .. MaxRecall /\ efSearch \in Int
  /\ low \in Int /\ high \in Int
  /\ atLow \in -1 .. MaxRecall /\ atHigh \in -1 .. MaxRecall
  /\ recall_min_pos \in -1 .. MaxRecall /\ recall_max_pos \in -1 .. MaxRecall
  /\ vo \in Nat /\ round \in 0 .. Rounds

\* While an end is looked for, the lower one was measured below the target, at
\* a width that counts; the upper one is found last.
ProbeInv == phase = "probe" =>
  /\ efSearch >= top_k
  /\ low # -1 => low >= top_k /\ low < efSearch /\ atLow \in 0 .. target

SweepInv == phase = "sweep" =>
  /\ atHigh = -1
  /\ atLow >= 0 => low >= top_k /\ low < efSearch /\ atLow < TargetLower
  /\ efSearch <= top_k => atLow = -1

\* The ends of a bracket that was measured stay on their sides of the target.
BracketInv == phase \in {"bisect", "choose"} /\ verified =>
  /\ low >= top_k /\ low < high
  /\ atLow \in 0 .. target /\ atHigh \in target .. MaxRecall
  /\ phase = "bisect" =>
       recall_min_pos \in {-1, atLow} /\ recall_max_pos \in {-1, atHigh}

ChooseInv == phase = "choose" /\ verified =>
  /\ high = low + 1
  /\ Deterministic => recall_min_pos = atLow /\ recall_max_pos = atHigh

\* Nothing is left of an earlier bracket when the tuning rests.
RestingInv == phase \in {"off", "profiled"} => atLow = -1 /\ atHigh = -1

TuningInv == TuningType /\ ProbeInv /\ SweepInv /\ BracketInv /\ ChooseInv /\ RestingInv

\* what BracketHolds of IndexLifecycle says
NearestEnds == phase = "choose" /\ verified /\ Deterministic =>
  /\ recall_min_pos <= target /\ target <= recall_max_pos
  /\ high = low + 1 /\ recall_min_pos = atLow /\ recall_max_pos = atHigh

LEMMA TuningInvBracket == TuningInv => NearestEnds
BY DEF TuningInv, TuningType, BracketInv, ChooseInv, NearestEnds

-----------------------------------------------------------------------------
(* Helpers                                                                  *)

\* The overheads on test are natural numbers, and do not go backwards.
LEMMA Overheads ==
  ASSUME CostsKnown
  PROVE  min_VO \in Nat /\ max_VO \in Nat /\ VO_delta \in Nat
<1> DEFINE f == filter_time_ns
           d == dist_comp_ns
           x == MaxExp * (2 * f + d)
<1>1. f \in Nat /\ d \in Nat /\ MinExp \in Nat /\ MaxExp \in Nat /\ MinExp <= MaxExp
  BY TuningAssumption DEF CostsKnown
<1>2. PICK e \in Nat : MaxExp = MinExp + e
  <2>1. MaxExp - MinExp \in Nat /\ MaxExp = MinExp + (MaxExp - MinExp)
    BY <1>1
  <2> QED BY <2>1
<1>3. MinExp * f \in Nat /\ MinExp * d \in Nat /\ e * f \in Nat /\ e * d \in Nat
  BY <1>1, <1>2
<1>4. x = 2 * (MinExp * f) + MinExp * d + 2 * (e * f) + e * d
  BY <1>1, <1>2
<1>5. x \in Nat /\ x >= 2 * (MinExp * f)
  BY <1>3, <1>4
<1> HIDE DEF x, f, d
<1>6. x \div 2 \in Nat /\ x \div 2 >= MinExp * f
  BY <1>3, <1>5
<1>7. min_VO = MinExp * f /\ max_VO = x \div 2
  BY DEF min_VO, max_VO, f, d, x
<1>8. max_VO - min_VO \in Nat
  BY <1>3, <1>6, <1>7
<1>9. (max_VO - min_VO) \div VOSteps \in Nat
  BY <1>8, TuningAssumption
<1> QED BY <1>3, <1>6, <1>7, <1>9 DEF VO_delta

\* A search gives a recall.
LEMMA RecallsType ==
  ASSUME TuningType, NEW ef, NEW r \in Recalls(ef)
  PROVE  r \in 0 .. MaxRecall
BY TuningAssumption DEF TuningType, Recalls

\* The values that a reset and a start write.
LEMMA FirstValues ==
  /\ 0 \in 0 .. MaxRecall /\ -1 \in -1 .. MaxRecall /\ 0 \in 0 .. Rounds
  /\ 0 \in Nat /\ 0 \in Int /\ -1 \in Int /\ top_k \in Int
  /\ TRUE \in BOOLEAN /\ FALSE \in BOOLEAN
BY TuningAssumption

\* Nothing is going on.
LEMMA RestInv == ASSUME CostsKnown', Rest PROVE TuningInv'
<1>1. TuningType'
  BY FirstValues, Zenon DEF Rest, ClearBracket, ClearMeasured, TuningType
<1> QED BY <1>1 DEF Rest, ClearBracket, TuningInv, ProbeInv, SweepInv, BracketInv, ChooseInv, RestingInv

LEMMA InitInv == TuningInit => TuningInv
<1> SUFFICES ASSUME TuningInit PROVE TuningInv
  OBVIOUS
<1>1. TuningType
  BY FirstValues, Zenon DEF TuningInit, TuningType, CostsKnown
<1> QED BY <1>1 DEF TuningInit, TuningInv, ProbeInv, SweepInv, BracketInv, ChooseInv, RestingInv

\* The next overhead starts at the smallest width.
LEMMA ProbeFirstInv ==
  ASSUME CostsKnown', NEW v \in Nat, ProbeFirst(v), target' \in 0 .. MaxRecall,
         adaptive' \in BOOLEAN, round' \in 0 .. Rounds
  PROVE  TuningInv'
<1>1. TuningType'
  BY FirstValues, Zenon DEF ProbeFirst, ClearBracket, ClearMeasured, TuningType
<1>2. ProbeInv'
  BY TuningAssumption DEF ProbeFirst, ClearBracket, ProbeInv
<1> QED BY <1>1, <1>2 DEF ProbeFirst, TuningInv, SweepInv, BracketInv, ChooseInv, RestingInv

LEMMA EndOfOverheadInv ==
  ASSUME TuningInv, EndOfOverhead, UNCHANGED costs
  PROVE  TuningInv'
<1>1. CostsKnown /\ CostsKnown' /\ round \in 0 .. Rounds /\ vo \in Nat
      /\ target \in 0 .. MaxRecall /\ adaptive \in BOOLEAN
  BY DEF TuningInv, TuningType, CostsKnown, costs
<1>2. min_VO \in Nat /\ vo + VO_delta \in Nat
  BY <1>1, Overheads
<1>3. CASE ProbeFirst(vo + VO_delta) /\ UNCHANGED <<adaptive, target, round>>
  BY <1>1, <1>2, <1>3, ProbeFirstInv
<1>4. CASE round < Rounds /\ ProbeFirst(min_VO) /\ round' = round + 1
           /\ UNCHANGED <<adaptive, target>>
  <2>1. round' \in 0 .. Rounds
    BY <1>1, <1>4, TuningAssumption
  <2> QED BY <1>1, <1>2, <1>4, <2>1, ProbeFirstInv
<1>5. CASE Rest
  BY <1>1, <1>5, RestInv
<1> QED BY <1>3, <1>4, <1>5 DEF EndOfOverhead
-----------------------------------------------------------------------------
(* Steps                                                                    *)

LEMMA StartTuningInv == ASSUME TuningInv, StartTuning PROVE TuningInv'
<1>1. CostsKnown /\ CostsKnown'
  BY DEF TuningInv, TuningType, CostsKnown, StartTuning, costs
<1>2. min_VO \in Nat
  BY <1>1, Overheads
<1> QED BY <1>1, <1>2, ProbeFirstInv, TuningAssumption DEF StartTuning

LEMMA ProbeAboveInv == ASSUME TuningInv, ProbeAbove PROVE TuningInv'
<1>1. PICK r \in Recalls(efSearch) : r > target /\ high' = efSearch /\ atHigh' = r
  BY DEF ProbeAbove
<1>2. r \in 0 .. MaxRecall
  BY <1>1, RecallsType DEF TuningInv
<1>3. /\ UNCHANGED <<costs, adaptive, target, low, atLow, overheads>> /\ phase = "probe"
      /\ \/ low = -1 /\ phase' = "test" /\ UNCHANGED <<widening, measured, verified>>
         \/ low # -1 /\ StartBisection(TRUE)
  BY DEF ProbeAbove
<1>4. TuningType'
  <2>1. r \in -1 .. MaxRecall /\ efSearch \in Int
    BY <1>2 DEF TuningInv, TuningType
  <2>2. CASE phase' = "test" /\ UNCHANGED <<widening, measured, verified>>
    BY <1>1, <1>3, <2>1, <2>2, FirstValues, Zenon
       DEF TuningInv, TuningType, CostsKnown, costs, overheads, widening, measured
  <2>3. CASE StartBisection(TRUE)
    BY <1>1, <1>3, <2>1, <2>3, FirstValues, Zenon
       DEF TuningInv, TuningType, CostsKnown, costs, overheads, StartBisection,
           ClearMeasured
  <2> QED BY <1>3, <2>2, <2>3
<1>5. BracketInv'
  <2>1. CASE low # -1 /\ StartBisection(TRUE)
    <3>1. low >= top_k /\ low < efSearch /\ atLow \in 0 .. target
      BY <1>3, <2>1 DEF TuningInv, ProbeInv
    <3>2. r \in target .. MaxRecall
      BY <1>1, <1>2 DEF TuningInv, TuningType
    <3> QED BY <1>1, <1>3, <2>1, <3>1, <3>2
            DEF BracketInv, StartBisection, ClearMeasured
  <2>2. CASE phase' = "test"
    BY <2>2 DEF BracketInv
  <2> QED BY <1>3, <2>1, <2>2
<1>6. phase' \in {"test", "bisect"}
  BY <1>3 DEF StartBisection
<1> QED BY <1>4, <1>5, <1>6 DEF TuningInv, ProbeInv, SweepInv, ChooseInv, RestingInv

LEMMA ProbeBelowInv == ASSUME TuningInv, ProbeBelow PROVE TuningInv'
<1>1. PICK r \in Recalls(efSearch) :
        r <= target /\ low' = efSearch /\ atLow' = r /\ prev_recall' = r
  BY DEF ProbeBelow
<1>2. r \in 0 .. MaxRecall
  BY <1>1, RecallsType DEF TuningInv
<1>3. /\ efSearch' = 2 * efSearch /\ phase = "probe"
      /\ UNCHANGED <<costs, phase, adaptive, target, high, atHigh, verified, measured,
                     overheads>>
  BY DEF ProbeBelow
<1>4. efSearch >= top_k /\ efSearch \in Int /\ top_k \in Nat /\ top_k > 1
  BY <1>3, TuningAssumption DEF TuningInv, TuningType, ProbeInv
<1>5. TuningType'
  BY <1>1, <1>2, <1>3, <1>4
     DEF TuningInv, TuningType, CostsKnown, costs, overheads, measured
<1>6. ProbeInv'
  <2>1. r \in 0 .. target
    BY <1>1, <1>2 DEF TuningInv, TuningType
  <2> QED BY <1>1, <1>3, <1>4, <2>1 DEF ProbeInv
<1> QED BY <1>3, <1>5, <1>6 DEF TuningInv, SweepInv, BracketInv, ChooseInv, RestingInv

LEMMA ProbeTooLongInv == ASSUME TuningInv, ProbeTooLong PROVE TuningInv'
BY EndOfOverheadInv DEF ProbeTooLong

LEMMA TestInv == ASSUME TuningInv, Test PROVE TuningInv'
BY EndOfOverheadInv DEF Test

LEMMA BisectInv == ASSUME TuningInv, Bisect PROVE TuningInv'
<1> DEFINE mid == (low + high) \div 2
<1>1. PICK r \in Recalls(mid) :
        \/ /\ r <= target
           /\ low' = mid /\ atLow' = r /\ recall_min_pos' = r
           /\ UNCHANGED <<high, atHigh, recall_max_pos>>
        \/ /\ r > target
           /\ high' = mid /\ atHigh' = r /\ recall_max_pos' = r
           /\ UNCHANGED <<low, atLow, recall_min_pos>>
  BY DEF Bisect
<1>2. r \in 0 .. MaxRecall
  BY <1>1, RecallsType DEF TuningInv
<1>3. /\ phase = "bisect" /\ low + 1 < high
      /\ UNCHANGED <<costs, phase, adaptive, target, widening, verified, overheads>>
  BY DEF Bisect
<1>4. low \in Int /\ high \in Int /\ target \in 0 .. MaxRecall /\ MaxRecall \in Nat
      /\ atLow \in -1 .. MaxRecall /\ atHigh \in -1 .. MaxRecall
      /\ recall_min_pos \in -1 .. MaxRecall /\ recall_max_pos \in -1 .. MaxRecall
  BY TuningAssumption DEF TuningInv, TuningType
<1>5. mid \in Int /\ low < mid /\ mid < high
  BY <1>3, <1>4
<1> HIDE DEF mid
<1>6. TuningType'
  <2>1. r \in -1 .. MaxRecall
    BY <1>2
  <2>2. /\ low' \in Int /\ high' \in Int
        /\ atLow' \in -1 .. MaxRecall /\ atHigh' \in -1 .. MaxRecall
        /\ recall_min_pos' \in -1 .. MaxRecall /\ recall_max_pos' \in -1 .. MaxRecall
    BY <1>1, <1>4, <1>5, <2>1
  <2> QED BY <1>3, <2>2, Zenon
          DEF TuningInv, TuningType, CostsKnown, costs, overheads, widening
<1>7. BracketInv'
  <2> SUFFICES ASSUME verified
               PROVE  /\ low' >= top_k /\ low' < high'
                      /\ atLow' \in 0 .. target /\ atHigh' \in target .. MaxRecall
                      /\ recall_min_pos' \in {-1, atLow'}
                      /\ recall_max_pos' \in {-1, atHigh'}
    BY <1>3 DEF BracketInv
  <2>1. /\ low >= top_k /\ low < high
        /\ atLow \in 0 .. target /\ atHigh \in target .. MaxRecall
        /\ recall_min_pos \in {-1, atLow} /\ recall_max_pos \in {-1, atHigh}
    BY <1>3 DEF TuningInv, BracketInv
  <2> QED BY <1>1, <1>2, <1>4, <1>5, <2>1, TuningAssumption
<1> QED BY <1>3, <1>6, <1>7 DEF TuningInv, ProbeInv, SweepInv, ChooseInv, RestingInv

\* What was measured at an end is what it gives when it is asked again.
LEMMA EndsRepeat ==
  ASSUME TuningInv, phase = "bisect", verified, Deterministic
  PROVE  Recalls(low) = {atLow} /\ Recalls(high) = {atHigh}
<1>1. /\ low >= top_k /\ low < high /\ low \in Int /\ high \in Int /\ top_k \in Nat
      /\ atLow \in 0 .. target /\ atHigh \in target .. MaxRecall /\ target \in 0 .. MaxRecall
  BY TuningAssumption DEF TuningInv, TuningType, BracketInv
<1>2. atLow >= 0 /\ atHigh >= 0
  BY <1>1
<1>3. Width(low) = low /\ Width(high) = high /\ Width(high) # Width(low)
  BY <1>1 DEF Width
<1> QED BY <1>2, <1>3 DEF Recalls

LEMMA MeasureEndsInv == ASSUME TuningInv, MeasureEnds PROVE TuningInv'
<1>1. PICK lo \in Recalls(low), hi \in Recalls(high) :
        /\ recall_min_pos' = IF recall_min_pos = -1 THEN lo ELSE recall_min_pos
        /\ recall_max_pos' = IF recall_max_pos = -1 THEN hi ELSE recall_max_pos
  BY DEF MeasureEnds
<1>2. lo \in 0 .. MaxRecall /\ hi \in 0 .. MaxRecall
  BY <1>1, RecallsType DEF TuningInv
<1>3. /\ phase = "bisect" /\ low + 1 >= high /\ phase' = "choose"
      /\ UNCHANGED <<costs, adaptive, target, widening, bracket, verified, overheads>>
  BY DEF MeasureEnds
<1>4. TuningType'
  <2>1. lo \in -1 .. MaxRecall /\ hi \in -1 .. MaxRecall
    BY <1>2
  <2>2. /\ recall_min_pos' \in -1 .. MaxRecall /\ recall_max_pos' \in -1 .. MaxRecall
    BY <1>1, <2>1 DEF TuningInv, TuningType
  <2> QED BY <1>3, <2>2, Zenon
          DEF TuningInv, TuningType, CostsKnown, costs, overheads, widening, bracket
<1>5. BracketInv'
  BY <1>3 DEF TuningInv, BracketInv, bracket
<1>6. Deterministic' <=> Deterministic
  BY <1>3 DEF Deterministic, Known, costs
<1>7. ChooseInv'
  <2> SUFFICES ASSUME verified
               PROVE  /\ high = low + 1
                      /\ Deterministic => recall_min_pos' = atLow /\ recall_max_pos' = atHigh
    BY <1>3, <1>6 DEF ChooseInv, bracket
  <2>1. /\ low < high /\ low \in Int /\ high \in Int
        /\ recall_min_pos \in {-1, atLow} /\ recall_max_pos \in {-1, atHigh}
    BY <1>3 DEF TuningInv, TuningType, BracketInv
  <2>2. high = low + 1
    BY <1>3, <2>1
  <2>3. ASSUME Deterministic PROVE recall_min_pos' = atLow /\ recall_max_pos' = atHigh
    <3>1. lo = atLow /\ hi = atHigh
      BY <1>1, <1>3, <2>3, EndsRepeat
    <3> QED BY <1>1, <2>1, <3>1
  <2> QED BY <2>2, <2>3
<1> QED BY <1>3, <1>4, <1>5, <1>7 DEF TuningInv, ProbeInv, SweepInv, RestingInv

LEMMA ChooseKeepsInv == ASSUME TuningInv, Choose PROVE TuningInv'
<1>1. CostsKnown'
  BY DEF Choose, costs, TuningInv, TuningType, CostsKnown
<1>2. CASE Rest
  BY <1>1, <1>2, RestInv
<1>3. CASE ~Rest
  <2>1. /\ efSearch' \in {low, high} /\ phase' = "test"
        /\ UNCHANGED <<adaptive, target, prev_recall, bracket, verified, measured,
                       overheads>>
    BY <1>3 DEF Choose
  <2>2. efSearch' \in Int
    BY <2>1 DEF TuningInv, TuningType
  <2>3. TuningType'
    BY <1>1, <2>1, <2>2, Zenon
       DEF TuningInv, TuningType, bracket, measured, overheads
  <2> QED BY <2>1, <2>3 DEF TuningInv, ProbeInv, SweepInv, BracketInv, ChooseInv, RestingInv
<1> QED BY <1>2, <1>3

-----------------------------------------------------------------------------
(* The steps of the evaluation programs                                     *)

\* The sweep starts without a bracket.
LEMMA StartSweepInv == ASSUME TuningInv, StartSweep PROVE TuningInv'
<1>1. PICK ef \in InitEfs : efSearch' = (3 * ef) \div 2
  BY DEF StartSweep
<1>2. efSearch' \in Int
  BY <1>1, TuningAssumption
<1>3. /\ phase' = "sweep" /\ prev_recall' \in 0 .. MaxRecall
      /\ UNCHANGED <<costs, adaptive, target, bracket, verified, measured, overheads>>
  BY DEF StartSweep
<1>4. TuningType'
  BY <1>2, <1>3, Zenon
     DEF TuningInv, TuningType, CostsKnown, costs, bracket, measured, overheads
<1>5. SweepInv'
  BY <1>3 DEF SweepInv, bracket, TuningInv, RestingInv, StartSweep
<1> QED BY <1>3, <1>4, <1>5 DEF TuningInv, ProbeInv, BracketInv, ChooseInv, RestingInv

\* The bracket that the sweep hands over has ends on both sides of both targets.
LEMMA SweepKeepsInv == ASSUME TuningInv, Sweep PROVE TuningInv'
<1>1. PICK r \in SweepRecalls :
        /\ \/ /\ r < TargetLower /\ low' = efSearch /\ atLow' = r
              /\ UNCHANGED <<high, atHigh>>
           \/ /\ r >= TargetHigher /\ high' = efSearch /\ atHigh' = r
              /\ UNCHANGED <<low, atLow>>
           \/ UNCHANGED bracket
        /\ \/ /\ r < TargetHigher /\ r > prev_recall
              /\ prev_recall' = r /\ efSearch' = (3 * efSearch) \div 2
              /\ UNCHANGED <<phase, target, verified, measured>>
           \/ /\ r >= TargetHigher \/ r <= prev_recall
              /\ target' \in {TargetLower, TargetHigher}
              /\ StartBisection(atLow' >= 0 /\ atHigh' >= 0)
  BY DEF Sweep
<1>2. phase = "sweep" /\ UNCHANGED <<costs, adaptive, overheads>>
  BY DEF Sweep
<1>3. /\ TuningType /\ atHigh = -1 /\ efSearch \in Int /\ low \in Int
      /\ atLow >= 0 => low >= top_k /\ low < efSearch /\ atLow < TargetLower
      /\ efSearch <= top_k => atLow = -1
  BY <1>2 DEF TuningInv, SweepInv, TuningType
<1>4. /\ r \in 0 .. MaxRecall /\ atLow \in -1 .. MaxRecall
      /\ efSearch <= top_k => r = prev_recall
  BY <1>1, <1>3 DEF SweepRecalls, TuningType
<1>5. /\ TargetLower \in 0 .. MaxRecall /\ TargetHigher \in TargetLower .. MaxRecall
      /\ TargetLower <= TargetHigher /\ top_k \in Nat /\ top_k > 1 /\ MaxRecall \in Nat
  BY TuningAssumption
<1>6. /\ low' \in Int /\ high' \in Int /\ r \in -1 .. MaxRecall
      /\ atLow' \in -1 .. MaxRecall /\ atHigh' \in -1 .. MaxRecall
  <2>1. r \in -1 .. MaxRecall
    BY <1>4
  <2> QED BY <1>1, <1>3, <2>1, Zenon DEF TuningType, bracket
<1>7. CASE /\ r < TargetHigher /\ r > prev_recall
           /\ prev_recall' = r /\ efSearch' = (3 * efSearch) \div 2
           /\ UNCHANGED <<phase, target, verified, measured>>
  <2>1. prev_recall \in 0 .. MaxRecall
    BY <1>3 DEF TuningType
  <2>2. efSearch > top_k
    BY <1>3, <1>4, <1>5, <1>7, <2>1
  <2>3. efSearch' \in Int /\ efSearch' > efSearch
    BY <1>3, <1>5, <1>7, <2>2
  <2>4. TuningType'
    BY <1>2, <1>3, <1>4, <1>6, <1>7, <2>3, Zenon
       DEF TuningType, CostsKnown, costs, overheads, measured
  <2>5. \/ low' = efSearch /\ atLow' = r /\ r < TargetLower /\ atHigh' = -1
        \/ low' = low /\ atLow' = atLow /\ atHigh' = -1
    <3>1. ~(r >= TargetHigher)
      BY <1>4, <1>5, <1>7
    <3> QED BY <1>1, <1>3, <3>1 DEF bracket
  <2>6. SweepInv'
    BY <1>3, <1>4, <1>5, <2>2, <2>3, <2>5 DEF SweepInv
  <2> QED BY <1>2, <1>7, <2>4, <2>6
          DEF TuningInv, ProbeInv, BracketInv, ChooseInv, RestingInv
<1>8. CASE /\ target' \in {TargetLower, TargetHigher}
           /\ StartBisection(atLow' >= 0 /\ atHigh' >= 0)
  <2>1. target' \in 0 .. MaxRecall /\ target' \in TargetLower .. TargetHigher
    BY <1>5, <1>8
  <2>2. /\ phase' = "bisect" /\ recall_min_pos' = -1 /\ recall_max_pos' = -1
        /\ efSearch' = 0 /\ prev_recall' = 0 /\ verified' = (atLow' >= 0 /\ atHigh' >= 0)
    BY <1>8 DEF StartBisection, ClearMeasured
  <2>3. verified' \in BOOLEAN
    BY <2>2
  <2>4. TuningType'
    BY <1>2, <1>3, <1>6, <2>1, <2>2, <2>3, FirstValues, Zenon
       DEF TuningType, CostsKnown, costs, overheads
  <2>5. ASSUME verified'
        PROVE  /\ low' >= top_k /\ low' < high'
               /\ atLow' \in 0 .. target' /\ atHigh' \in target' .. MaxRecall
    <3>1. atLow' >= 0 /\ atHigh' >= 0
      BY <2>2, <2>5
    <3>2. r >= TargetHigher /\ high' = efSearch /\ atHigh' = r /\ UNCHANGED <<low, atLow>>
      BY <1>1, <1>3, <3>1 DEF bracket
    <3> QED BY <1>3, <1>4, <1>5, <2>1, <3>1, <3>2
  <2>6. BracketInv'
    BY <2>2, <2>5 DEF BracketInv
  <2> QED BY <2>2, <2>4, <2>6 DEF TuningInv, ProbeInv, SweepInv, ChooseInv, RestingInv
<1> QED BY <1>1, <1>7, <1>8

LEMMA NoUpperEndInv == ASSUME TuningInv, NoUpperEnd PROVE TuningInv'
<1>1. CostsKnown'
  BY DEF NoUpperEnd, costs, TuningInv, TuningType, CostsKnown
<1> QED BY <1>1, RestInv DEF NoUpperEnd

LEMMA QueryFixedInv == ASSUME TuningInv, QueryFixed PROVE TuningInv'
<1>1. /\ low' = 0 /\ high' = FixedHigher /\ atLow' = -1 /\ atHigh' = -1
      /\ target' \in {TargetLower, TargetHigher} /\ adaptive' = TRUE
      /\ phase' = "bisect" /\ recall_min_pos' = -1 /\ recall_max_pos' = -1
      /\ efSearch' = 0 /\ prev_recall' = 0 /\ verified' = FALSE
      /\ UNCHANGED <<costs, overheads>>
  BY DEF QueryFixed, StartBisection, ClearMeasured
<1>2. target' \in 0 .. MaxRecall /\ FixedHigher \in Int
  BY <1>1, TuningAssumption
<1>3. TuningType'
  BY <1>1, <1>2, FirstValues, Zenon
     DEF TuningInv, TuningType, CostsKnown, costs, overheads
<1> QED BY <1>1, <1>3
        DEF TuningInv, ProbeInv, SweepInv, BracketInv, ChooseInv, RestingInv

\* The profiling of the costs touches nothing else.
LEMMA ProfiledInv ==
  ASSUME TuningInv, phase = "off", phase' = "profiled", CostsKnown',
         UNCHANGED <<adaptive, target, widening, bracket, verified, measured, overheads>>
  PROVE  TuningInv'
<1>1. TuningType'
  BY Zenon DEF TuningInv, TuningType, widening, bracket, measured, overheads
<1> QED BY <1>1 DEF TuningInv, ProbeInv, SweepInv, BracketInv, ChooseInv, RestingInv,
                    bracket

\* A step that leaves the tuning alone.
LEMMA TuningStutters == TuningInv /\ UNCHANGED tuningVars => TuningInv'
<1> SUFFICES ASSUME TuningInv, UNCHANGED tuningVars PROVE TuningInv'
  OBVIOUS
<1>1. UNCHANGED <<costs, phase, adaptive, target, widening, bracket, verified,
                  measured, overheads>>
  BY DEF tuningVars
<1>2. /\ UNCHANGED <<filter_time_ns, dist_comp_ns, efSearch, prev_recall, vo, round>>
      /\ UNCHANGED <<low, high, atLow, atHigh, recall_min_pos, recall_max_pos>>
  BY <1>1 DEF costs, widening, bracket, measured, overheads
<1>3. TuningType'
  BY <1>1, <1>2, Zenon DEF TuningInv, TuningType, CostsKnown
<1>4. ProbeInv' /\ SweepInv' /\ RestingInv'
  BY <1>1, <1>2 DEF TuningInv, ProbeInv, SweepInv, RestingInv
<1>5. BracketInv' /\ ChooseInv'
  BY <1>1, <1>2 DEF TuningInv, BracketInv, ChooseInv, Deterministic, Known
<1> QED BY <1>3, <1>4, <1>5 DEF TuningInv

-----------------------------------------------------------------------------
(* The marks of the visited table: its bytes answer like VisitedSet, for a   *)
(* table of any size and any even number of queries between two clearings   *)

Even(x) == \E k \in Nat : x = 2 * k

\* No mark is newer than the query; a search with two marks stays on even
\* numbers, so that it meets Wrap exactly.
TableInv ==
  /\ visited \in [DOMAIN visited -> 0 .. Wrap - 1] /\ DOMAIN visited \subseteq Nat
  /\ visno \in 1 .. Wrap - 1 /\ twoStates \in BOOLEAN
  /\ passes \subseteq DOMAIN visited
  /\ \A p \in DOMAIN visited : visited[p] <= visno
  /\ ~twoStates => passes = DOMAIN visited
  /\ twoStates => visno >= 2 /\ Even(visno)

\* a step of the table
TableStep ==
  \/ \E n \in Nat : NewTable(n)
  \/ \E p \in DOMAIN visited : Visit(p) \/ Evaluate(p)
  \/ NextQuery \/ DropTable

\* A table of the right shape is what TypeOK asks for.
LEMMA TableInvType == TableInv => TableTypeOK
BY DEF TableInv, TableTypeOK

\* Wrap is twice something.
LEMMA WrapEven == Even(Wrap)
<1>1. Wrap \in Nat /\ Wrap % 2 = 0
  BY WrapAssumption
<1>2. Wrap = 2 * (Wrap \div 2) /\ Wrap \div 2 \in Nat
  BY <1>1
<1> QED BY <1>2 DEF Even

\* A number below Wrap fits in a byte.
LEMMA FitsInByte == ASSUME NEW v \in 0 .. Wrap - 1 PROVE v % ByteSize = v
BY WrapAssumption

\* No table is a table of nothing.
LEMMA NoTableInv == NoTable => TableInv
<1> SUFFICES ASSUME NoTable PROVE TableInv
  OBVIOUS
<1>1. visited = << >> /\ DOMAIN visited = {} /\ visited \in [{} -> 0 .. Wrap - 1]
  BY DEF NoTable
<1>2. Even(2)
  BY DEF Even
<1>3. passes = {} /\ visno = 2 /\ twoStates = FALSE /\ visno \in 1 .. Wrap - 1
  BY WrapAssumption DEF NoTable
<1>4. \A p \in DOMAIN visited : visited[p] <= visno
  BY <1>1
<1> QED BY <1>1, <1>2, <1>3, <1>4, Zenon DEF TableInv

\* A new table has no mark of its first query.
LEMMA NewTableInv == ASSUME NEW n \in Nat, NewTable(n) PROVE TableInv'
<1>1. Even(2)
  BY DEF Even
<1>2. /\ DOMAIN visited' = 1 .. n /\ visited' \in [1 .. n -> 0 .. Wrap - 1]
      /\ \A p \in 1 .. n : visited'[p] = 0
  BY WrapAssumption DEF NewTable
<1>3. passes' \subseteq 1 .. n /\ (~twoStates' => passes' = 1 .. n)
  BY DEF NewTable
<1>4. visno' = 2 /\ twoStates' \in BOOLEAN
  BY DEF NewTable
<1>5. 1 .. n \subseteq Nat
  OBVIOUS
<1> QED BY <1>1, <1>2, <1>3, <1>4, <1>5, WrapAssumption DEF TableInv

\* A dropped table is a table of nothing.
LEMMA DropTableInv == DropTable => TableInv'
<1> SUFFICES ASSUME DropTable PROVE TableInv'
  OBVIOUS
<1>1. visited' = << >> /\ DOMAIN visited' = {} /\ visited' \in [{} -> 0 .. Wrap - 1]
  BY DEF DropTable
<1>2. passes' = {} /\ visno' = 2 /\ twoStates' = FALSE /\ visno' \in 1 .. Wrap - 1
  BY WrapAssumption DEF DropTable
<1>3. \A p \in DOMAIN visited' : visited'[p] <= visno'
  BY <1>1
<1> QED BY <1>1, <1>2, <1>3, Zenon DEF TableInv

\* A mark is at most visno.
LEMMA VisitInv ==
  ASSUME TableInv, NEW p \in DOMAIN visited, Visit(p) \/ Evaluate(p)
  PROVE  TableInv'
<1>1. PICK v \in {visno, visno - 1} :
        visited' = [visited EXCEPT ![p] = v % ByteSize]
  BY DEF Visit, Evaluate
<1>2. v \in 0 .. Wrap - 1 /\ v <= visno
  BY <1>1, WrapAssumption DEF TableInv
<1>3. visited' = [visited EXCEPT ![p] = v]
  BY <1>1, <1>2, FitsInByte
<1>4. UNCHANGED <<visno, twoStates, passes>>
  BY DEF Visit, Evaluate
<1>5. /\ DOMAIN visited' = DOMAIN visited
      /\ visited' \in [DOMAIN visited -> 0 .. Wrap - 1]
      /\ \A q \in DOMAIN visited : visited'[q] <= visno
  BY <1>2, <1>3 DEF TableInv
<1> QED BY <1>4, <1>5 DEF TableInv

\* What the next query finds: a table with older marks only.
LEMMA NextQueryFinds ==
  ASSUME TableInv, NextQuery
  PROVE  /\ TableInv'
         /\ DOMAIN visited' = DOMAIN visited
         /\ \A p \in DOMAIN visited :
              visited'[p] < (IF twoStates' THEN visno' - 1 ELSE visno')
<1> DEFINE next == visno + (IF twoStates THEN 2 ELSE 1)
<1>0. /\ twoStates' = twoStates
      /\ visno' = IF next # Wrap THEN next ELSE IF twoStates THEN 2 ELSE 1
      /\ visited' = IF next = Wrap THEN [p \in DOMAIN visited |-> 0] ELSE visited
      /\ passes' \in (IF twoStates THEN SUBSET DOMAIN visited ELSE {DOMAIN visited})
  BY DEF NextQuery
<1>1. next \in 1 .. Wrap
  <2>1. CASE ~twoStates
    BY <2>1, WrapAssumption DEF TableInv
  <2>2. CASE twoStates
    <3>1. PICK k \in Nat : visno = 2 * k
      BY <2>2 DEF TableInv, Even
    <3>2. PICK w \in Nat : Wrap = 2 * w
      BY WrapEven DEF Even
    <3>3. k < w
      BY <3>1, <3>2 DEF TableInv
    <3> QED BY <2>2, <3>1, <3>2, <3>3
  <2> QED BY <2>1, <2>2
<1>2. DOMAIN visited' = DOMAIN visited
  BY <1>0
<1>3. visited' \in [DOMAIN visited -> 0 .. Wrap - 1]
  BY <1>0, WrapAssumption DEF TableInv
<1>4. \A p \in DOMAIN visited :
        visited'[p] < (IF twoStates' THEN visno' - 1 ELSE visno')
  <2> SUFFICES ASSUME NEW p \in DOMAIN visited
               PROVE  visited'[p] < (IF twoStates' THEN visno' - 1 ELSE visno')
    OBVIOUS
  <2>1. visited[p] \in Int /\ visited[p] <= visno /\ visno \in Int /\ twoStates \in BOOLEAN
    BY DEF TableInv
  <2>2. CASE next = Wrap
    BY <1>0, <2>2
  <2>3. CASE next # Wrap
    BY <1>0, <2>1, <2>3
  <2> QED BY <2>2, <2>3
<1>5. visno' \in 1 .. Wrap - 1
  BY <1>0, <1>1, WrapAssumption
<1>6. twoStates' => visno' >= 2 /\ Even(visno')
  <2> SUFFICES ASSUME twoStates PROVE visno' >= 2 /\ Even(visno')
    BY <1>0
  <2>1. PICK k \in Nat : visno = 2 * k /\ visno >= 2
    BY DEF TableInv, Even
  <2>2. visno + 2 = 2 * (k + 1) /\ k + 1 \in Nat /\ 2 = 2 * 1
    BY <2>1
  <2>3. Even(visno + 2) /\ Even(2)
    BY <2>2 DEF Even
  <2>4. visno' = visno + 2 \/ visno' = 2
    BY <1>0
  <2> QED BY <2>1, <2>3, <2>4
<1>7. \A p \in DOMAIN visited : visited'[p] <= visno'
  <2> SUFFICES ASSUME NEW p \in DOMAIN visited PROVE visited'[p] <= visno'
    OBVIOUS
  <2>1. visited'[p] \in Int /\ visno' \in Int
    BY <1>3, <1>5
  <2> QED BY <1>4, <2>1
<1>8. /\ passes' \subseteq DOMAIN visited /\ (~twoStates' => passes' = DOMAIN visited)
      /\ twoStates' \in BOOLEAN /\ DOMAIN visited \subseteq Nat
  BY <1>0 DEF TableInv
<1>9. TableInv'
  BY <1>2, <1>3, <1>5, <1>6, <1>7, <1>8 DEF TableInv
<1> QED BY <1>2, <1>4, <1>9

\* Every step of a table keeps the invariant.
LEMMA TableInvStep == TableInv /\ TableStep => TableInv'
BY NewTableInv, VisitInv, NextQueryFinds, DropTableInv DEF TableStep
-----------------------------------------------------------------------------
\* The first state of the bytes is the first state of the set.
LEMMA MarksInit == NoTable => Marks!Init
<1> SUFFICES ASSUME NoTable PROVE Marks!Init
  OBVIOUS
<1>1. DOMAIN visited = {} /\ passes = {}
  BY DEF NoTable
<1>2. DOMAIN Verdict = {} /\ Verdict = [p \in DOMAIN Verdict |-> "none"]
  BY <1>1 DEF Verdict
<1> QED BY <1>1, <1>2 DEF Marks!Init, Marks!NothingSeen

\* A table with older marks only is a set in which nothing was seen.
LEMMA OlderMarks ==
  ASSUME TableInv', \A p \in DOMAIN visited' :
           visited'[p] < (IF twoStates' THEN visno' - 1 ELSE visno')
  PROVE  Marks!Begin
<1>1. \A p \in DOMAIN visited' :
        visited'[p] # visno' /\ ~(twoStates' /\ visited'[p] >= visno' - 1)
  <2> SUFFICES ASSUME NEW p \in DOMAIN visited'
               PROVE  visited'[p] # visno' /\ ~(twoStates' /\ visited'[p] >= visno' - 1)
    OBVIOUS
  <2>1. visited'[p] \in Int /\ visno' \in Int /\ twoStates' \in BOOLEAN
    BY DEF TableInv
  <2> QED BY <2>1
<1>2. Verdict' = [p \in DOMAIN visited' |-> "none"]
  BY <1>1 DEF Verdict
<1>3. DOMAIN Verdict' = DOMAIN visited' /\ passes' \subseteq DOMAIN visited'
  BY <1>2 DEF TableInv
<1> QED BY <1>2, <1>3 DEF Marks!Begin, Marks!NothingSeen

\* A mark is the verdict of the filter of this query.
LEMMA VisitLooks ==
  ASSUME TableInv, NEW p \in DOMAIN visited, Visit(p) \/ Evaluate(p)
  PROVE  Marks!Look(p)
<1>1. visno - 1 \in 0 .. Wrap - 1 /\ visno \in 0 .. Wrap - 1 /\ visited[p] \in Int
  BY WrapAssumption DEF TableInv
<1>2. Verdict[p] = "none"
  BY <1>1 DEF Visit, Evaluate, Verdict
<1>3. visited' = [visited EXCEPT ![p] = IF p \in passes THEN visno ELSE visno - 1]
  <2>1. CASE Visit(p)
    BY <2>1, <1>1, FitsInByte DEF Visit, TableInv
  <2>2. CASE Evaluate(p)
    BY <2>2, <1>1, FitsInByte DEF Evaluate
  <2> QED BY <2>1, <2>2
<1>4. UNCHANGED <<visno, twoStates, passes>> /\ (~twoStates => p \in passes)
  BY DEF Visit, Evaluate, TableInv
<1>5. \A q \in DOMAIN visited : Verdict'[q] =
        IF q = p THEN (IF p \in passes THEN "pass" ELSE "fail") ELSE Verdict[q]
  <2> SUFFICES ASSUME NEW q \in DOMAIN visited
               PROVE  Verdict'[q] = IF q = p THEN (IF p \in passes THEN "pass" ELSE "fail")
                                    ELSE Verdict[q]
    OBVIOUS
  <2>1. DOMAIN visited' = DOMAIN visited
    BY <1>3
  <2>2. CASE q # p
    <3>1. visited'[q] = visited[q]
      BY <1>3, <2>2
    <3> QED BY <1>4, <2>1, <2>2, <3>1 DEF Verdict
  <2>3. CASE q = p
    <3>1. visited'[p] = IF p \in passes THEN visno ELSE visno - 1
      BY <1>3
    <3> QED BY <1>1, <1>4, <2>1, <2>3, <3>1 DEF Verdict, TableInv
  <2> QED BY <2>2, <2>3
<1>6. DOMAIN Verdict' = DOMAIN visited /\ DOMAIN Verdict = DOMAIN visited
  BY <1>3 DEF Verdict
<1>7. Verdict' = [Verdict EXCEPT ![p] = IF p \in passes THEN "pass" ELSE "fail"]
  <2>1. Verdict' = [q \in DOMAIN visited |-> Verdict'[q]]
    BY <1>6 DEF Verdict
  <2>2. Verdict = [q \in DOMAIN visited |-> Verdict[q]]
    BY DEF Verdict
  <2> QED BY <1>5, <2>1, <2>2
<1> QED BY <1>2, <1>4, <1>7 DEF Marks!Look

\* Every step of the bytes is a step of the set.
LEMMA TableStepRefines == TableInv /\ TableStep => Marks!Next
<1> SUFFICES ASSUME TableInv, TableStep PROVE Marks!Next
  OBVIOUS
<1>1. CASE \E n \in Nat : NewTable(n)
  <2>1. PICK n \in Nat : NewTable(n)
    BY <1>1
  <2>2. \A p \in DOMAIN visited' :
          visited'[p] < (IF twoStates' THEN visno' - 1 ELSE visno')
    BY <2>1 DEF NewTable
  <2> QED BY <2>1, <2>2, NewTableInv, OlderMarks DEF Marks!Next
<1>2. CASE \E p \in DOMAIN visited : Visit(p) \/ Evaluate(p)
  <2>1. PICK p \in DOMAIN visited : Visit(p) \/ Evaluate(p)
    BY <1>2
  <2>2. p \in DOMAIN Verdict
    BY DEF Verdict
  <2> QED BY <2>1, <2>2, VisitLooks DEF Marks!Next
<1>3. CASE NextQuery
  BY <1>3, NextQueryFinds, OlderMarks DEF Marks!Next
<1>4. CASE DropTable
  <2>1. DOMAIN visited' = {}
    BY <1>4 DEF DropTable
  <2> QED BY <1>4, <2>1, DropTableInv, OlderMarks DEF Marks!Next
<1> QED BY <1>1, <1>2, <1>3, <1>4 DEF TableStep

\* An untouched table is an untouched set.
LEMMA TableStutters == UNCHANGED tableVars => UNCHANGED <<Verdict, passes>>
BY DEF tableVars, Verdict

-----------------------------------------------------------------------------
(* The invariant                                                            *)

Remembered == Settings \cup {NotLinked}

Uniform(t) == \A p \in Linked(t) :
  /\ t.links[p].efConstruction = t.efConstruction
  /\ t.links[p].use_only_expanding_idx = t.use_only_expanding_idx

\* an index that the programs may have in memory
IsIndex(t) ==
  /\ DOMAIN t = DOMAIN NewIndex /\ IsTable(t, Remembered)
  /\ Len(t.levels) <= MaxPoints
  /\ t.ntotal = Len(t.levels) /\ t.nstored = Len(t.levels)
  /\ t.entry_point \in 0 .. MaxPoints /\ t.max_level \in -1 .. TopLevel
  /\ t.entry_point # 0 => t.max_level >= 0
  /\ Chosen(t) \in Settings

IndexInv(t) == IsIndex(t) /\ Laid(t) /\ Fits(t) /\ Uniform(t)

ProgramInv ==
  /\ program \in {"none", "building", "saving", "profiling", "evaluating", "acorn"}
  /\ program # "building" => Idle(index)
  /\ program = "saving" => saved = index

\* Each field is what the saved index had in it.
FileInv ==
  /\ file \in Seq({saved[x] : x \in DOMAIN saved}) /\ Len(file) <= Len(WriteOrder)
  /\ \A i \in 1 .. Len(file) : file[i] = saved[WriteOrder[i]]

LifeInv == ProgramInv /\ FileInv /\ IndexInv(index) /\ IndexInv(saved) /\ Idle(saved)

Inv == LifeInv /\ TableInv /\ TuningInv

-----------------------------------------------------------------------------
(* The index in memory                                                      *)

\* How the lists tile the arrays depends on where they begin and end only.
LEMMA SameTiles ==
  ASSUME NEW t, Tiles(t), NEW u,
         u.levels = t.levels, u.offsets = t.offsets, u.nslots = t.nslots,
         DOMAIN u.boundaries = DOMAIN t.boundaries,
         u.offset_neighbor = t.offset_neighbor
  PROVE  /\ Tiles(u) /\ Lists(u) = Lists(t)
         /\ \A p, l : BoundarySlot(u, p, l) = BoundarySlot(t, p, l)
<1>1. Lists(u) = Lists(t)
  BY DEF Lists, Placed
<1>2. \A p, l : /\ neighbor_range(u, p, l) = neighbor_range(t, p, l)
                /\ BoundarySlot(u, p, l) = BoundarySlot(t, p, l)
  BY DEF neighbor_range, BoundarySlot
<1>3. {BoundarySlot(u, x[1], x[2]) : x \in Lists(u)}
        = {BoundarySlot(t, x[1], x[2]) : x \in Lists(t)}
  BY <1>1, <1>2
<1>4. Len(u.offset_neighbor) = Len(u.offsets)
  BY DEF Tiles
<1>5. \A x, y \in Lists(u) : x # y =>
        /\ neighbor_range(u, x[1], x[2]) \cap neighbor_range(u, y[1], y[2]) = {}
        /\ BoundarySlot(u, x[1], x[2]) # BoundarySlot(u, y[1], y[2])
  BY <1>1, <1>2, SMTT(30) DEF Tiles
<1>6. \A x \in Lists(u) : neighbor_range(u, x[1], x[2]) \subseteq 0 .. u.nslots - 1
  BY <1>1, <1>2 DEF Tiles
<1>7. \A i \in 0 .. u.nslots - 1 : \E x \in Lists(u) : i \in neighbor_range(u, x[1], x[2])
  BY <1>1, <1>2 DEF Tiles
<1>8. DOMAIN u.boundaries = {BoundarySlot(u, x[1], x[2]) : x \in Lists(u)}
  BY <1>3 DEF Tiles
<1>9. Tiles(u)
  BY <1>4, <1>5, <1>6, <1>7, <1>8 DEF Tiles
<1> QED BY <1>1, <1>2, <1>9

\* What the layout says depends on the tables only.
LEMMA SameTable ==
  ASSUME NEW t, Laid(t), NEW u,
         u.levels = t.levels, u.offsets = t.offsets, u.nslots = t.nslots,
         Len(u.links) = Len(t.links), u.boundaries = t.boundaries,
         u.offset_neighbor = t.offset_neighbor
  PROVE  Laid(u) /\ (Fits(t) => Fits(u))
<1>1. Tiles(t)
  BY DEF Laid
<1>2. Tiles(u) /\ Lists(u) = Lists(t)
      /\ \A p, l : BoundarySlot(u, p, l) = BoundarySlot(t, p, l)
  BY <1>1, SameTiles
<1>3. Fits(t) => Fits(u)
  BY <1>2 DEF Fits
<1> QED BY <1>2, <1>3 DEF Laid

\* Boundaries that were written within the lists keep the layout.
LEMMA Rewritten ==
  ASSUME NEW t, Laid(t), Fits(t), NEW b, WrittenWithin(t, b), NEW u,
         u.levels = t.levels, u.offsets = t.offsets, u.nslots = t.nslots,
         Len(u.links) = Len(t.links), u.boundaries = b,
         u.offset_neighbor = t.offset_neighbor
  PROVE  Laid(u) /\ Fits(u)
<1>1. Tiles(t)
  BY DEF Laid
<1>2. DOMAIN u.boundaries = DOMAIN t.boundaries
  BY DEF WrittenWithin
<1>3. Tiles(u) /\ Lists(u) = Lists(t)
      /\ \A p, l : BoundarySlot(u, p, l) = BoundarySlot(t, p, l)
  BY <1>1, <1>2, SameTiles
<1>4. Fits(u)
  BY <1>1, <1>3, WrittenFits DEF Fits
<1> QED BY <1>2, <1>3, <1>4 DEF Laid

\* The settings of an index are settings.
LEMMA SettingsType ==
  ASSUME NEW t, Chosen(t) \in Settings
  PROVE  /\ t.efConstruction \in Nat /\ t.efConstructionExp \in Nat
         /\ t.use_only_expanding_idx \in BOOLEAN /\ t.use_optimized_building \in BOOLEAN
BY DEF Chosen, Settings

\* what a new index is but for its settings
IsEmpty(t) ==
  /\ t = [x \in DOMAIN t |-> t[x]] /\ DOMAIN t = DOMAIN NewIndex
  /\ t.levels = << >> /\ t.offsets = << 0 >> /\ t.nslots = 0 /\ t.links = << >>
  /\ t.boundaries = << >> /\ t.offset_neighbor = << 0 >>
  /\ t.ntotal = 0 /\ t.nstored = 0 /\ t.entry_point = 0 /\ t.max_level = -1

LEMMA EmptyInv ==
  ASSUME NEW t, IsEmpty(t), Chosen(t) \in Settings
  PROVE  IndexInv(t) /\ Idle(t)
<1>1. TableFields \subseteq DOMAIN t
  BY DEF IsEmpty, NewIndex, TableFields
<1>2. << >> \in Seq(1 .. TopLevel + 1) /\ << >> \in Seq(Remembered) /\ << 0 >> \in Seq(Nat)
  OBVIOUS
<1>3. IsTable(t, Remembered)
  BY <1>1, <1>2 DEF IsTable, IsEmpty
<1>4. Laid(t) /\ Fits(t)
  BY EmptyLaid DEF IsEmpty
<1>5. Linked(t) = {} /\ DOMAIN t.links = {}
  BY DEF Linked, IsEmpty
<1>6. IsIndex(t)
  BY <1>3, LifecycleAssumption, LevelTableAssumption DEF IsIndex, IsEmpty
<1>7. Idle(t)
  BY <1>5 DEF Idle, IsEmpty
<1> QED BY <1>4, <1>5, <1>6, <1>7 DEF IndexInv, Uniform

LEMMA NewIndexInv == IndexInv(NewIndex) /\ Idle(NewIndex)
<1>1. IsEmpty(NewIndex)
  BY DEF IsEmpty, NewIndex
<1>2. Chosen(NewIndex) = DefaultSettings
  BY LifecycleAssumption DEF Chosen, NewIndex, Settings
<1> QED BY <1>1, <1>2, EmptyInv, LifecycleAssumption

\* A new index is empty in any mode.
LEMMA ConfiguredInv ==
  ASSUME NEW s \in Settings
  PROVE  IndexInv(Configure(NewIndex, s)) /\ Idle(Configure(NewIndex, s))
<1> DEFINE t == Configure(NewIndex, s)
<1>1. IsEmpty(t)
  <2>1. t = [x \in DOMAIN t |-> t[x]] /\ DOMAIN t = DOMAIN NewIndex
    BY DEF Configure
  <2>2. /\ t.levels = << >> /\ t.offsets = << 0 >> /\ t.nslots = 0 /\ t.links = << >>
        /\ t.boundaries = << >> /\ t.offset_neighbor = << 0 >>
    BY DEF Configure, NewIndex
  <2>3. t.ntotal = 0 /\ t.nstored = 0 /\ t.entry_point = 0 /\ t.max_level = -1
    BY DEF Configure, NewIndex
  <2> QED BY <2>1, <2>2, <2>3 DEF IsEmpty
<1>2. Chosen(t) = s
  <2>1. /\ t.efConstruction = s.efConstruction
        /\ t.efConstructionExp = s.efConstructionExp
        /\ t.use_only_expanding_idx = s.use_only_expanding_idx
        /\ t.use_optimized_building = s.use_optimized_building
    BY DEF Configure, NewIndex
  <2> HIDE DEF t
  <2> QED BY <2>1 DEF Chosen, Settings
<1> QED BY <1>1, <1>2, EmptyInv

\* The levels of new points are at the end of the table.
LEMMA StartAddInv ==
  ASSUME NEW t, IndexInv(t), Idle(t), NEW n \in 1 .. MaxPoints - Len(t.levels),
         NEW lv \in [1 .. n -> 1 .. TopLevel + 1]
  PROVE  IndexInv([DrawLevels(t, lv) EXCEPT !.nstored = @ + n, !.ntotal = t.nstored + n])
<1> DEFINE d == DrawLevels(t, lv)
           u == [d EXCEPT !.nstored = @ + n, !.ntotal = t.nstored + n]
<1>0. n \in Nat /\ MaxPoints \in Nat
  BY LifecycleAssumption DEF IndexInv, IsIndex, IsTable
<1>1. lv \in Seq(1 .. TopLevel + 1) /\ Len(lv) = n
  <2> DEFINE S == 1 .. TopLevel + 1
  <2>1. lv \in [1 .. n -> S]
    OBVIOUS
  <2> HIDE DEF S
  <2>2. lv \in Seq(S) /\ DOMAIN lv = 1 .. n
    BY <1>0, <2>1, SeqDef
  <2>3. Len(lv) = n
    BY <1>0, <2>2, LenProperties
  <2> QED BY <2>2, <2>3 DEF S
<1>2. IsTable(t, Remembered) /\ Laid(t) /\ Fits(t)
  BY DEF IndexInv, IsIndex
<1>3. IsTable(d, Remembered) /\ Laid(d) /\ Lists(d) = Lists(t)
  BY <1>1, <1>2, DrawKeepsLists
<1>4. Fits(d)
  BY <1>2, <1>3 DEF Fits, BoundarySlot, DrawLevels, IsTable, TableFields
<1> HIDE DEF d
<1>5. DOMAIN t = DOMAIN NewIndex /\ t = [x \in DOMAIN t |-> t[x]]
  BY <1>2 DEF IsTable, IndexInv, IsIndex
<1>6. /\ d = [t EXCEPT !.levels = t.levels \o lv] /\ DOMAIN d = DOMAIN t
      /\ d.levels = t.levels \o lv
      /\ \A x \in DOMAIN t \ {"levels"} : d[x] = t[x]
  BY <1>5 DEF d, DrawLevels, NewIndex
<1>7. /\ u = [x \in DOMAIN u |-> u[x]] /\ DOMAIN u = DOMAIN d
      /\ u.nstored = d.nstored + n /\ u.ntotal = t.nstored + n
      /\ \A x \in DOMAIN d \ {"nstored", "ntotal"} : u[x] = d[x]
  BY <1>5, <1>6 DEF NewIndex
<1> HIDE DEF u
<1>8. TableFields \subseteq DOMAIN d \ {"nstored", "ntotal"}
  BY <1>5, <1>6 DEF NewIndex, TableFields
<1>9. IsTable(u, Remembered)
  BY <1>3, <1>7, <1>8 DEF IsTable, TableFields
<1>10. Laid(u) /\ Fits(u)
  BY <1>3, <1>4, <1>7, <1>8, SameTable DEF TableFields
<1>11. /\ u.nstored = t.nstored + n /\ u.entry_point = t.entry_point
       /\ u.max_level = t.max_level /\ u.links = t.links /\ u.levels = t.levels \o lv
       /\ Chosen(u) = Chosen(t)
       /\ u.efConstruction = t.efConstruction
       /\ u.use_only_expanding_idx = t.use_only_expanding_idx
  BY <1>5, <1>6, <1>7 DEF NewIndex, Chosen
<1>12. Len(u.levels) = Len(t.levels) + n
  <2>1. t.levels \in Seq(1 .. TopLevel + 1)
    BY <1>2 DEF IsTable
  <2>2. Len(t.levels \o lv) = Len(t.levels) + Len(lv)
    BY <1>1, <2>1, ConcatProperties
  <2> QED BY <1>1, <1>11, <2>2
<1>13. IsIndex(u)
  <2>1. t.nstored = Len(t.levels) /\ Len(t.levels) \in Nat
    BY <1>2 DEF IndexInv, IsIndex, IsTable
  <2>2. Len(u.levels) <= MaxPoints
    BY <1>0, <1>12, <2>1
  <2> QED BY <1>5, <1>6, <1>7, <1>9, <1>11, <1>12, <2>1, <2>2 DEF IndexInv, IsIndex
<1>14. Uniform(u)
  BY <1>11 DEF IndexInv, Uniform, Linked
<1> QED BY <1>10, <1>13, <1>14 DEF IndexInv, u, d

\* The next point gets its ranges.
LEMMA PlaceInv ==
  ASSUME NEW t, IndexInv(t), Len(t.links) < Len(t.levels)
  PROVE  IndexInv(Place(t))
<1> DEFINE u == Place(t)
<1>1. IsTable(t, Remembered) /\ Laid(t) /\ Fits(t) /\ NotLinked \in Remembered
  BY DEF IndexInv, IsIndex, Remembered
<1>2. /\ IsTable(u, Remembered) /\ DOMAIN u = DOMAIN t /\ u.levels = t.levels
      /\ u.links = Append(t.links, NotLinked)
  BY <1>1, PlaceFields
<1>3. Laid(u) /\ Fits(u)
  BY <1>1, PlaceLaid, PlaceFits
<1>4. DOMAIN t = DOMAIN NewIndex
  BY DEF IndexInv, IsIndex
<1>5. \A x \in DOMAIN t \ TableFields : u[x] = t[x]
  BY <1>4 DEF Place, NewIndex, TableFields
<1>6. {"ntotal", "nstored", "entry_point", "max_level", "efConstruction",
       "efConstructionExp", "use_only_expanding_idx", "use_optimized_building"}
        \subseteq DOMAIN t \ TableFields
  BY <1>4 DEF NewIndex, TableFields
<1> HIDE DEF u
<1>7. IsIndex(u)
  BY <1>2, <1>4, <1>5, <1>6 DEF IndexInv, IsIndex, Chosen
<1>8. Linked(u) = Linked(t) /\ \A p \in Linked(t) : u.links[p] = t.links[p]
  <2>1. t.links \in Seq(Remembered) /\ NotLinked \in Remembered
    BY <1>1 DEF IsTable
  <2>2. /\ DOMAIN u.links = DOMAIN t.links \cup {Len(t.links) + 1}
        /\ \A p \in DOMAIN t.links : u.links[p] = t.links[p]
        /\ u.links[Len(t.links) + 1] = NotLinked
    BY <1>2, <2>1
  <2> QED BY <2>2 DEF Linked
<1>9. Uniform(u)
  BY <1>5, <1>6, <1>8 DEF IndexInv, Uniform
<1> QED BY <1>3, <1>7, <1>9 DEF IndexInv, u

\* What a link of p may write is within the lists.
LEMMA WritesWithin ==
  ASSUME NEW t, IndexInv(t), NEW p \in DOMAIN t.links
  PROVE  /\ WrittenWithin(t, t.boundaries)
         /\ \A b \in Linkings(t, p) : WrittenWithin(t, b)
         /\ t.entry_point # 0 => WrittenWithin(t, ExpandingBoundary(t, p).boundaries)
<1>1. IsTable(t, Remembered) /\ Laid(t) /\ t.boundaries \in [DOMAIN t.boundaries -> Nat]
  BY DEF IndexInv, IsIndex, IsTable
<1>2. WrittenWithin(t, t.boundaries)
  BY <1>1 DEF WrittenWithin
<1>3. ASSUME NEW b \in Linkings(t, p) PROVE WrittenWithin(t, b)
  <2>1. /\ b \in [DOMAIN t.boundaries -> Fill \cup {t.boundaries[i] : i \in DOMAIN t.boundaries}]
        /\ \A i \in DOMAIN t.boundaries :
             b[i] = t.boundaries[i] \/
             \E x \in Lists(t) : /\ i = BoundarySlot(t, x[1], x[2])
                                 /\ b[i] \in Fill /\ b[i] <= DistCap(x[2])
    BY DEF Linkings
  <2>2. Fill \cup {t.boundaries[i] : i \in DOMAIN t.boundaries} \subseteq Nat
    BY <1>1, LifecycleAssumption
  <2>3. b \in [DOMAIN t.boundaries -> Nat]
    BY <2>1, <2>2
  <2>4. ASSUME NEW i \in DOMAIN t.boundaries, NEW x \in Lists(t), b[i] <= DistCap(x[2])
        PROVE  b[i] <= cum_nb_neighbors(x[2] + 1) - cum_nb_neighbors(x[2])
    <3>1. x[2] \in Nat /\ b[i] \in Nat
      BY <2>3 DEF Lists
    <3>2. x[2] + 1 \in Nat
      BY <3>1
    <3>3. cum_nb_neighbors(x[2] + 1) \in Nat /\ cum_nb_neighbors(x[2]) \in Nat
      BY <3>1, <3>2, CumType
    <3> QED BY <2>4, <3>1, <3>3, CapFits
  <2> QED BY <2>1, <2>3, <2>4 DEF WrittenWithin
<1>4. ASSUME t.entry_point # 0
      PROVE  WrittenWithin(t, ExpandingBoundary(t, p).boundaries)
  <2>1. t.max_level \in 0 .. TopLevel
    BY <1>4, LevelTableAssumption DEF IndexInv, IsIndex
  <2>2. p \in Placed(t)
    <3>1. t.links \in Seq(Remembered) /\ Len(t.offsets) = Len(t.links) + 1
      BY <1>1 DEF IsTable, Laid
    <3>2. Len(t.offsets) - 1 = Len(t.links)
      BY <3>1
    <3> QED BY <3>1, <3>2 DEF Placed
  <2> QED BY <1>1, <2>1, <2>2, SetWithin DEF ExpandingBoundary
<1> QED BY <1>2, <1>3, <1>4

\* Linking a point remembers the settings of its graph, and changes boundaries
\* within their lists.
LEMMA InsertedInv ==
  ASSUME NEW t, IndexInv(t), NEW p \in DOMAIN t.links, NEW u \in Inserted(t, p)
  PROVE  IndexInv(u)
<1> DEFINE up == [t EXCEPT !.links[p] = Chosen(t),
                      !.entry_point = IF t.levels[p] - 1 > t.max_level THEN p ELSE @,
                      !.max_level = IF t.levels[p] - 1 > @ THEN t.levels[p] - 1 ELSE @]
<1>1. DOMAIN t = DOMAIN NewIndex /\ t = [x \in DOMAIN t |-> t[x]] /\ TableFields \subseteq DOMAIN t
  BY DEF IndexInv, IsIndex, IsTable
<1>2. /\ DOMAIN up = DOMAIN t /\ up = [x \in DOMAIN up |-> up[x]]
      /\ up.links = [t.links EXCEPT ![p] = Chosen(t)]
      /\ up.entry_point = IF t.levels[p] - 1 > t.max_level THEN p ELSE t.entry_point
      /\ up.max_level = IF t.levels[p] - 1 > t.max_level THEN t.levels[p] - 1 ELSE t.max_level
      /\ \A x \in DOMAIN t \ {"links", "entry_point", "max_level"} : up[x] = t[x]
  BY <1>1 DEF NewIndex
<1>3. \/ u = up
      \/ u = [up EXCEPT !.boundaries = ExpandingBoundary(t, p).boundaries] /\ t.entry_point # 0
      \/ \E b \in Linkings(t, p) : u = [up EXCEPT !.boundaries = b]
  BY DEF Inserted
<1> HIDE DEF up
<1>4. PICK b : /\ WrittenWithin(t, b) /\ u.boundaries = b /\ DOMAIN u = DOMAIN up
               /\ u = [x \in DOMAIN u |-> u[x]]
               /\ \A x \in DOMAIN up \ {"boundaries"} : u[x] = up[x]
  <2>1. CASE u = up
    <3>1. up.boundaries = t.boundaries
      BY <1>1, <1>2 DEF NewIndex
    <3> QED BY <1>2, <2>1, <3>1, WritesWithin
  <2>2. ASSUME NEW b, WrittenWithin(t, b), u = [up EXCEPT !.boundaries = b]
        PROVE  /\ u.boundaries = b /\ DOMAIN u = DOMAIN up
               /\ u = [x \in DOMAIN u |-> u[x]]
               /\ \A x \in DOMAIN up \ {"boundaries"} : u[x] = up[x]
    BY <1>1, <1>2, <2>2 DEF NewIndex
  <2> QED BY <1>3, <2>1, <2>2, WritesWithin
<1>5. /\ u.levels = t.levels /\ u.offsets = t.offsets /\ u.nslots = t.nslots
      /\ u.offset_neighbor = t.offset_neighbor /\ u.links = [t.links EXCEPT ![p] = Chosen(t)]
      /\ u.ntotal = t.ntotal /\ u.nstored = t.nstored
      /\ u.entry_point = up.entry_point /\ u.max_level = up.max_level
      /\ u.efConstruction = t.efConstruction
      /\ u.efConstructionExp = t.efConstructionExp
      /\ u.use_only_expanding_idx = t.use_only_expanding_idx
      /\ u.use_optimized_building = t.use_optimized_building
      /\ DOMAIN u = DOMAIN NewIndex
  BY <1>1, <1>2, <1>4 DEF NewIndex
<1>6. /\ t.links \in Seq(Remembered) /\ Chosen(t) \in Settings /\ Chosen(t) \in Remembered
      /\ p \in 1 .. Len(t.links)
  BY DEF IndexInv, IsIndex, IsTable, Remembered
<1>7. u.links \in Seq(Remembered) /\ Len(u.links) = Len(t.links)
  BY <1>5, <1>6, ExceptSeq
<1>8. IsTable(u, Remembered)
  <2>1. b \in [DOMAIN b -> Nat]
    BY <1>4 DEF WrittenWithin
  <2> QED BY <1>1, <1>4, <1>5, <1>7, <2>1 DEF IndexInv, IsIndex, IsTable
<1>9. Laid(u) /\ Fits(u)
  <2>1. Laid(t) /\ Fits(t)
    BY DEF IndexInv
  <2> QED BY <1>4, <1>5, <1>7, <2>1, Rewritten
<1>10. u.entry_point \in 0 .. MaxPoints /\ u.max_level \in -1 .. TopLevel
       /\ (u.entry_point # 0 => u.max_level >= 0)
  <2>0. t.levels \in Seq(1 .. TopLevel + 1) /\ t.links \in Seq(Remembered)
    BY DEF IndexInv, IsIndex, IsTable
  <2> DEFINE Level == 1 .. TopLevel + 1
  <2>4. Len(t.levels) \in Nat /\ Len(t.links) \in Nat
    <3>1. t.levels \in Seq(Level) /\ t.links \in Seq(Remembered)
      BY <2>0
    <3> HIDE DEF Level
    <3> QED BY <3>1, LenProperties
  <2>1. /\ t.levels \in Seq(1 .. TopLevel + 1) /\ Len(t.levels) \in Nat
        /\ Len(t.links) <= Len(t.levels) /\ Len(t.links) \in Nat /\ Len(t.levels) <= MaxPoints
        /\ MaxPoints \in Nat /\ TopLevel \in Nat
        /\ t.entry_point \in 0 .. MaxPoints /\ t.max_level \in -1 .. TopLevel
        /\ t.entry_point # 0 => t.max_level >= 0
    BY <2>0, <2>4, LifecycleAssumption, LevelTableAssumption DEF IndexInv, IsIndex, Laid
  <2>2. p \in 1 .. Len(t.levels) /\ p \in 1 .. MaxPoints
    BY <1>6, <2>1
  <2>3. t.levels[p] \in 1 .. TopLevel + 1
    BY <2>1, <2>2, ElementOfSeq
  <2> QED BY <1>2, <1>5, <2>1, <2>2, <2>3, SMTT(30)
<1>11. Chosen(u) = Chosen(t)
  BY <1>5 DEF Chosen
<1>12. IsIndex(u)
  BY <1>5, <1>6, <1>8, <1>10, <1>11 DEF IndexInv, IsIndex
<1>13. Uniform(u)
  <2> SUFFICES ASSUME NEW q \in Linked(u)
               PROVE  /\ u.links[q].efConstruction = u.efConstruction
                      /\ u.links[q].use_only_expanding_idx = u.use_only_expanding_idx
    BY DEF Uniform
  <2>1. DOMAIN u.links = DOMAIN t.links
    BY <1>5
  <2>2. CASE q = p
    <3>1. u.links[q] = Chosen(t)
      BY <1>5, <2>2
    <3> QED BY <1>5, <3>1 DEF Chosen
  <2>3. CASE q # p
    <3>1. u.links[q] = t.links[q] /\ q \in Linked(t)
      BY <1>5, <2>1, <2>3 DEF Linked
    <3> QED BY <1>5, <3>1 DEF IndexInv, Uniform
  <2> QED BY <2>2, <2>3
<1> QED BY <1>9, <1>12, <1>13 DEF IndexInv

-----------------------------------------------------------------------------
(* The file                                                                 *)

\* what reading gives of an index
Reread(t) == [t EXCEPT !.efConstructionExp = DefaultSettings.efConstructionExp,
                       !.use_optimized_building = DefaultSettings.use_optimized_building]

\* The fields are read in the order in which they were written.
LEMMA ReadWhatWasWritten ==
  ASSUME FileInv, Complete, IndexInv(saved)
  PROVE  ReadBack(file) = Reread(saved)
<1>1. /\ DOMAIN saved = DOMAIN NewIndex /\ saved = [x \in DOMAIN saved |-> saved[x]]
  BY DEF IndexInv, IsIndex, IsTable
<1>2. Len(WriteOrder) = 12 /\ DOMAIN ReadOrder = 1 .. 12 /\ WriteOrder = ReadOrder
  BY DEF WriteOrder, ReadOrder
<1>3. \A i \in DOMAIN ReadOrder : file[i] = saved[ReadOrder[i]]
  BY <1>2 DEF FileInv, Complete
<1> DEFINE WasWritten(x) == \E i \in DOMAIN ReadOrder : ReadOrder[i] = x
<1>4. ASSUME NEW x, WasWritten(x)
      PROVE  file[CHOOSE i \in DOMAIN ReadOrder : ReadOrder[i] = x] = saved[x]
  <2> DEFINE i == CHOOSE i \in DOMAIN ReadOrder : ReadOrder[i] = x
  <2>1. i \in DOMAIN ReadOrder /\ ReadOrder[i] = x
    BY <1>4
  <2> QED BY <1>3, <2>1
<1>5. /\ ReadOrder[1] = "ntotal" /\ ReadOrder[2] = "levels" /\ ReadOrder[3] = "offsets"
      /\ ReadOrder[4] = "nslots" /\ ReadOrder[5] = "links" /\ ReadOrder[6] = "boundaries"
      /\ ReadOrder[7] = "offset_neighbor" /\ ReadOrder[8] = "entry_point"
      /\ ReadOrder[9] = "max_level" /\ ReadOrder[10] = "efConstruction"
      /\ ReadOrder[11] = "use_only_expanding_idx" /\ ReadOrder[12] = "nstored"
  BY DEF ReadOrder
<1>6. \A i \in 1 .. 12 : i \in {1, 2, 3, 4, 5, 6, 7, 8, 9, 10, 11, 12}
  OBVIOUS
<1>7. ~WasWritten("efConstructionExp") /\ ~WasWritten("use_optimized_building")
  BY <1>2, <1>5, <1>6
<1>8. DOMAIN NewIndex = {"efConstructionExp", "use_optimized_building", "ntotal", "levels",
        "offsets", "nslots", "links", "boundaries", "offset_neighbor", "entry_point",
        "max_level", "efConstruction", "use_only_expanding_idx", "nstored"}
  BY DEF NewIndex
<1>9. \A x \in DOMAIN NewIndex \ {"efConstructionExp", "use_optimized_building"} :
        WasWritten(x)
  BY <1>2, <1>5, <1>8
<1>10. /\ ReadBack(file).efConstructionExp = NewIndex.efConstructionExp
       /\ ReadBack(file).use_optimized_building = NewIndex.use_optimized_building
       /\ \A x \in DOMAIN NewIndex \ {"efConstructionExp", "use_optimized_building"} :
            ReadBack(file)[x] = saved[x]
       /\ DOMAIN ReadBack(file) = DOMAIN NewIndex
       /\ ReadBack(file) = [x \in DOMAIN NewIndex |-> ReadBack(file)[x]]
  BY <1>4, <1>7, <1>8, <1>9 DEF ReadBack
<1>11. /\ NewIndex.efConstructionExp = DefaultSettings.efConstructionExp
       /\ NewIndex.use_optimized_building = DefaultSettings.use_optimized_building
  BY DEF NewIndex
<1>12. /\ Reread(saved).efConstructionExp = NewIndex.efConstructionExp
       /\ Reread(saved).use_optimized_building = NewIndex.use_optimized_building
       /\ \A x \in DOMAIN NewIndex \ {"efConstructionExp", "use_optimized_building"} :
            Reread(saved)[x] = saved[x]
       /\ Reread(saved) = [x \in DOMAIN NewIndex |-> Reread(saved)[x]]
  BY <1>1, <1>8, <1>11 DEF Reread
<1>13. \A x \in DOMAIN NewIndex : ReadBack(file)[x] = Reread(saved)[x]
  BY <1>8, <1>10, <1>12
<1> QED BY <1>10, <1>12, <1>13

\* An index that was read back is as good as the one that was saved.
LEMMA RereadInv ==
  ASSUME NEW t, IndexInv(t), Idle(t)
  PROVE  IndexInv(Reread(t)) /\ Idle(Reread(t))
<1> DEFINE u == Reread(t)
<1>1. DOMAIN t = DOMAIN NewIndex /\ t = [x \in DOMAIN t |-> t[x]]
  BY DEF IndexInv, IsIndex, IsTable
<1>2. /\ DOMAIN u = DOMAIN t /\ u = [x \in DOMAIN u |-> u[x]]
      /\ u.efConstructionExp = DefaultSettings.efConstructionExp
      /\ u.use_optimized_building = DefaultSettings.use_optimized_building
      /\ \A x \in DOMAIN t \ {"efConstructionExp", "use_optimized_building"} : u[x] = t[x]
  BY <1>1 DEF Reread, NewIndex
<1> HIDE DEF u
<1>3. /\ u.levels = t.levels /\ u.offsets = t.offsets /\ u.nslots = t.nslots
      /\ u.offset_neighbor = t.offset_neighbor /\ u.links = t.links
      /\ u.boundaries = t.boundaries /\ u.ntotal = t.ntotal /\ u.nstored = t.nstored
      /\ u.entry_point = t.entry_point /\ u.max_level = t.max_level
      /\ u.efConstruction = t.efConstruction
      /\ u.use_only_expanding_idx = t.use_only_expanding_idx
  BY <1>1, <1>2 DEF NewIndex
<1>4. IsTable(u, Remembered)
  BY <1>2, <1>3 DEF IndexInv, IsIndex, IsTable
<1>5. Laid(u) /\ Fits(u)
  BY <1>3, SameTable DEF IndexInv
<1>6. Chosen(u) \in Settings
  <2>1. Chosen(t) \in Settings /\ DefaultSettings \in Settings
    BY LifecycleAssumption DEF IndexInv, IsIndex
  <2> QED BY <1>2, <1>3, <2>1, SettingsType DEF Chosen, Settings
<1>7. IsIndex(u)
  BY <1>1, <1>2, <1>3, <1>4, <1>6 DEF IndexInv, IsIndex
<1>8. Uniform(u) /\ Idle(u)
  BY <1>3 DEF IndexInv, Uniform, Linked, Idle
<1> QED BY <1>5, <1>7, <1>8 DEF IndexInv, u

-----------------------------------------------------------------------------
(* The steps of the programs                                                *)

\* Another index in memory, while the file is left alone.
LEMMA IndexChanges ==
  ASSUME LifeInv, UNCHANGED <<file, saved>>, IndexInv(index'),
         program' \in {"none", "building", "saving", "profiling", "evaluating", "acorn"},
         program' # "building" => Idle(index'), program' # "saving"
  PROVE  LifeInv'
<1>1. ProgramInv'
  BY DEF ProgramInv
<1>2. FileInv' /\ IndexInv(saved)' /\ Idle(saved)'
  BY DEF LifeInv, FileInv
<1> QED BY <1>1, <1>2 DEF LifeInv

LEMMA NewBuildInv == ASSUME Inv, NewBuild PROVE LifeInv'
<1>1. PICK s \in BuildSettings : index' = Configure(NewIndex, s)
  BY DEF NewBuild
<1>2. IndexInv(index')
  BY <1>1, ConfiguredInv, LifecycleAssumption
<1> QED BY <1>2, IndexChanges DEF Inv, NewBuild

LEMMA LoadInv ==
  ASSUME Inv, NEW k \in {"building", "profiling", "evaluating"}, Load(k)
  PROVE  LifeInv' /\ index' = Reread(saved)
<1>1. index' = Reread(saved)
  BY ReadWhatWasWritten DEF Inv, LifeInv, Load
<1>2. IndexInv(index') /\ Idle(index')
  BY <1>1, RereadInv DEF Inv, LifeInv
<1> QED BY <1>1, <1>2, IndexChanges DEF Inv, Load

LEMMA BuildingInv ==
  ASSUME Inv, StartAdd \/ PlaceNext \/ Reset \/ \E p \in 1 .. MaxPoints : LinkNext(p)
  PROVE  LifeInv'
<1>1. program = "building" /\ UNCHANGED <<program, file, saved>>
  BY DEF StartAdd, PlaceNext, Reset, LinkNext
<1>2. IndexInv(index)
  BY DEF Inv, LifeInv
<1>3. CASE StartAdd
  <2>1. Idle(index)
    BY <1>3 DEF StartAdd
  <2>2. PICK n \in 1 .. MaxPoints - Len(index.levels) :
          \E lv \in [1 .. n -> 1 .. TopLevel + 1] :
            index' = [DrawLevels(index, lv) EXCEPT !.nstored = @ + n, !.ntotal = index.nstored + n]
    BY <1>3 DEF StartAdd
  <2>3. PICK lv \in [1 .. n -> 1 .. TopLevel + 1] :
          index' = [DrawLevels(index, lv) EXCEPT !.nstored = @ + n, !.ntotal = index.nstored + n]
    BY <2>2
  <2> QED BY <1>1, <1>2, <2>1, <2>3, StartAddInv, IndexChanges DEF Inv
<1>4. CASE PlaceNext
  BY <1>1, <1>2, <1>4, PlaceInv, IndexChanges DEF Inv, PlaceNext
<1>5. CASE Reset
  <2>1. Chosen(index) \in Settings
    BY <1>2 DEF IndexInv, IsIndex
  <2>2. IndexInv(index')
    BY <1>5, <2>1, ConfiguredInv DEF Reset
  <2> QED BY <1>1, <2>2, IndexChanges DEF Inv
<1>6. ASSUME NEW p \in 1 .. MaxPoints, LinkNext(p) PROVE LifeInv'
  <2>1. p \in DOMAIN index.links /\ index' \in Inserted(index, p)
    BY <1>6 DEF LinkNext
  <2> QED BY <1>1, <1>2, <2>1, InsertedInv, IndexChanges DEF Inv
<1> QED BY <1>3, <1>4, <1>5, <1>6

LEMMA StartSaveInv == ASSUME Inv, StartSave PROVE LifeInv'
<1>1. /\ program' = "saving" /\ saved' = index /\ file' = << >> /\ index' = index
      /\ Idle(index) /\ IndexInv(index)
  BY DEF Inv, LifeInv, StartSave
<1>2. ProgramInv'
  BY <1>1 DEF ProgramInv
<1>3. FileInv'
  BY <1>1 DEF FileInv, WriteOrder
<1> QED BY <1>1, <1>2, <1>3 DEF LifeInv

LEMMA WriteFieldInv == ASSUME Inv, WriteField PROVE LifeInv'
<1> DEFINE Fields == {saved[x] : x \in DOMAIN saved}
           n == Len(file)
           v == index[WriteOrder[n + 1]]
<1>1. /\ program = "saving" /\ saved = index /\ n # Len(WriteOrder)
      /\ file' = Append(file, v) /\ UNCHANGED <<program, index, saved>>
  BY DEF WriteField, Inv, LifeInv, ProgramInv, Complete
<1>2. file \in Seq(Fields) /\ n <= Len(WriteOrder) /\ n \in Nat
      /\ \A i \in 1 .. n : file[i] = saved[WriteOrder[i]]
  BY DEF Inv, LifeInv, FileInv
<1>3. Len(WriteOrder) = 12
  BY DEF WriteOrder
<1> DEFINE m == Len(WriteOrder)
<1>4. n + 1 \in {1, 2, 3, 4, 5, 6, 7, 8, 9, 10, 11, 12}
  <2>1. n \in Nat /\ n <= m /\ n # m /\ m = 12
    BY <1>1, <1>2, <1>3
  <2> HIDE DEF n, m
  <2> QED BY <2>1
<1>5. WriteOrder[n + 1] \in DOMAIN NewIndex
  BY <1>4 DEF WriteOrder, NewIndex
<1>6. v \in Fields
  <2>1. DOMAIN saved = DOMAIN NewIndex
    BY DEF Inv, LifeInv, IndexInv, IsIndex
  <2> QED BY <1>1, <1>5, <2>1
<1> HIDE DEF v, Fields
<1>7. /\ Append(file, v) \in Seq(Fields) /\ Len(Append(file, v)) = n + 1
      /\ \A i \in 1 .. n : Append(file, v)[i] = file[i]
      /\ Append(file, v)[n + 1] = v
  BY <1>2, <1>6, AppendProperties
<1>8. \A i \in 1 .. Len(file') : file'[i] = saved[WriteOrder[i]]
  <2> SUFFICES ASSUME NEW i \in 1 .. n + 1 PROVE file'[i] = saved[WriteOrder[i]]
    BY <1>1, <1>7
  <2>1. CASE i \in 1 .. n
    BY <1>1, <1>2, <1>7, <2>1
  <2>2. CASE i = n + 1
    BY <1>1, <1>7, <2>2 DEF v
  <2> QED BY <1>2, <2>1, <2>2
<1>9. FileInv'
  <2>1. n \in Nat /\ n <= m /\ n # m /\ m = 12 /\ Len(file') = n + 1
    BY <1>1, <1>2, <1>3, <1>7
  <2>2. Len(file') <= m
    <3> HIDE DEF n, m
    <3> QED BY <2>1
  <2> QED BY <1>1, <1>7, <1>8, <2>2 DEF FileInv, Fields
<1>10. ProgramInv'
  BY <1>1 DEF Inv, LifeInv, ProgramInv
<1> QED BY <1>1, <1>9, <1>10 DEF Inv, LifeInv

\* A program that ends takes its memory with it.
LEMMA EndInv == ASSUME Inv, End PROVE Inv'
<1>1. index' = NewIndex /\ program' = "none" /\ UNCHANGED <<file, saved>>
  BY DEF End, ResetMemory
<1>2. LifeInv'
  BY <1>1, NewIndexInv, IndexChanges DEF Inv
<1>3. TableInv'
  BY DropTableInv DEF End, ResetMemory
<1>4. CostsKnown' /\ Rest
  BY DEF End, ResetMemory, ForgetCosts, CostsKnown
<1>5. TuningInv'
  BY <1>4, RestInv
<1> QED BY <1>2, <1>3, <1>5 DEF Inv

\* What leaves the programs alone.
LEMMA LifeStutters == LifeInv /\ UNCHANGED lifeVars => LifeInv'
<1> SUFFICES ASSUME LifeInv, UNCHANGED lifeVars PROVE LifeInv'
  OBVIOUS
<1>1. UNCHANGED <<program, index, file, saved>>
  BY DEF lifeVars
<1> QED BY <1>1 DEF LifeInv, ProgramInv, FileInv

LEMMA TableStutterInv == TableInv /\ UNCHANGED tableVars => TableInv'
<1> SUFFICES ASSUME TableInv, UNCHANGED tableVars PROVE TableInv'
  OBVIOUS
<1>1. UNCHANGED <<visited, visno, twoStates, passes>>
  BY DEF tableVars
<1> QED BY <1>1 DEF TableInv

\* Measuring costs gives costs.
LEMMA ProfileInv == ASSUME TuningInv, Profile PROVE TuningInv'
<1>1. CostsKnown'
  BY LifecycleAssumption DEF Profile, TuningInv, TuningType, CostsKnown
<1> QED BY <1>1, ProfiledInv DEF Profile

LEMMA TuningKeepsInv == ASSUME TuningInv, Tuning PROVE TuningInv'
BY StartTuningInv, StartSweepInv, QueryFixedInv, ProbeAboveInv, ProbeBelowInv,
   ProbeTooLongInv, BisectInv, MeasureEndsInv, ChooseKeepsInv, TestInv, SweepKeepsInv,
   NoUpperEndInv
   DEF Tuning, TuningStep

-----------------------------------------------------------------------------
LEMMA InitHolds == Init => Inv
<1> SUFFICES ASSUME Init PROVE Inv
  OBVIOUS
<1>1. LifeInv
  <2>1. program = "none" /\ index = NewIndex /\ file = << >> /\ saved = NewIndex
    BY DEF Init
  <2>2. FileInv
    BY <2>1 DEF FileInv, WriteOrder
  <2> QED BY <2>1, <2>2, NewIndexInv DEF LifeInv, ProgramInv
<1> QED BY <1>1, NoTableInv, InitInv DEF Init, Inv

\* Every step does something to a table, or leaves it alone.
LEMMA TableMoves == ASSUME Inv, [Next]_vars PROVE TableStep \/ UNCHANGED tableVars
<1>1. CASE StartSearch \/ StartAcorn
  <2>1. index.ntotal \in Nat /\ MaxPoints \in Nat
    BY LifecycleAssumption DEF Inv, LifeInv, IndexInv, IsIndex, IsTable
  <2> QED BY <1>1, <2>1 DEF StartSearch, StartAcorn, TableStep
<1>2. CASE Searching
  BY <1>2 DEF Searching, TableStep
<1>3. CASE End \/ Abort
  BY <1>3 DEF End, Abort, ResetMemory, TableStep
<1> QED BY <1>1, <1>2, <1>3
        DEF Next, NewBuild, StartAdd, PlaceNext, Reset, StartSave, WriteField, Load,
            LinkNext, Profile, Tuning, vars

LEMMA LifeKept == ASSUME Inv, [Next]_vars PROVE LifeInv'
<1>1. CASE UNCHANGED lifeVars
  BY <1>1, LifeStutters DEF Inv
<1>2. CASE StartAcorn
  <2>1. /\ program = "none" /\ program' = "acorn" /\ UNCHANGED <<index, file, saved>>
        /\ Idle(index) /\ IndexInv(index)
    BY <1>2 DEF StartAcorn, Inv, LifeInv, ProgramInv
  <2> QED BY <2>1, IndexChanges DEF Inv
<1>3. CASE End \/ Abort
  BY <1>3, EndInv DEF Abort, Inv
<1> QED BY <1>1, <1>2, <1>3, NewBuildInv, BuildingInv, StartSaveInv, WriteFieldInv, LoadInv
        DEF Next, Profile, Tuning, StartSearch, Searching, vars

LEMMA TuningKept == ASSUME Inv, [Next]_vars PROVE TuningInv'
<1>1. TuningInv
  BY DEF Inv
<1>2. CASE UNCHANGED tuningVars
  BY <1>1, <1>2, TuningStutters
<1>3. CASE End \/ Abort
  BY <1>3, EndInv DEF Abort, Inv
<1> QED BY <1>1, <1>2, <1>3, ProfileInv, TuningKeepsInv
        DEF Next, NewBuild, StartAdd, PlaceNext, Reset, StartSave, WriteField, Load,
            LinkNext, StartSearch, StartAcorn, Searching, vars

LEMMA StepKeeps == Inv /\ [Next]_vars => Inv'
<1> SUFFICES ASSUME Inv, [Next]_vars PROVE Inv'
  OBVIOUS
<1>1. TableInv'
  BY TableMoves, TableInvStep, TableStutterInv DEF Inv
<1> QED BY <1>1, LifeKept, TuningKept DEF Inv

\* The invariant holds in every reachable state, of any instance.
THEOREM InvariantHolds == Spec => []Inv
BY InitHolds, StepKeeps, PTL DEF Spec

-----------------------------------------------------------------------------
\* No program leaves a variable with a value that is not of its type.
THEOREM TypeCorrect == Spec => []TypeOK
<1>1. Inv => TypeOK
  <2> SUFFICES ASSUME Inv PROVE TypeOK
    OBVIOUS
  <2>1. ASSUME NEW t \in {index, saved}
        PROVE
          /\ DOMAIN t = DOMAIN NewIndex
          /\ t.levels \in Seq(1 .. TopLevel + 1) /\ Len(t.levels) <= MaxPoints
          /\ t.offsets \in Seq(Nat) /\ t.offset_neighbor \in Seq(Nat) /\ t.nslots \in Nat
          /\ t.links \in Seq(Settings \cup {NotLinked})
          /\ t.boundaries \in [DOMAIN t.boundaries -> Nat]
          /\ t.ntotal \in Nat /\ t.nstored \in Nat
          /\ t.entry_point \in 0 .. MaxPoints /\ t.max_level \in -1 .. TopLevel
          /\ Chosen(t) \in Settings
    <3>1. IsIndex(t)
      BY DEF Inv, LifeInv, IndexInv
    <3>2. IsTable(t, Settings \cup {NotLinked})
      BY <3>1 DEF IsIndex, Remembered
    <3>3. t.ntotal \in Nat /\ t.nstored \in Nat
      <4> DEFINE S == 1 .. TopLevel + 1
                 k == Len(t.levels)
      <4>1. t.levels \in Seq(S)
        BY <3>2 DEF IsTable
      <4> HIDE DEF S
      <4>2. k \in Nat
        BY <4>1, LenProperties
      <4> QED BY <3>1, <4>2 DEF IsIndex
    <3> QED BY <3>1, <3>2, <3>3, Zenon DEF IsIndex, IsTable
  <2>2. /\ program \in {"none", "building", "saving", "profiling", "evaluating", "acorn"}
        /\ Len(file) <= Len(WriteOrder)
    BY DEF Inv, LifeInv, ProgramInv, FileInv
  <2>3. TableTypeOK
    BY TableInvType DEF Inv
  <2> QED BY <2>1, <2>2, <2>3, Zenon DEF Inv, TuningInv, TuningType, CostsKnown, TypeOK
<1> QED BY <1>1, InvariantHolds, PTL

\* No sequence of adds, resets, saves and loads makes the lists of the index
\* overlap or leave a gap, or the tables disagree on how many points there are.
THEOREM ListsAlwaysTile == Spec => []ListsTile
<1>1. Inv => ListsTile
  <2> SUFFICES ASSUME Inv PROVE ListsTile
    OBVIOUS
  <2>1. /\ Laid(index) /\ index.links \in Seq(Remembered)
        /\ index.ntotal = Len(index.levels) /\ index.nstored = Len(index.levels)
        /\ program # "building" => Idle(index)
    BY DEF Inv, LifeInv, IndexInv, IsIndex, IsTable, ProgramInv
  <2>2. Len(index.links) = Len(index.offsets) - 1
    BY <2>1 DEF Laid
  <2> QED BY <2>1, <2>2 DEF ListsTile, Laid
<1> QED BY <1>1, InvariantHolds, PTL

\* No boundary points past its list, in either mode of construction.
THEOREM BoundariesAlwaysFit == Spec => []BoundariesFit
<1>1. Inv => BoundariesFit
  BY DEF Inv, LifeInv, IndexInv, BoundariesFit
<1> QED BY <1>1, InvariantHolds, PTL

\* A graph is linked in one mode and width, however often it was saved and
\* read back in between.
THEOREM AlwaysUniform == Spec => []GraphUniform
<1>1. Inv => GraphUniform
  BY DEF Inv, LifeInv, IndexInv, Uniform, GraphUniform
<1> QED BY <1>1, InvariantHolds, PTL

\* Whatever crashed in between, what is read is the whole of what was saved.
THEOREM LoadAlwaysRestores == Spec => LoadRestores
<1>1. Inv => \A k \in {"building", "profiling", "evaluating"} : Load(k) =>
        index' = [saved EXCEPT !.efConstructionExp = DefaultSettings.efConstructionExp,
                    !.use_optimized_building = DefaultSettings.use_optimized_building]
  BY LoadInv DEF Reread
<1> QED BY <1>1, InvariantHolds, PTL DEF LoadRestores

\* The bytes of the visited table implement a set of marks per query.
THEOREM TableImplementsSet == Spec => ImplementsVisitedSet
<1>1. Init => Marks!Init
  BY MarksInit DEF Init
<1>2. Inv /\ [Next]_vars => [Marks!Next]_<<Verdict, passes>>
  BY TableMoves, TableStepRefines, TableStutters DEF Inv
<1> QED BY <1>1, <1>2, InvariantHolds, PTL DEF Spec, ImplementsVisitedSet, Marks!Spec

\* The bisection of a bracket that was measured ends with the target between
\* two neighbouring widths, whatever recall they give.
THEOREM BracketAlwaysHolds == Spec => []BracketHolds
<1>1. Inv => BracketHolds
  BY TuningInvBracket DEF Inv, NearestEnds, BracketHolds
<1> QED BY <1>1, InvariantHolds, PTL
=============================================================================
