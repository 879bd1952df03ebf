--------------------------- MODULE TileMergeProofs ---------------------------
(***************************************************************************)
(* Proofs about the tiles of a frame and the passes of the merge: the      *)
(* layout, suppression and fusion, for frames and tiles of any size, any   *)
(* objects, and any detections the detectors report.                       *)
(*                                                                         *)
(* What a recursive function computes is proved step by step: a function   *)
(* that satisfies the equation is built by induction over the numbers, so  *)
(* that the one the definition chooses satisfies it too, and what holds of *)
(* each of its steps holds of the last.                                    *)
(***************************************************************************)
EXTENDS TileMergeProperties, SequenceTheorems, FiniteSetTheorems, WellFoundedInduction, TLAPS

-----------------------------------------------------------------------------
(* The layouts *)

LEMMA TileIsSquare ==
  ASSUME NEW x \in Int, NEW y \in Int, NEW n \in Int
  PROVE  /\ Tile(x, y, n) \in Squares
         /\ Tile(x, y, n).start[1] = x /\ Tile(x, y, n).start[2] = y /\ Tile(x, y, n).size = n
BY DEF Tile, Squares

\* The pixels of a tile are those from its corner, as many as its size either way.
LEMMA TileCells ==
  ASSUME NEW tile \in Squares
  PROVE  Cells(TileBox(tile)) =
           (tile.start[1] .. tile.start[1] + tile.size - 1) \X (tile.start[2] .. tile.start[2] + tile.size - 1)
BY DEF Cells, TileBox, Squares

LEMMA CellsOfTile ==
  ASSUME NEW x \in Int, NEW y \in Int, NEW n \in Int
  PROVE  Cells(TileBox(Tile(x, y, n))) = (x .. x + n - 1) \X (y .. y + n - 1)
<1> DEFINE tile == Tile(x, y, n)
<1>1. tile \in Squares /\ tile.start[1] = x /\ tile.start[2] = y /\ tile.size = n
  BY TileIsSquare
<1> HIDE DEF tile
<1>2. Cells(TileBox(tile)) =
        (tile.start[1] .. tile.start[1] + tile.size - 1) \X (tile.start[2] .. tile.start[2] + tile.size - 1)
  BY <1>1, TileCells
<1>3. Cells(TileBox(tile)) = (x .. x + n - 1) \X (y .. y + n - 1)
  BY <1>1, <1>2
<1> QED
  BY <1>3 DEF tile

LEMMA LayoutTiles ==
  ASSUME NEW layout \in Layouts, NEW f \in Nat \ {0}, NEW t \in Nat \ {0}
  PROVE  /\ MakeTileLayout(layout, f, t) \in Seq(Squares)
         /\ layout = "whole" => MakeTileLayout(layout, f, t) = <<Tile(0, 0, f)>>
         /\ layout # "whole" => \A k \in 1 .. 4 :
                k \in DOMAIN MakeTileLayout(layout, f, t)
                /\ MakeTileLayout(layout, f, t)[k] = Quadrants(f, t)[k]
<1> DEFINE whole  == <<Tile(0, 0, f)>>
           middle == <<Center(f, t)>>
           four   == Quadrants(f, t)
           center == IF layout \in {"quadrants_center", "quadrants_center_global"} THEN middle ELSE <<>>
           global == IF layout \in {"quadrants_global", "quadrants_center_global"} THEN whole ELSE <<>>
           made   == MakeTileLayout(layout, f, t)
<1>1. made = IF layout = "whole" THEN whole ELSE four \o center \o global
  BY DEF MakeTileLayout
<1>2. Tile(0, 0, f) \in Squares
  <2>1. 0 \in Int /\ f \in Int
    OBVIOUS
  <2> HIDE DEF whole, middle, four, center, global, made
  <2> QED
    BY <2>1, TileIsSquare
<1>3. Center(f, t) \in Squares
  <2>1. (f - t) \div 2 \in Int
    OBVIOUS
  <2> QED
    BY <2>1, TileIsSquare DEF Center
<1>4. four \in Seq(Squares) /\ Len(four) = 4
  <2>1. f - t \in Int
    OBVIOUS
  <2>2. Tile(0, 0, t) \in Squares /\ Tile(f - t, 0, t) \in Squares
        /\ Tile(0, f - t, t) \in Squares /\ Tile(f - t, f - t, t) \in Squares
    BY <2>1, TileIsSquare
  <2> QED
    BY <2>2 DEF Quadrants
<1>5. whole \in Seq(Squares) /\ middle \in Seq(Squares) /\ <<>> \in Seq(Squares)
  BY <1>2, <1>3
<1>6. center \in Seq(Squares) /\ global \in Seq(Squares)
  BY <1>5
<1> HIDE DEF whole, middle, four, center, global, made
<1>7. four \o center \in Seq(Squares) /\ Len(four \o center) = 4 + Len(center)
      /\ \A k \in 1 .. 4 : (four \o center)[k] = four[k]
  <2>1. four \o center \in Seq(Squares) /\ Len(four \o center) = Len(four) + Len(center)
        /\ \A k \in 1 .. Len(four) + Len(center) :
              (four \o center)[k] = IF k <= Len(four) THEN four[k] ELSE center[k - Len(four)]
    BY <1>4, <1>6, ConcatProperties
  <2>2. Len(center) \in Nat /\ Len(four) = 4
    BY <1>4, <1>6, LenProperties
  <2> QED
    BY <2>1, <2>2
<1>8. (four \o center) \o global \in Seq(Squares)
      /\ Len((four \o center) \o global) = Len(four \o center) + Len(global)
      /\ \A k \in 1 .. 4 : ((four \o center) \o global)[k] = four[k]
  <2> DEFINE five == four \o center
  <2>1. five \in Seq(Squares) /\ global \in Seq(Squares)
    BY <1>6, <1>7
  <2> HIDE DEF five
  <2>2. five \o global \in Seq(Squares) /\ Len(five \o global) = Len(five) + Len(global)
        /\ \A k \in 1 .. Len(five) + Len(global) :
              (five \o global)[k] = IF k <= Len(five) THEN five[k] ELSE global[k - Len(five)]
    BY <2>1, ConcatProperties
  <2>3. Len(center) \in Nat /\ Len(global) \in Nat /\ Len(five) = 4 + Len(center)
    BY <1>6, <1>7, LenProperties DEF five
  <2>4. \A k \in 1 .. 4 : (five \o global)[k] = five[k]
    BY <2>2, <2>3
  <2> QED
    BY <1>7, <2>2, <2>4 DEF five
<1>9. \A k \in 1 .. 4 : k \in DOMAIN ((four \o center) \o global)
  BY <1>6, <1>7, <1>8, LenProperties
<1>10. made \in Seq(Squares)
  BY <1>1, <1>5, <1>8
<1>11. layout = "whole" => made = whole
  BY <1>1
<1>12. layout # "whole" => \A k \in 1 .. 4 : k \in DOMAIN made /\ made[k] = four[k]
  BY <1>1, <1>8, <1>9
<1> QED
  BY <1>10, <1>11, <1>12 DEF made, whole, four

\* Tiles that are accepted leave no gap between them: four of at least half the frame, or one
\* that is the frame (tiled_shard.py:116-122).
LEMMA LayoutCovers ==
  ASSUME NEW layout \in Layouts, NEW f \in Nat \ {0}, NEW t \in Nat \ {0}, Accepts(layout, f, t),
         NEW x \in 0 .. f - 1, NEW y \in 0 .. f - 1
  PROVE  \E k \in DOMAIN MakeTileLayout(layout, f, t) :
            <<x, y>> \in Cells(TileBox(MakeTileLayout(layout, f, t)[k]))
<1> DEFINE made == MakeTileLayout(layout, f, t)
<1>1. CASE layout = "whole"
  <2>1. made = <<Tile(0, 0, f)>>
    BY <1>1, LayoutTiles
  <2>2. 1 \in DOMAIN made /\ made[1] = Tile(0, 0, f)
    BY <2>1
  <2>3. <<x, y>> \in Cells(TileBox(Tile(0, 0, f)))
    <3>1. Cells(TileBox(Tile(0, 0, f))) = (0 .. 0 + f - 1) \X (0 .. 0 + f - 1)
      BY CellsOfTile
    <3>2. 0 + f - 1 = f - 1
      OBVIOUS
    <3> QED
      BY <3>1, <3>2
  <2> QED
    BY <2>2, <2>3
<1>2. CASE layout # "whole"
  <2>1. t <= f /\ 2 * t >= f
    BY <1>2 DEF Accepts
  <2>2. \A k \in 1 .. 4 : k \in DOMAIN made /\ made[k] = Quadrants(f, t)[k]
    BY <1>2, LayoutTiles
  <2>3. /\ made[1] = Tile(0, 0, t) /\ made[2] = Tile(f - t, 0, t)
        /\ made[3] = Tile(0, f - t, t) /\ made[4] = Tile(f - t, f - t, t)
    BY <2>2 DEF Quadrants
  <2> DEFINE low == 0 .. t - 1
             high == f - t .. f - 1
  <2>4. (x \in low \/ x \in high) /\ (y \in low \/ y \in high)
    BY <2>1
  <2>5. /\ Cells(TileBox(made[1])) = low \X low /\ Cells(TileBox(made[2])) = high \X low
        /\ Cells(TileBox(made[3])) = low \X high /\ Cells(TileBox(made[4])) = high \X high
    <3>1. ASSUME NEW a \in Int, NEW b \in Int
          PROVE  Cells(TileBox(Tile(a, b, t))) = (a .. a + t - 1) \X (b .. b + t - 1)
      BY CellsOfTile
    <3>2. f - t \in Int /\ 0 \in Int /\ f - t + t - 1 = f - 1 /\ 0 + t - 1 = t - 1
      OBVIOUS
    <3>3. /\ Cells(TileBox(Tile(0, 0, t))) = low \X low
          /\ Cells(TileBox(Tile(f - t, 0, t))) = high \X low
          /\ Cells(TileBox(Tile(0, f - t, t))) = low \X high
          /\ Cells(TileBox(Tile(f - t, f - t, t))) = high \X high
      BY <3>1, <3>2
    <3> QED
      BY <2>3, <3>3
  <2> HIDE DEF low, high, made
  <2>6. \E k \in 1 .. 4 : <<x, y>> \in Cells(TileBox(made[k]))
    <3>1. 1 \in 1 .. 4 /\ 2 \in 1 .. 4 /\ 3 \in 1 .. 4 /\ 4 \in 1 .. 4
      OBVIOUS
    <3>2. \/ <<x, y>> \in low \X low \/ <<x, y>> \in high \X low
          \/ <<x, y>> \in low \X high \/ <<x, y>> \in high \X high
      BY <2>4
    <3> QED
      BY <2>5, <3>1, <3>2
  <2> QED
    BY <2>2, <2>6 DEF made
<1> QED
  BY <1>1, <1>2

\* A pixel of a crop and the box around it are moved by the same corner, scaled by the same factor.
LEMMA CropAgrees ==
  ASSUME NEW tile \in Squares, NEW n \in Nat \ {0}, NEW p \in Int \X Int
  PROVE  LET k == tile.size \div n
         IN  CropPixel(tile, n, p) = Cells(ToFrame(<<k * p[1], k * p[2], k * (p[1] + 1), k * (p[2] + 1)>>, tile))
<1> DEFINE k == tile.size \div n
           corner == tile.start
           box  == <<k * p[1], k * p[2], k * (p[1] + 1), k * (p[2] + 1)>>
           Along(axis) == corner[axis] + k * p[axis] .. corner[axis] + k * (p[axis] + 1) - 1
<1>1. k \in Int /\ corner[1] \in Int /\ corner[2] \in Int /\ p[1] \in Int /\ p[2] \in Int
  BY DEF Squares
<1>2. CropPixel(tile, n, p) = Along(1) \X Along(2)
  BY DEF CropPixel
<1>3. ToFrame(box, tile) = [i \in 1 .. 4 |-> box[i] + corner[IF i % 2 = 1 THEN 1 ELSE 2]]
  BY DEF ToFrame
<1>4. 1 % 2 = 1 /\ 2 % 2 = 0 /\ 3 % 2 = 1 /\ 4 % 2 = 0
  OBVIOUS
<1>5. /\ ToFrame(box, tile)[1] = k * p[1] + corner[1] /\ ToFrame(box, tile)[2] = k * p[2] + corner[2]
      /\ ToFrame(box, tile)[3] = k * (p[1] + 1) + corner[1] /\ ToFrame(box, tile)[4] = k * (p[2] + 1) + corner[2]
  BY <1>3, <1>4
<1>6. Cells(ToFrame(box, tile)) =
        (k * p[1] + corner[1] .. (k * (p[1] + 1) + corner[1]) - 1)
          \X (k * p[2] + corner[2] .. (k * (p[2] + 1) + corner[2]) - 1)
  <2> DEFINE moved == ToFrame(box, tile)
  <2>1. /\ moved[1] = k * p[1] + corner[1] /\ moved[2] = k * p[2] + corner[2]
        /\ moved[3] = k * (p[1] + 1) + corner[1] /\ moved[4] = k * (p[2] + 1) + corner[2]
    BY <1>5
  <2>2. Cells(moved) = (moved[1] .. moved[3] - 1) \X (moved[2] .. moved[4] - 1)
    BY DEF Cells
  <2> DEFINE left   == k * p[1] + corner[1]
             top    == k * p[2] + corner[2]
             right  == k * (p[1] + 1) + corner[1]
             bottom == k * (p[2] + 1) + corner[2]
  <2> HIDE DEF moved, left, top, right, bottom
  <2>3. moved[1] = left /\ moved[2] = top /\ moved[3] = right /\ moved[4] = bottom
    BY <2>1 DEF left, top, right, bottom
  <2>4. Cells(moved) = (left .. right - 1) \X (top .. bottom - 1)
    BY <2>2, <2>3
  <2> QED
    BY <2>4 DEF moved, left, top, right, bottom
<1>7. ASSUME NEW axis \in {1, 2}
      PROVE  Along(axis) = k * p[axis] + corner[axis] .. (k * (p[axis] + 1) + corner[axis]) - 1
  <2>0. p[axis] \in Int /\ p[axis] + 1 \in Int /\ corner[axis] \in Int
    BY <1>1
  <2> HIDE DEF k, corner
  <2>1. k * p[axis] \in Int /\ k * (p[axis] + 1) \in Int /\ corner[axis] \in Int
    BY <1>1, <2>0
  <2>2. ASSUME NEW a \in Int, NEW b \in Int, NEW c \in Int PROVE c + a .. c + b - 1 = a + c .. (b + c) - 1
    OBVIOUS
  <2> QED
    BY <2>1, <2>2
<1>8. CropPixel(tile, n, p) = Cells(ToFrame(box, tile))
  BY <1>2, <1>6, <1>7
<1> QED
  BY <1>8

-----------------------------------------------------------------------------
(* Induction, and functions defined step by step                             *)

\* A set of numbers that is not empty has a least one.
LEMMA LeastNat ==
  ASSUME NEW T \in SUBSET Nat, T # {}
  PROVE  \E x \in T : \A y \in T : x <= y
<1>1. PICK x \in T : \A y \in T : ~ (<<y, x>> \in OpToRel(<, Nat))
  BY WFMin, NatLessThanWellFounded
<1>2. ASSUME NEW y \in T PROVE x <= y
  <2>1. y \in Nat /\ x \in Nat /\ ~ (y < x)
    BY <1>1 DEF OpToRel
  <2> QED
    BY <2>1
<1> QED
  BY <1>2

\* Induction over the numbers up to n, for a set of them.
LEMMA UpTo ==
  ASSUME NEW n \in Nat, NEW A, 0 \in A, \A k \in 0 .. n - 1 : k \in A => k + 1 \in A
  PROVE  0 .. n \subseteq A
<1> SUFFICES ASSUME 0 .. n \ A # {} PROVE FALSE
  OBVIOUS
<1>1. 0 .. n \ A \in SUBSET Nat
  OBVIOUS
<1>2. PICK x \in 0 .. n \ A : \A y \in 0 .. n \ A : x <= y
  BY <1>1, LeastNat
<1>3. x # 0 /\ x - 1 \in 0 .. n - 1
  BY <1>2
<1>4. x - 1 \in A
  BY <1>2, <1>3
<1> QED
  BY <1>2, <1>3, <1>4

\* f goes on from base with a step per number.
Steps(f, n, S, base, step) ==
    f \in [0 .. n -> S] /\ f[0] = base /\ \A k \in 1 .. n : f[k] = step[<<k, f[k - 1]>>]
StepFunctions(n, S) == [(1 .. n) \X S -> S]

\* A function that is defined step by step exists.
LEMMA Recursion ==
  ASSUME NEW n \in Nat, NEW S, NEW base \in S, NEW step \in StepFunctions(n, S)
  PROVE  \E f : Steps(f, n, S, base, step)
<1> DEFINE Good(m, f) == f[0] = base /\ \A k \in 1 .. m : f[k] = step[<<k, f[k - 1]>>]
           A == {m \in 0 .. n : \E f \in [0 .. m -> S] : Good(m, f)}
<1>1. 0 \in A
  <2> DEFINE f == [k \in 0 .. 0 |-> base]
  <2>1. f \in [0 .. 0 -> S] /\ f[0] = base
    OBVIOUS
  <2> HIDE DEF f
  <2>2. Good(0, f)
    BY <2>1
  <2> HIDE DEF Good
  <2> QED
    BY <2>1, <2>2
<1>2. ASSUME NEW m \in 0 .. n - 1, m \in A PROVE m + 1 \in A
  <2>1. PICK f \in [0 .. m -> S] : Good(m, f)
    BY <1>2
  <2> DEFINE g == [k \in 0 .. m + 1 |-> IF k = m + 1 THEN step[<<m + 1, f[m]>>] ELSE f[k]]
  <2>2. f[m] \in S /\ m + 1 \in 1 .. n
    OBVIOUS
  <2>3. step[<<m + 1, f[m]>>] \in S
    BY <2>2 DEF StepFunctions
  <2>4. g \in [0 .. m + 1 -> S]
    BY <2>3
  <2>5. g[0] = base /\ g[m + 1] = step[<<m + 1, f[m]>>] /\ \A k \in 0 .. m : g[k] = f[k]
    BY <2>1
  <2>6. Good(m + 1, g)
    <3> HIDE DEF g
    <3>1. ASSUME NEW k \in 1 .. m + 1 PROVE g[k] = step[<<k, g[k - 1]>>]
      <4>1. k = m + 1 \/ (k \in 1 .. m /\ k - 1 \in 0 .. m)
        OBVIOUS
      <4>2. CASE k = m + 1
        <5>1. k - 1 = m /\ m \in 0 .. m
          BY <4>2
        <5> QED
          BY <2>5, <4>2, <5>1
      <4>3. CASE k \in 1 .. m
        <5>1. k \in 0 .. m /\ k - 1 \in 0 .. m
          BY <4>3
        <5> QED
          BY <2>1, <2>5, <4>3, <5>1
      <4> QED
        BY <4>1, <4>2, <4>3
    <3> QED
      BY <2>5, <3>1
  <2> HIDE DEF Good, g
  <2>7. \E h \in [0 .. m + 1 -> S] : Good(m + 1, h)
    BY <2>4, <2>6
  <2> QED
    BY <2>2, <2>7
<1>3. n \in A
  <2> HIDE DEF A
  <2>1. 0 .. n \subseteq A
    BY <1>1, <1>2, UpTo
  <2> QED
    BY <2>1
<1> QED
  BY <1>3 DEF Steps

-----------------------------------------------------------------------------
(* Orders: what Arranged and Ascending list                                  *)

\* A strict order of the members of S.
Order(S, before) ==
    /\ \A i \in S : <<i, i>> \notin before
    /\ \A i, j, k \in S : <<i, j>> \in before /\ <<j, k>> \in before => <<i, k>> \in before
    /\ \A i, j \in S : i # j => <<i, j>> \in before \/ <<j, i>> \in before

\* Arranged lists each member of a finite set once, in the given order.
LEMMA ArrangedFact ==
  ASSUME NEW S, IsFiniteSet(S), NEW before, Order(S, before)
  PROVE  /\ Cardinality(S) \in Nat
         /\ Arranged(S, before) \in [1 .. Cardinality(S) -> S]
         /\ \A a, b \in 1 .. Cardinality(S) :
               <<Arranged(S, before)[a], Arranged(S, before)[b]>> \in before <=> a < b
         /\ \A i \in S : \E k \in 1 .. Cardinality(S) : Arranged(S, before)[k] = i
<1> DEFINE n == Cardinality(S)
           Above(i) == {j \in S : <<j, i>> \in before}
           rank == [i \in S |-> Cardinality(Above(i)) + 1]
           s == Arranged(S, before)
<1>1. n \in Nat
  BY FS_CardinalityType
<1>2. ASSUME NEW i \in S
      PROVE  IsFiniteSet(Above(i)) /\ Cardinality(Above(i)) \in 0 .. n - 1
  <2>1. Above(i) \in SUBSET S /\ i \notin Above(i)
    BY DEF Order
  <2>2. Above(i) # S
    BY <2>1
  <2> HIDE DEF Above
  <2>3. IsFiniteSet(Above(i)) /\ Cardinality(Above(i)) <= n /\ (n = Cardinality(Above(i)) => S = Above(i))
    BY <2>1, FS_Subset
  <2>4. Cardinality(Above(i)) \in Nat
    BY <2>3, FS_CardinalityType
  <2> QED
    BY <1>1, <2>2, <2>3, <2>4
<1>3. rank \in [S -> 1 .. n] /\ \A i \in S : rank[i] = Cardinality(Above(i)) + 1
  <2> HIDE DEF Above
  <2> QED
    BY <1>1, <1>2
<1>4. ASSUME NEW i \in S, NEW j \in S, <<j, i>> \in before
      PROVE  rank[j] < rank[i]
  <2>1. Above(j) \subseteq Above(i) /\ j \in Above(i) /\ j \notin Above(j)
    BY <1>4 DEF Order
  <2>2. Above(j) # Above(i)
    BY <2>1
  <2> HIDE DEF Above
  <2>3. Cardinality(Above(j)) <= Cardinality(Above(i)) /\ Cardinality(Above(j)) # Cardinality(Above(i))
    BY <1>2, <2>1, <2>2, FS_Subset
  <2> QED
    BY <1>2, <1>3, <2>3
<1> HIDE DEF rank
<1>5. rank \in Injection(S, 1 .. n)
  <2>1. ASSUME NEW i \in S, NEW j \in S, rank[i] = rank[j] PROVE i = j
    <3>1. rank[i] \in 1 .. n /\ rank[j] \in 1 .. n /\ ~(rank[i] < rank[j]) /\ ~(rank[j] < rank[i])
      BY <1>3, <2>1
    <3>2. <<i, j>> \notin before /\ <<j, i>> \notin before
      BY <1>4, <3>1
    <3> QED
      BY <3>2 DEF Order
  <2> QED
    BY <1>3, <2>1 DEF Injection, IsInjective
<1>6. \A k \in 1 .. n : \E i \in S : rank[i] = k
  <2>1. IsFiniteSet(1 .. n) /\ Cardinality(1 .. n) = n
    BY <1>1, FS_Interval
  <2>2. rank \in Surjection(S, 1 .. n)
    BY <1>5, <2>1, FS_Injection
  <2> QED
    BY <2>2 DEF Surjection
<1>7. ASSUME NEW k \in 1 .. n PROVE s[k] \in S /\ rank[s[k]] = k
  <2>1. s[k] = CHOOSE i \in S : Cardinality(Above(i)) = k - 1
    BY <1>7 DEF Arranged
  <2> HIDE DEF Above, s
  <2>2. PICK i \in S : rank[i] = k
    BY <1>6
  <2>3. Cardinality(Above(i)) = k - 1
    BY <1>2, <1>3, <2>2
  <2>4. s[k] \in S /\ Cardinality(Above(s[k])) = k - 1
    BY <2>1, <2>3
  <2>5. rank[s[k]] = k - 1 + 1
    BY <1>3, <2>4
  <2>6. rank[s[k]] = k
    BY <1>1, <2>5
  <2> QED
    BY <2>4, <2>6
<1>8. s \in [1 .. n -> S]
  <2> DEFINE Nth(k) == CHOOSE i \in S : Cardinality(Above(i)) = k - 1
  <2>1. s = [k \in 1 .. n |-> Nth(k)]
    BY DEF Arranged
  <2> HIDE DEF s, n, Nth
  <2>2. \A k \in 1 .. n : Nth(k) \in S
    BY <1>7, <2>1
  <2> QED
    BY <2>1, <2>2
<1>9. ASSUME NEW a \in 1 .. n, NEW b \in 1 .. n PROVE <<s[a], s[b]>> \in before <=> a < b
  <2>1. s[a] \in S /\ s[b] \in S /\ rank[s[a]] = a /\ rank[s[b]] = b
    BY <1>7
  <2> HIDE DEF s
  <2>2. <<s[a], s[b]>> \in before => a < b
    BY <1>4, <2>1
  <2>3. <<s[b], s[a]>> \in before => b < a
    BY <1>4, <2>1
  <2>4. s[a] # s[b] => <<s[a], s[b]>> \in before \/ <<s[b], s[a]>> \in before
    BY <2>1 DEF Order
  <2> QED
    BY <2>1, <2>2, <2>3, <2>4
<1>10. ASSUME NEW i \in S PROVE \E k \in 1 .. n : s[k] = i
  <2>1. rank[i] \in 1 .. n
    BY <1>3
  <2>2. s[rank[i]] \in S /\ rank[s[rank[i]]] = rank[i]
    BY <1>7, <2>1
  <2>3. s[rank[i]] = i
    BY <1>5, <2>2 DEF Injection, IsInjective
  <2> QED
    BY <2>1, <2>3
<1> HIDE DEF s, n
<1>11. /\ n \in Nat /\ s \in [1 .. n -> S] /\ \A a, b \in 1 .. n : <<s[a], s[b]>> \in before <=> a < b
       /\ \A i \in S : \E k \in 1 .. n : s[k] = i
  BY <1>1, <1>8, <1>9, <1>10
<1> QED
  BY <1>11 DEF s, n

\* Ascending lists each member of a finite set of numbers once, the least first.
LEMMA AscendingFact ==
  ASSUME NEW S \in SUBSET Int, IsFiniteSet(S)
  PROVE  /\ Cardinality(S) \in Nat
         /\ Ascending(S) \in [1 .. Cardinality(S) -> S]
         /\ \A a, b \in 1 .. Cardinality(S) : Ascending(S)[a] < Ascending(S)[b] <=> a < b
         /\ \A i \in S : \E k \in 1 .. Cardinality(S) : Ascending(S)[k] = i
<1> DEFINE n == Cardinality(S)
           before == {p \in S \X S : p[1] < p[2]}
           s == Ascending(S)
<1>1. \A i, j \in S : <<i, j>> \in before <=> i < j
  OBVIOUS
<1> HIDE DEF before
<1>2. Order(S, before)
  <2>1. \A i \in S : i \in Int
    OBVIOUS
  <2> QED
    BY <1>1, <2>1 DEF Order
<1>3. s = Arranged(S, before)
  BY DEF Ascending, before
<1> HIDE DEF s, n
<1>4. /\ n \in Nat /\ s \in [1 .. n -> S] /\ \A a, b \in 1 .. n : <<s[a], s[b]>> \in before <=> a < b
      /\ \A i \in S : \E k \in 1 .. n : s[k] = i
  BY <1>2, <1>3, ArrangedFact DEF n
<1>5. \A a, b \in 1 .. n : s[a] < s[b] <=> a < b
  BY <1>1, <1>4
<1> QED
  BY <1>4, <1>5 DEF s, n

-----------------------------------------------------------------------------
(* Greedy suppression                                                        *)

\* Visited in order, a detection is kept exactly if none that was kept before suppresses it.
LEMMA GreedyFact ==
  ASSUME NEW D, NEW order \in Seq(D), NEW victims \in [D -> SUBSET D],
         \A a, b \in 1 .. Len(order) : order[a] = order[b] => a = b
  PROVE  /\ Greedy(order, victims) \subseteq D
         /\ \A k \in 1 .. Len(order) :
               order[k] \in Greedy(order, victims) <=>
                 \A j \in 1 .. k - 1 : order[j] \in Greedy(order, victims) => order[k] \notin victims[order[j]]
<1> DEFINE n == Len(order)
           none == [kept |-> {}, suppressed |-> {}]
           Visit(done, i) == IF i \in done.suppressed THEN done
                             ELSE [kept |-> done.kept \cup {i}, suppressed |-> done.suppressed \cup victims[i]]
           Equation(v) == v = [k \in 0 .. n |-> IF k = 0 THEN none ELSE Visit(v[k - 1], order[k])]
           visited == CHOOSE v : Equation(v)
           S == [kept : SUBSET D, suppressed : SUBSET D]
           step == [p \in (1 .. n) \X S |-> Visit(p[2], order[p[1]])]
<1>1. Greedy(order, victims) = visited[n].kept
  BY DEF Greedy
<1>2. n \in Nat /\ \A k \in 1 .. n : order[k] \in D
  BY LenProperties
<1>3. none \in S /\ step \in [(1 .. n) \X S -> S]
  <2>1. none \in S
    OBVIOUS
  <2>2. ASSUME NEW done \in S, NEW i \in D PROVE Visit(done, i) \in S
    OBVIOUS
  <2> HIDE DEF Visit, S
  <2>3. \A p \in (1 .. n) \X S : Visit(p[2], order[p[1]]) \in S
    BY <1>2, <2>2
  <2> QED
    BY <2>1, <2>3
<1>4. PICK f \in [0 .. n -> S] : f[0] = none /\ \A k \in 1 .. n : f[k] = step[<<k, f[k - 1]>>]
  <2> HIDE DEF n, none, step, S
  <2>1. n \in Nat
    BY <1>2
  <2>2. none \in S /\ step \in StepFunctions(n, S)
    BY <1>3 DEF StepFunctions
  <2>3. \E f : Steps(f, n, S, none, step)
    BY <2>1, <2>2, Recursion
  <2> QED
    BY <2>3 DEF Steps
<1>5. Equation(f)
  <2> HIDE DEF n, none, S, Visit
  <2>1. \A k \in 1 .. n : k - 1 \in 0 .. n /\ f[k - 1] \in S
    BY <1>2, <1>4
  <2>2. \A k \in 1 .. n : f[k] = Visit(f[k - 1], order[k])
    BY <1>4, <2>1
  <2>3. \A k \in 0 .. n : f[k] = IF k = 0 THEN none ELSE Visit(f[k - 1], order[k])
    BY <1>2, <1>4, <2>2
  <2> QED
    BY <1>4, <2>3
<1>6. Equation(visited)
  <2> HIDE DEF Equation
  <2> QED
    BY <1>5
<1> HIDE DEF Equation
<1>7. /\ visited[0] = none
      /\ \A k \in 1 .. n : visited[k] = Visit(visited[k - 1], order[k])
  <2> HIDE DEF visited, none, Visit, n
  <2> USE DEF Equation
  <2>1. \A k \in 0 .. n : visited[k] = IF k = 0 THEN none ELSE Visit(visited[k - 1], order[k])
    BY <1>6
  <2>2. 0 \in 0 .. n /\ \A k \in 1 .. n : k \in 0 .. n /\ k # 0
    BY <1>2
  <2> QED
    BY <2>1, <2>2
<1> DEFINE kept(k) == visited[k].kept
           Sound(k) == \A a \in 1 .. k : order[a] \in kept(k) <=>
                         \A j \in 1 .. a - 1 : order[j] \in kept(k) => order[a] \notin victims[order[j]]
           Known(k) == /\ visited[k] \in S
                       /\ \A i \in kept(k) : \E a \in 1 .. k : order[a] = i
                       /\ \A i \in D : i \in visited[k].suppressed <=> \E j \in kept(k) : i \in victims[j]
                       /\ Sound(k)
           A == {k \in 0 .. n : Known(k)}
<1>8. 0 \in A
  <2>1. visited[0] = [kept |-> {}, suppressed |-> {}]
    BY <1>7
  <2> HIDE DEF visited
  <2>2. Known(0)
    BY <2>1
  <2> QED
    BY <1>2, <2>2
<1>9. ASSUME NEW m \in 0 .. n - 1, m \in A PROVE m + 1 \in A
  <2> DEFINE i == order[m + 1]
             K == kept(m)
             L == kept(m + 1)
  <2>1. Known(m) /\ m + 1 \in 1 .. n /\ m \in Nat
    <3> HIDE DEF Known, n
    <3> QED
      BY <1>2, <1>9
  <2>2. i \in D /\ \A a \in 1 .. m : order[a] # i /\ a \in 1 .. n /\ order[a] \in D
    <3> HIDE DEF A, Known, visited
    <3>1. \A a, b \in 1 .. n : order[a] = order[b] => a = b
      OBVIOUS
    <3> HIDE DEF n
    <3>2. \A a \in 1 .. m : a \in 1 .. n /\ a # m + 1
      BY <1>2, <2>1
    <3> QED
      BY <1>2, <2>1, <3>1, <3>2
  <2>3. visited[m + 1] = Visit(visited[m], i)
    <3>1. m + 1 - 1 = m
      BY <2>1
    <3> HIDE DEF visited, Visit
    <3> QED
      BY <1>7, <2>1, <3>1
  <2> HIDE DEF visited
  <2>4. i \notin K
    BY <2>1, <2>2
  <2>5. i \in visited[m].suppressed <=> \E j \in 1 .. m : order[j] \in K /\ i \in victims[order[j]]
    <3>1. \A j \in 1 .. m : order[j] \in D
      BY <2>2
    <3>2. i \in visited[m].suppressed <=> \E j \in K : i \in victims[j]
      BY <2>1, <2>2
    <3>3. \A j \in K : \E a \in 1 .. m : order[a] = j
      BY <2>1
    <3> HIDE DEF K, i
    <3> QED
      BY <3>2, <3>3
  <2>6. L = IF i \in visited[m].suppressed THEN K ELSE K \cup {i}
    BY <2>1, <2>3
  <2>7. visited[m + 1] \in S
    BY <2>1, <2>2, <2>3
  <2>8. \A j \in L : \E a \in 1 .. m + 1 : order[a] = j
    <3>1. \A j \in K : \E a \in 1 .. m : order[a] = j
      BY <2>1
    <3>2. \A a \in 1 .. m : a \in 1 .. m + 1
      BY <2>1
    <3>3. m + 1 \in 1 .. m + 1
      BY <2>1
    <3> HIDE DEF K, L
    <3> QED
      BY <2>6, <3>1, <3>2, <3>3
  <2>9. \A x \in D : x \in visited[m + 1].suppressed <=> \E j \in L : x \in victims[j]
    <3>1. \A x \in D : x \in visited[m].suppressed <=> \E j \in K : x \in victims[j]
      BY <2>1
    <3>2. CASE i \in visited[m].suppressed
      <4>1. visited[m + 1] = visited[m]
        BY <2>3, <3>2
      <4> QED
        BY <3>1, <4>1
    <3>3. CASE i \notin visited[m].suppressed
      <4>1. visited[m + 1].suppressed = visited[m].suppressed \cup victims[i]
        BY <2>3, <3>3
      <4> HIDE DEF K, L, i
      <4> QED
        BY <2>6, <3>1, <3>3, <4>1
    <3> QED
      BY <3>2, <3>3
  <2>10. \A a \in 1 .. m : order[a] \in L <=> order[a] \in K
    <3> HIDE DEF K, L, i
    <3> QED
      BY <2>2, <2>6
  <2>11. Sound(m + 1)
    <3> SUFFICES ASSUME NEW a \in 1 .. m + 1
                 PROVE  order[a] \in L <=> \A j \in 1 .. a - 1 : order[j] \in L => order[a] \notin victims[order[j]]
      OBVIOUS
    <3>1. CASE a \in 1 .. m
      <4>1. \A j \in 1 .. a - 1 : j \in 1 .. m
        BY <2>1, <3>1
      <4>2. order[a] \in K <=> \A j \in 1 .. a - 1 : order[j] \in K => order[a] \notin victims[order[j]]
        BY <2>1, <3>1
      <4> HIDE DEF K, L
      <4> QED
        BY <2>10, <3>1, <4>1, <4>2
    <3>2. CASE a = m + 1
      <4>1. i \in L <=> i \notin visited[m].suppressed
        <5> HIDE DEF K, L, i
        <5> QED
          BY <2>4, <2>6
      <4>2. a - 1 = m /\ order[a] = i
        BY <2>1, <3>2
      <4> HIDE DEF K, L, i
      <4>3. i \in L <=> \A j \in 1 .. m : order[j] \in L => i \notin victims[order[j]]
        BY <2>5, <2>10, <4>1
      <4> QED
        BY <4>2, <4>3
    <3>3. a \in 1 .. m \/ a = m + 1
      BY <2>1
    <3> QED
      BY <3>1, <3>2, <3>3
  <2> QED
    BY <2>1, <2>7, <2>8, <2>9, <2>11
<1>10. Known(n)
  <2> HIDE DEF A, n
  <2>1. 0 .. n \subseteq A
    BY <1>2, <1>8, <1>9, UpTo
  <2>2. n \in 0 .. n
    BY <1>2
  <2> QED
    BY <2>1, <2>2 DEF A
<1> HIDE DEF visited, n
<1>11. kept(n) \subseteq D /\ Sound(n)
  BY <1>10
<1> QED
  BY <1>1, <1>11 DEF n

-----------------------------------------------------------------------------
(* Boxes and sequences                                                       *)

\* A finite set of numbers that is not empty has a greatest and a least one.
LEMMA MaxFact ==
  ASSUME NEW S \in SUBSET Int, IsFiniteSet(S), S # {}
  PROVE  Max(S) \in S /\ \A y \in S : y <= Max(S)
<1> DEFINE n == Cardinality(S)
           s == Ascending(S)
<1>1. /\ n \in Nat /\ s \in [1 .. n -> S] /\ \A a, b \in 1 .. n : s[a] < s[b] <=> a < b
      /\ \A i \in S : \E k \in 1 .. n : s[k] = i
  BY AscendingFact
<1> HIDE DEF n, s
<1>2. n \in 1 .. n
  <2>1. PICK y \in S : TRUE
    OBVIOUS
  <2>2. PICK k \in 1 .. n : s[k] = y
    BY <1>1, <2>1
  <2> QED
    BY <1>1, <2>2
<1>3. ASSUME NEW y \in S PROVE y <= s[n]
  <2>1. PICK k \in 1 .. n : s[k] = y
    BY <1>1
  <2>2. ~ (s[n] < s[k])
    BY <1>1, <1>2
  <2>3. s[n] \in Int /\ y \in Int
    BY <1>1, <1>2
  <2> QED
    BY <2>1, <2>2, <2>3
<1>4. s[n] \in S /\ \A y \in S : s[n] >= y
  BY <1>1, <1>2, <1>3
<1>5. Max(S) \in S /\ \A y \in S : Max(S) >= y
  BY <1>4 DEF Max
<1> QED
  BY <1>5

LEMMA MinFact ==
  ASSUME NEW S \in SUBSET Int, IsFiniteSet(S), S # {}
  PROVE  Min(S) \in S /\ \A y \in S : Min(S) <= y
<1> DEFINE n == Cardinality(S)
           s == Ascending(S)
<1>1. /\ n \in Nat /\ s \in [1 .. n -> S] /\ \A a, b \in 1 .. n : s[a] < s[b] <=> a < b
      /\ \A i \in S : \E k \in 1 .. n : s[k] = i
  BY AscendingFact
<1> HIDE DEF n, s
<1>2. 1 \in 1 .. n
  <2>1. PICK y \in S : TRUE
    OBVIOUS
  <2>2. PICK k \in 1 .. n : s[k] = y
    BY <1>1, <2>1
  <2> QED
    BY <1>1, <2>2
<1>3. ASSUME NEW y \in S PROVE s[1] <= y
  <2>1. PICK k \in 1 .. n : s[k] = y
    BY <1>1
  <2>2. ~ (s[k] < s[1])
    BY <1>1, <1>2
  <2>3. s[1] \in Int /\ y \in Int
    BY <1>1, <1>2
  <2> QED
    BY <2>1, <2>2, <2>3
<1>4. s[1] \in S /\ \A y \in S : s[1] =< y
  BY <1>1, <1>2, <1>3
<1>5. Min(S) \in S /\ \A y \in S : Min(S) =< y
  BY <1>4 DEF Min
<1> QED
  BY <1>5

\* The enclosing box of some boxes is a box around each of them.
LEMMA EnclosingFact ==
  ASSUME NEW boxes \in SUBSET Boxes, IsFiniteSet(boxes), boxes # {}
  PROVE  /\ Enclosing(boxes) \in Boxes
         /\ \A b \in boxes : /\ Enclosing(boxes)[1] <= b[1] /\ Enclosing(boxes)[2] <= b[2]
                             /\ b[3] <= Enclosing(boxes)[3] /\ b[4] <= Enclosing(boxes)[4]
<1> DEFINE Edges(i) == {b[i] : b \in boxes}
           box == Enclosing(boxes)
<1>1. ASSUME NEW i \in 1 .. 4 PROVE Edges(i) \in SUBSET Int /\ IsFiniteSet(Edges(i)) /\ Edges(i) # {}
  <2> DEFINE f == [b \in boxes |-> b[i]]
  <2>1. f \in Surjection(boxes, Edges(i))
    BY DEF Surjection
  <2> HIDE DEF f
  <2>2. IsFiniteSet(Edges(i))
    <3> HIDE DEF Edges
    <3> QED
      BY <2>1, FS_Surjection
  <2> QED
    BY <2>2 DEF Boxes
<1>2. box = [i \in 1 .. 4 |-> IF i <= 2 THEN Min(Edges(i)) ELSE Max(Edges(i))]
  BY DEF Enclosing
<1>3. \A i \in 1 .. 4 : \A b \in boxes : b[i] \in Edges(i)
  OBVIOUS
<1> HIDE DEF Edges, box
<1>4. ASSUME NEW i \in 1 .. 4
      PROVE  /\ Min(Edges(i)) \in Int /\ Max(Edges(i)) \in Int
             /\ \A b \in boxes : Min(Edges(i)) <= b[i] /\ b[i] <= Max(Edges(i))
  <2>1. Min(Edges(i)) \in Edges(i) /\ \A y \in Edges(i) : Min(Edges(i)) <= y
    BY <1>1, MinFact
  <2>2. Max(Edges(i)) \in Edges(i) /\ \A y \in Edges(i) : y <= Max(Edges(i))
    BY <1>1, MaxFact
  <2> QED
    BY <1>1, <1>3, <2>1, <2>2
<1>5. box \in Boxes
  BY <1>2, <1>4 DEF Boxes
<1>6. /\ box[1] = Min(Edges(1)) /\ box[2] = Min(Edges(2))
      /\ box[3] = Max(Edges(3)) /\ box[4] = Max(Edges(4))
  BY <1>2
<1>7. \A b \in boxes : box[1] <= b[1] /\ box[2] <= b[2] /\ b[3] <= box[3] /\ b[4] <= box[4]
  BY <1>4, <1>6
<1> QED
  BY <1>5, <1>7 DEF box

\* What is enclosed by boxes that are not empty is not empty.
LEMMA EnclosingReal ==
  ASSUME NEW boxes \in SUBSET RealBoxes, IsFiniteSet(boxes), boxes # {}
  PROVE  Enclosing(boxes) \in RealBoxes
<1> DEFINE box == Enclosing(boxes)
<1>1. boxes \in SUBSET Boxes
  BY DEF RealBoxes
<1>2. /\ box \in Boxes
      /\ \A b \in boxes : box[1] <= b[1] /\ box[2] <= b[2] /\ b[3] <= box[3] /\ b[4] <= box[4]
  BY <1>1, EnclosingFact
<1> HIDE DEF box
<1>3. PICK b \in boxes : TRUE
  OBVIOUS
<1>4. b \in Boxes /\ b[1] < b[3] /\ b[2] < b[4]
  BY <1>3 DEF RealBoxes
<1>5. \A i \in 1 .. 4 : b[i] \in Int /\ box[i] \in Int
  BY <1>2, <1>4 DEF Boxes
<1>6. box[1] < box[3] /\ box[2] < box[4]
  BY <1>2, <1>3, <1>4, <1>5
<1> QED
  BY <1>2, <1>6 DEF RealBoxes, box

\* All the elements of part are elements of out.
Holds(out, part) == \A j \in DOMAIN part : \E e \in DOMAIN out : out[e] = part[j]

\* x is an element of part.
From(x, part) == \E j \in DOMAIN part : part[j] = x

LEMMA ConcatHolds ==
  ASSUME NEW E, NEW u \in Seq(E), NEW v \in Seq(E)
  PROVE  /\ u \o v \in Seq(E) /\ Holds(u \o v, u) /\ Holds(u \o v, v)
         /\ \A e \in DOMAIN (u \o v) : From((u \o v)[e], u) \/ From((u \o v)[e], v)
<1> DEFINE w == u \o v
           m == Len(u)
           n == Len(v)
<1>1. /\ w \in Seq(E) /\ Len(w) = m + n
      /\ \A k \in 1 .. m + n : w[k] = IF k <= m THEN u[k] ELSE v[k - m]
  BY ConcatProperties
<1>2. m \in Nat /\ n \in Nat /\ DOMAIN u = 1 .. m /\ DOMAIN v = 1 .. n /\ DOMAIN w = 1 .. m + n
  BY <1>1, LenProperties
<1> HIDE DEF w, m, n
<1>3. ASSUME NEW j \in 1 .. m PROVE j \in 1 .. m + n /\ w[j] = u[j]
  BY <1>1, <1>2
<1>4. ASSUME NEW j \in 1 .. n PROVE m + j \in 1 .. m + n /\ w[m + j] = v[j]
  <2> DEFINE p == m + j
  <2>1. p \in 1 .. m + n /\ ~ (p <= m) /\ p - m = j
    BY <1>2
  <2> HIDE DEF p
  <2>2. w[p] = v[p - m]
    BY <1>1, <2>1
  <2> QED
    BY <2>1, <2>2 DEF p
<1>5. Holds(w, u) /\ Holds(w, v)
  BY <1>2, <1>3, <1>4 DEF Holds
<1>6. ASSUME NEW e \in DOMAIN w PROVE From(w[e], u) \/ From(w[e], v)
  <2>1. e \in 1 .. m + n /\ w[e] = IF e <= m THEN u[e] ELSE v[e - m]
    BY <1>1, <1>2
  <2>2. CASE e <= m
    <3>1. e \in DOMAIN u /\ w[e] = u[e]
      BY <1>2, <2>1, <2>2
    <3> QED
      BY <3>1 DEF From
  <2>3. CASE ~ (e <= m)
    <3>1. e - m \in DOMAIN v /\ w[e] = v[e - m]
      BY <1>2, <2>1, <2>3
    <3> QED
      BY <3>1 DEF From
  <2> QED
    BY <2>2, <2>3
<1> QED
  BY <1>1, <1>5, <1>6 DEF w

\* What is flattened consists of the elements of the parts.
LEMMA FlattenFact ==
  ASSUME NEW E, NEW s \in Seq(Seq(E))
  PROVE  /\ FlattenSeq(s) \in Seq(E)
         /\ \A t \in DOMAIN s : Holds(FlattenSeq(s), s[t])
         /\ \A e \in DOMAIN FlattenSeq(s) : \E t \in DOMAIN s : From(FlattenSeq(s)[e], s[t])
<1> DEFINE n == Len(s)
           Equation(v) == v = [i \in 1 .. n |-> IF i = 1 THEN s[i] ELSE v[i - 1] \o s[i]]
           flat == CHOOSE v : Equation(v)
           step == [p \in (1 .. n) \X Seq(E) |-> p[2] \o s[p[1]]]
           none == << >>
<1>1. n \in Nat /\ \A k \in 1 .. n : s[k] \in Seq(E)
  BY LenProperties
<1>2. FlattenSeq(s) = IF n = 0 THEN s ELSE flat[n]
  BY DEF FlattenSeq
<1>3. CASE n = 0
  <2>1. s = << >> /\ DOMAIN s = {}
    BY <1>3, EmptySeq
  <2>2. FlattenSeq(s) = << >>
    BY <1>2, <1>3, <2>1
  <2>3. << >> \in Seq(E)
    BY EmptySeq
  <2> QED
    BY <2>1, <2>2, <2>3
<1>4. CASE n # 0
  <2>1. none \in Seq(E) /\ step \in StepFunctions(n, Seq(E))
    <3>1. \A p \in (1 .. n) \X Seq(E) : p[2] \o s[p[1]] \in Seq(E)
      <4> HIDE DEF n
      <4>1. \A p \in (1 .. n) \X Seq(E) : p[2] \in Seq(E) /\ s[p[1]] \in Seq(E)
        BY <1>1
      <4> QED
        BY <4>1, ConcatProperties
    <3> HIDE DEF n
    <3> QED
      BY <3>1 DEF StepFunctions
  <2>2. PICK f : Steps(f, n, Seq(E), none, step)
    <3> HIDE DEF n, step, none
    <3> QED
      BY <1>1, <2>1, Recursion
  <2> HIDE DEF n
  <2>3. \A k \in 1 .. n : k - 1 \in 0 .. n /\ f[k - 1] \in Seq(E) /\ f[k] = f[k - 1] \o s[k]
    <3> HIDE DEF step
    <3>1. f \in [0 .. n -> Seq(E)] /\ \A k \in 1 .. n : f[k] = step[<<k, f[k - 1]>>]
      BY <2>2 DEF Steps
    <3>2. \A k \in 1 .. n : k - 1 \in 0 .. n
      BY <1>1
    <3>3. \A k \in 1 .. n : f[k - 1] \in Seq(E)
      BY <3>1, <3>2
    <3>4. ASSUME NEW k \in 1 .. n PROVE f[k] = f[k - 1] \o s[k]
      <4>1. <<k, f[k - 1]>> \in (1 .. n) \X Seq(E)
        BY <3>3
      <4>2. step[<<k, f[k - 1]>>] = f[k - 1] \o s[k]
        BY <4>1 DEF step
      <4> QED
        BY <3>1, <4>2
    <3> QED
      BY <3>2, <3>3, <3>4
  <2> DEFINE g == [i \in 1 .. n |-> f[i]]
  <2>4. Equation(g)
    <3>1. \A i \in 1 .. n : f[i] = IF i = 1 THEN s[i] ELSE g[i - 1] \o s[i]
      <4>1. f[0] = << >>
        BY <2>2 DEF Steps
      <4>2. \A t \in Seq(E) : << >> \o t = t
        BY ConcatEmptySeq
      <4>3. \A i \in 1 .. n : i # 1 => i - 1 \in 1 .. n
        BY <1>1
      <4>4. \A i \in 1 .. n : i # 1 => g[i - 1] = f[i - 1]
        BY <4>3
      <4> HIDE DEF g
      <4>5. ASSUME NEW i \in 1 .. n, i = 1 PROVE f[i] = s[i]
        <5>1. f[i] = f[0] \o s[i] /\ s[i] \in Seq(E)
          <6>1. i - 1 = 0
            BY <4>5
          <6> QED
            BY <1>1, <2>3, <6>1
        <5> QED
          BY <4>1, <4>2, <5>1
      <4>6. ASSUME NEW i \in 1 .. n, i # 1 PROVE f[i] = g[i - 1] \o s[i]
        BY <2>3, <4>4, <4>6
      <4> QED
        BY <4>5, <4>6
    <3> QED
      BY <3>1
  <2> HIDE DEF g
  <2>5. Equation(flat)
    <3> HIDE DEF Equation
    <3> QED
      BY <2>4
  <2>6. \A i \in 1 .. n : flat[i] = IF i = 1 THEN s[i] ELSE flat[i - 1] \o s[i]
    <3> HIDE DEF flat
    <3> QED
      BY <2>5
  <2> DEFINE Whole(k) == /\ flat[k] \in Seq(E) /\ \A t \in 1 .. k : Holds(flat[k], s[t])
                         /\ \A e \in DOMAIN flat[k] : \E t \in 1 .. k : From(flat[k][e], s[t])
             A == {k \in 0 .. n : k # 0 => Whole(k)}
  <2> HIDE DEF flat
  <2>7. 0 \in A
    BY <1>1
  <2>8. ASSUME NEW k \in 0 .. n - 1, k \in A PROVE k + 1 \in A
    <3>1. k + 1 \in 1 .. n /\ k + 1 - 1 = k /\ k + 1 # 0 /\ (k + 1 = 1 <=> k = 0)
      BY <1>1
    <3>2. s[k + 1] \in Seq(E)
      BY <1>1, <3>1
    <3>3. flat[k + 1] = IF k = 0 THEN s[k + 1] ELSE flat[k] \o s[k + 1]
      BY <2>6, <3>1
    <3>4. k # 0 => Whole(k)
      BY <2>8
    <3>5. CASE k = 0
      <4>1. flat[1] = s[1] /\ s[1] \in Seq(E)
        BY <3>2, <3>3, <3>5
      <4>2. Holds(flat[1], s[1]) /\ \A e \in DOMAIN flat[1] : From(flat[1][e], s[1])
        BY <4>1 DEF Holds, From
      <4>3. Whole(1)
        BY <4>1, <4>2
      <4> HIDE DEF Whole
      <4> QED
        BY <3>1, <3>5, <4>3
    <3>6. CASE k # 0
      <4> DEFINE u == flat[k]
                 v == s[k + 1]
                 w == flat[k + 1]
      <4>1. /\ w = u \o v /\ u \in Seq(E) /\ v \in Seq(E)
            /\ \A t \in 1 .. k : Holds(u, s[t])
            /\ \A e \in DOMAIN u : \E t \in 1 .. k : From(u[e], s[t])
        BY <3>2, <3>3, <3>4, <3>6
      <4> HIDE DEF u, v, w
      <4>2. /\ w \in Seq(E) /\ Holds(w, u) /\ Holds(w, v)
            /\ \A e \in DOMAIN w : From(w[e], u) \/ From(w[e], v)
        BY <4>1, ConcatHolds
      <4>3. ASSUME NEW t \in 1 .. k + 1 PROVE Holds(w, s[t])
        <5>1. CASE t = k + 1
          BY <4>2, <5>1 DEF v
        <5>2. CASE t # k + 1
          <6>1. t \in 1 .. k
            BY <3>1, <5>2
          <6>2. Holds(u, s[t])
            BY <4>1, <6>1
          <6> QED
            BY <4>2, <6>2 DEF Holds
        <5> QED
          BY <5>1, <5>2
      <4>4. ASSUME NEW e \in DOMAIN w PROVE \E t \in 1 .. k + 1 : From(w[e], s[t])
        <5>1. CASE From(w[e], u)
          <6>1. PICK j \in DOMAIN u : u[j] = w[e]
            BY <5>1 DEF From
          <6>2. PICK t \in 1 .. k : From(u[j], s[t])
            BY <4>1
          <6>3. t \in 1 .. k + 1
            BY <3>1
          <6> QED
            BY <6>1, <6>2, <6>3
        <5>2. CASE From(w[e], v)
          <6>1. k + 1 \in 1 .. k + 1
            BY <3>1
          <6> QED
            BY <5>2, <6>1 DEF v
        <5> QED
          BY <4>2, <5>1, <5>2
      <4>5. Whole(k + 1)
        BY <4>2, <4>3, <4>4 DEF w
      <4> HIDE DEF Whole
      <4> QED
        BY <3>1, <4>5
    <3> QED
      BY <3>5, <3>6
  <2>9. n \in A
    <3> HIDE DEF A
    <3>1. 0 .. n \subseteq A
      BY <1>1, <2>7, <2>8, UpTo
    <3> QED
      BY <1>1, <3>1
  <2>10. DOMAIN s = 1 .. n
    BY LenProperties DEF n
  <2>11. Whole(n)
    <3> HIDE DEF Whole
    <3> QED
      BY <1>4, <2>9
  <2> QED
    BY <1>2, <1>4, <2>10, <2>11
<1> QED
  BY <1>3, <1>4

-----------------------------------------------------------------------------
(* What a pass keeps                                                         *)

LEMMA SeqDomain ==
  ASSUME NEW E, NEW ds \in Seq(E)
  PROVE  /\ DOMAIN ds = 1 .. Len(ds) /\ Len(ds) \in Nat
         /\ DOMAIN ds \in SUBSET Int /\ IsFiniteSet(DOMAIN ds)
         /\ \A i \in DOMAIN ds : ds[i] \in E
<1>1. DOMAIN ds = 1 .. Len(ds) /\ Len(ds) \in Nat
  BY LenProperties
<1>2. IsFiniteSet(1 .. Len(ds))
  BY <1>1, FS_Interval
<1>3. \A i \in 1 .. Len(ds) : ds[i] \in E
  BY ElementOfSeq
<1> QED
  BY <1>1, <1>2, <1>3

\* Index lists the detections chosen, and no other.
LEMMA IndexFact ==
  ASSUME NEW E, NEW ds \in Seq(E), NEW keep \in SUBSET DOMAIN ds
  PROVE  /\ Index(ds, keep) \in Seq(E)
         /\ \A k \in DOMAIN Index(ds, keep) : \E i \in keep : Index(ds, keep)[k] = ds[i]
         /\ \A i \in keep : \E k \in DOMAIN Index(ds, keep) : Index(ds, keep)[k] = ds[i]
<1> DEFINE n == Cardinality(keep)
           s == Ascending(keep)
           listed == Index(ds, keep)
<1>1. DOMAIN ds = 1 .. Len(ds) /\ Len(ds) \in Nat /\ \A i \in DOMAIN ds : ds[i] \in E
  BY LenProperties, ElementOfSeq
<1>2. keep \in SUBSET Int /\ IsFiniteSet(keep)
  <2>1. IsFiniteSet(1 .. Len(ds))
    BY <1>1, FS_Interval
  <2> QED
    BY <1>1, <2>1, FS_Subset
<1>3. n \in Nat /\ s \in [1 .. n -> keep] /\ \A i \in keep : \E k \in 1 .. n : s[k] = i
  BY <1>2, AscendingFact
<1>4. listed = [k \in DOMAIN s |-> ds[s[k]]]
  BY DEF Index
<1> HIDE DEF s, n, listed
<1>5. listed = [k \in 1 .. n |-> ds[s[k]]]
  BY <1>3, <1>4
<1>6. \A k \in 1 .. n : s[k] \in keep /\ ds[s[k]] \in E
  BY <1>1, <1>3
<1>7. listed \in Seq(E)
  BY <1>3, <1>5, <1>6, SeqDef
<1>8. \A k \in DOMAIN listed : \E i \in keep : listed[k] = ds[i]
  BY <1>5, <1>6
<1>9. \A i \in keep : \E k \in DOMAIN listed : listed[k] = ds[i]
  BY <1>3, <1>5
<1> QED
  BY <1>7, <1>8, <1>9 DEF listed

\* What is visited in a strict order is kept exactly if nothing kept before it suppresses it.
LEMMA GreedyOrder ==
  ASSUME NEW D, IsFiniteSet(D), NEW before, Order(D, before), NEW victims \in [D -> SUBSET D]
  PROVE  /\ Greedy(Arranged(D, before), victims) \subseteq D
         /\ \A i \in D : i \in Greedy(Arranged(D, before), victims) <=>
               \A j \in Greedy(Arranged(D, before), victims) : <<j, i>> \in before => i \notin victims[j]
<1> DEFINE n == Cardinality(D)
           order == Arranged(D, before)
           K == Greedy(order, victims)
<1>1. /\ n \in Nat /\ order \in [1 .. n -> D]
      /\ \A a, b \in 1 .. n : <<order[a], order[b]>> \in before <=> a < b
      /\ \A i \in D : \E k \in 1 .. n : order[k] = i
  BY ArrangedFact
<1> HIDE DEF n, order
<1>2. order \in Seq(D) /\ Len(order) = n
  BY <1>1, SeqDef, LenProperties
<1>3. ASSUME NEW a \in 1 .. n, NEW b \in 1 .. n, order[a] = order[b] PROVE a = b
  <2>1. order[a] \in D /\ <<order[a], order[a]>> \notin before
    BY <1>1 DEF Order
  <2>2. ~ (a < b) /\ ~ (b < a)
    BY <1>1, <1>3, <2>1
  <2>3. a \in Int /\ b \in Int
    OBVIOUS
  <2> QED
    BY <2>2, <2>3
<1>4. /\ K \subseteq D
      /\ \A k \in 1 .. n : order[k] \in K <=> \A j \in 1 .. k - 1 : order[j] \in K => order[k] \notin victims[order[j]]
  <2>1. \A a, b \in 1 .. Len(order) : order[a] = order[b] => a = b
    BY <1>2, <1>3
  <2> QED
    BY <1>2, <2>1, GreedyFact
<1> HIDE DEF K
<1>5. ASSUME NEW i \in D
      PROVE  i \in K <=> \A j \in K : <<j, i>> \in before => i \notin victims[j]
  <2>1. PICK k \in 1 .. n : order[k] = i
    BY <1>1
  <2>2. i \in K <=> \A j \in 1 .. k - 1 : order[j] \in K => i \notin victims[order[j]]
    BY <1>4, <2>1
  <2>3. ASSUME NEW j \in 1 .. k - 1 PROVE j \in 1 .. n /\ <<order[j], i>> \in before
    <3>1. j \in 1 .. n /\ j < k
      BY <1>1
    <3> QED
      BY <1>1, <2>1, <3>1
  <2>4. ASSUME NEW x \in K, <<x, i>> \in before PROVE \E j \in 1 .. k - 1 : order[j] = x
    <3>1. PICK j \in 1 .. n : order[j] = x
      BY <1>1, <1>4
    <3>2. j < k
      BY <1>1, <2>1, <2>4, <3>1
    <3>3. j \in 1 .. k - 1
      BY <1>1, <3>2
    <3> QED
      BY <3>1, <3>3
  <2> QED
    BY <2>2, <2>3, <2>4
<1> QED
  BY <1>4, <1>5 DEF K, order

Ranking(ds) == {p \in (DOMAIN ds) \X (DOMAIN ds) : Outranks(ds, p[1], p[2])}

\* The order in which detections are visited is strict.
LEMMA RankingOrder ==
  ASSUME NEW ds \in Seq(Dets)
  PROVE  Order(DOMAIN ds, Ranking(ds)) /\ IsFiniteSet(DOMAIN ds)
<1> DEFINE D == DOMAIN ds
<1>1. D \in SUBSET Int /\ IsFiniteSet(D) /\ \A i \in D : ds[i] \in Dets
  BY SeqDomain
<1>2. \A i \in D : ds[i].score \in Int /\ ds[i].truncated \in BOOLEAN /\ i \in Int
  BY <1>1 DEF Dets
<1> HIDE DEF D
<1>3. \A i, j \in D : <<i, j>> \in Ranking(ds) <=> Outranks(ds, i, j)
  BY DEF Ranking, D
<1> DEFINE w(i) == IF ds[i].truncated THEN 1 ELSE 0
           v(i) == ds[i].score
<1>4. ASSUME NEW i \in D, NEW j \in D
      PROVE  Outranks(ds, i, j) <=> \/ w(i) < w(j)
                                    \/ w(i) = w(j) /\ (v(i) > v(j) \/ (v(i) = v(j) /\ i < j))
  <2>1. CASE ds[i].truncated
    <3>1. CASE ds[j].truncated
      BY <2>1, <3>1 DEF Outranks, CompleteFirst
    <3>2. CASE ~ds[j].truncated
      BY <2>1, <3>2 DEF Outranks, CompleteFirst
    <3> QED
      BY <3>1, <3>2
  <2>2. CASE ~ds[i].truncated
    <3>1. CASE ds[j].truncated
      BY <2>2, <3>1 DEF Outranks, CompleteFirst
    <3>2. CASE ~ds[j].truncated
      BY <2>2, <3>2 DEF Outranks, CompleteFirst
    <3> QED
      BY <3>1, <3>2
  <2> QED
    BY <2>1, <2>2
<1>5. \A i \in D : v(i) \in Int /\ w(i) \in Int /\ i \in Int
  BY <1>2
<1> HIDE DEF w, v
<1>6. \A i \in D : ~Outranks(ds, i, i)
  BY <1>4, <1>5
<1>7. ASSUME NEW i \in D, NEW j \in D, NEW k \in D, Outranks(ds, i, j), Outranks(ds, j, k)
      PROVE  Outranks(ds, i, k)
  BY <1>4, <1>5, <1>7
<1>8. ASSUME NEW i \in D, NEW j \in D, i # j PROVE Outranks(ds, i, j) \/ Outranks(ds, j, i)
  BY <1>4, <1>5, <1>8
<1>9. Order(D, Ranking(ds))
  BY <1>3, <1>6, <1>7, <1>8 DEF Order
<1> QED
  BY <1>1, <1>9 DEF D

\* A pass keeps a detection exactly if no better one it keeps suppresses it (_greedy_suppress).
LEMMA SuppressFact ==
  ASSUME NEW ds \in Seq(Dets), NEW over, NEW only \in BOOLEAN
  PROVE  \E kept \in SUBSET DOMAIN ds :
            /\ GreedySuppress(ds, over, only) = Index(ds, kept)
            /\ \A i \in DOMAIN ds : i \in kept <=>
                  \A j \in kept \ {i} : Outranks(ds, j, i) =>
                      ~ (ds[j].label = ds[i].label /\ <<j, i>> \in over /\ (only => ds[i].truncated))
<1> DEFINE D == DOMAIN ds
           Hit(i, j) == ds[i].label = ds[j].label /\ <<i, j>> \in over /\ (only => Eligible(ds[j]))
           victims == [i \in D |-> {j \in D \ {i} : Hit(i, j)}]
           K == Greedy(Arranged(D, Ranking(ds)), victims)
<1>1. GreedySuppress(ds, over, only) = Index(ds, K)
  BY DEF GreedySuppress, Ranking
<1>2. Order(D, Ranking(ds)) /\ IsFiniteSet(D)
  BY RankingOrder
<1>3. victims \in [D -> SUBSET D]
  OBVIOUS
<1> HIDE DEF victims
<1>4. /\ K \subseteq D
      /\ \A i \in D : i \in K <=> \A j \in K : <<j, i>> \in Ranking(ds) => i \notin victims[j]
  <2> HIDE DEF D
  <2> QED
    BY <1>2, <1>3, GreedyOrder
<1> HIDE DEF K
<1>5. \A i, j \in D : /\ <<j, i>> \in Ranking(ds) <=> Outranks(ds, j, i)
                      /\ i \in victims[j] <=> i # j /\ Hit(j, i)
  <2> USE DEF victims
  <2> QED
    BY DEF Ranking
<1> HIDE DEF Hit
<1>6. ASSUME NEW i \in D
      PROVE  i \in K <=> \A j \in K \ {i} : Outranks(ds, j, i) => ~Hit(j, i)
  <2> HIDE DEF D
  <2> QED
    BY <1>4, <1>5
<1>7. \A i, j \in D : Hit(j, i) <=> ds[j].label = ds[i].label /\ <<j, i>> \in over /\ (only => ds[i].truncated)
  BY DEF Hit, Eligible
<1>8. \A i \in D : i \in K <=> \A j \in K \ {i} : Outranks(ds, j, i) =>
         ~ (ds[j].label = ds[i].label /\ <<j, i>> \in over /\ (only => ds[i].truncated))
  <2> HIDE DEF D
  <2> QED
    BY <1>4, <1>6, <1>7
<1> QED
  BY <1>1, <1>4, <1>8

-----------------------------------------------------------------------------
(* Union-find                                                                *)

\* parent is a forest: r is the root of each member of D, d falls on the way there.
Forest(D, parent, r, d) ==
    /\ parent \in [D -> D] /\ r \in [D -> D] /\ d \in [D -> Nat]
    /\ \A k \in D : r[r[k]] = r[k] /\ (parent[k] = k <=> r[k] = k)
    /\ \A k \in D : parent[k] # k => r[k] = r[parent[k]] /\ d[parent[k]] < d[k]

\* Following the parents of a forest ends at the root.
LEMMA RootFact ==
  ASSUME NEW D, NEW parent, NEW r, NEW d, Forest(D, parent, r, d)
  PROVE  \A i \in D : Root(parent, i) = r[i]
<1> DEFINE Equation(v) == v = [k \in DOMAIN parent |-> IF parent[k] = k THEN k ELSE v[parent[k]]]
           root == CHOOSE v : Equation(v)
<1>1. /\ parent \in [D -> D] /\ r \in [D -> D] /\ d \in [D -> Nat]
      /\ \A k \in D : parent[k] = k <=> r[k] = k
      /\ \A k \in D : parent[k] # k => r[k] = r[parent[k]] /\ d[parent[k]] < d[k]
  BY DEF Forest
<1>2. Equation(r)
  <2>1. \A k \in D : r[k] = IF parent[k] = k THEN k ELSE r[parent[k]]
    BY <1>1
  <2> QED
    BY <1>1, <2>1
<1>3. Equation(root)
  <2> HIDE DEF Equation
  <2> QED
    BY <1>2
<1>4. \A i \in D : Root(parent, i) = root[i]
  BY DEF Root
<1> HIDE DEF root
<1>5. \A k \in D : root[k] = IF parent[k] = k THEN k ELSE root[parent[k]]
  BY <1>1, <1>3
<1>6. \A k \in D : root[k] = r[k]
  <2> DEFINE Bad == {k \in D : root[k] # r[k]}
             Depths == {d[k] : k \in Bad}
  <2> SUFFICES ASSUME Bad # {} PROVE FALSE
    OBVIOUS
  <2>1. Depths \in SUBSET Nat /\ Depths # {}
    BY <1>1
  <2> HIDE DEF Depths
  <2>2. PICK x \in Depths : \A y \in Depths : x <= y
    BY <2>1, LeastNat
  <2>3. PICK k \in Bad : d[k] = x
    BY <2>2 DEF Depths
  <2>4. parent[k] # k /\ root[k] = root[parent[k]] /\ r[k] = r[parent[k]] /\ d[parent[k]] < d[k] /\ parent[k] \in D
    BY <1>1, <1>5, <2>3
  <2>5. parent[k] \in Bad
    BY <2>3, <2>4
  <2>6. d[parent[k]] \in Depths
    BY <2>5 DEF Depths
  <2>7. x <= d[parent[k]] /\ d[parent[k]] \in Nat /\ x \in Nat
    BY <2>1, <2>2, <2>6
  <2> QED
    BY <2>3, <2>4, <2>7
<1> QED
  BY <1>4, <1>6

\* The roots after the tree of j has been put under the root of i.
Rerooted(D, r, i, j) == [m \in D |-> IF r[m] = r[j] THEN r[i] ELSE r[m]]

\* Uniting two members makes the first one's root the root of all of the second one's tree.
LEMMA UniteFact ==
  ASSUME NEW D, NEW parent, NEW r, NEW d, Forest(D, parent, r, d), NEW i \in D, NEW j \in D
  PROVE  \E e : Forest(D, Unite(parent, i, j), Rerooted(D, r, i, j), e)
<1> DEFINE q == Unite(parent, i, j)
           s == Rerooted(D, r, i, j)
           e == [m \in D |-> IF r[m] = r[j] /\ r[i] # r[j] THEN d[m] + d[r[i]] + 1 ELSE d[m]]
<1>1. /\ parent \in [D -> D] /\ r \in [D -> D] /\ d \in [D -> Nat]
      /\ \A k \in D : r[r[k]] = r[k] /\ (parent[k] = k <=> r[k] = k)
      /\ \A k \in D : parent[k] # k => r[k] = r[parent[k]] /\ d[parent[k]] < d[k]
  BY DEF Forest
<1>2. Root(parent, i) = r[i] /\ Root(parent, j) = r[j] /\ r[i] \in D /\ r[j] \in D
  BY <1>1, RootFact
<1>3. q \in [D -> D] /\ \A k \in D : q[k] = IF k = r[j] THEN r[i] ELSE parent[k]
  BY <1>1, <1>2 DEF Unite
<1>4. s \in [D -> D] /\ \A k \in D : s[k] = IF r[k] = r[j] THEN r[i] ELSE r[k]
  BY <1>1, <1>2 DEF Rerooted
<1>5. e \in [D -> Nat] /\ \A k \in D : e[k] = IF r[k] = r[j] /\ r[i] # r[j] THEN d[k] + d[r[i]] + 1 ELSE d[k]
  <2>1. \A k \in D : d[k] \in Nat /\ d[r[i]] \in Nat
    BY <1>1, <1>2
  <2>2. \A k \in D : d[k] + d[r[i]] + 1 \in Nat
    BY <2>1
  <2> QED
    BY <2>1, <2>2
<1> HIDE DEF q, s, e
<1>6. ASSUME NEW k \in D PROVE s[s[k]] = s[k] /\ (q[k] = k <=> s[k] = k)
  <2>1. r[k] \in D /\ r[r[k]] = r[k] /\ r[r[i]] = r[i] /\ r[r[j]] = r[j]
    BY <1>1
  <2> QED
    BY <1>1, <1>2, <1>3, <1>4, <2>1
<1>7. ASSUME NEW k \in D, q[k] # k PROVE s[k] = s[q[k]] /\ e[q[k]] < e[k]
  <2>1. r[r[i]] = r[i] /\ r[r[j]] = r[j]
    BY <1>1
  <2>2. CASE k = r[j]
    <3>1. q[k] = r[i] /\ r[i] # r[j] /\ r[k] = r[j]
      BY <1>2, <1>3, <1>7, <2>1, <2>2
    <3>2. s[k] = r[i] /\ s[r[i]] = r[i]
      BY <1>2, <1>4, <2>1, <2>2, <3>1
    <3>3. e[k] = d[k] + d[r[i]] + 1 /\ e[r[i]] = d[r[i]]
      BY <1>2, <1>5, <2>1, <2>2, <3>1
    <3>4. d[k] \in Nat /\ d[r[i]] \in Nat
      BY <1>1, <1>2
    <3> QED
      BY <3>1, <3>2, <3>3, <3>4
  <2>3. CASE k # r[j]
    <3>1. q[k] = parent[k] /\ parent[k] # k /\ parent[k] \in D
      BY <1>1, <1>3, <1>7, <2>3
    <3>2. r[k] = r[parent[k]] /\ d[parent[k]] < d[k]
      BY <1>1, <3>1
    <3>3. s[k] = s[parent[k]]
      BY <1>4, <3>1, <3>2
    <3>4. e[parent[k]] < e[k]
      <4>1. d[k] \in Nat /\ d[parent[k]] \in Nat /\ d[r[i]] \in Nat
        BY <1>1, <1>2, <3>1
      <4>2. CASE r[k] = r[j] /\ r[i] # r[j]
        <5>1. e[k] = d[k] + d[r[i]] + 1 /\ e[parent[k]] = d[parent[k]] + d[r[i]] + 1
          BY <1>5, <3>1, <3>2, <4>2
        <5> QED
          BY <3>2, <4>1, <5>1
      <4>3. CASE ~ (r[k] = r[j] /\ r[i] # r[j])
        <5>1. e[k] = d[k] /\ e[parent[k]] = d[parent[k]]
          BY <1>5, <3>1, <3>2, <4>3
        <5> QED
          BY <3>2, <5>1
      <4> QED
        BY <4>2, <4>3
    <3> QED
      BY <3>1, <3>3, <3>4
  <2> QED
    BY <2>2, <2>3
<1>8. Forest(D, q, s, e)
  BY <1>3, <1>4, <1>5, <1>6, <1>7 DEF Forest
<1> QED
  BY <1>8 DEF q, s

\* A whole number is a multiple and a remainder in one way.
LEMMA Division ==
  ASSUME NEW n \in Nat \ {0}, NEW a \in Nat, NEW b \in 0 .. n - 1
  PROVE  (a * n + b) \div n = a /\ (a * n + b) % n = b
OBVIOUS

\* The pairs are all the pairs of detections.
LEMMA PairFact ==
  ASSUME NEW n \in Nat
  PROVE  /\ n * n \in Nat
         /\ \A k \in 1 .. n * n : Pair(n, k) \in (1 .. n) \X (1 .. n)
         /\ \A a, b \in 1 .. n : \E k \in 1 .. n * n : Pair(n, k) = <<a, b>>
<1>1. n * n \in Nat
  OBVIOUS
<1>2. ASSUME NEW k \in 1 .. n * n PROVE Pair(n, k) \in (1 .. n) \X (1 .. n)
  <2>1. n # 0
    BY <1>2
  <2> DEFINE q == (k - 1) \div n
             m == (k - 1) % n
  <2>2. q \in Nat /\ m \in 0 .. n - 1 /\ k - 1 = q * n + m
    BY <1>1, <2>1
  <2> HIDE DEF q, m
  <2>3. q < n
    <3> SUFFICES ASSUME q >= n PROVE FALSE
      BY <2>2
    <3>1. q * n >= n * n
      BY <2>2
    <3> QED
      BY <1>1, <2>2, <3>1
  <2> QED
    BY <2>2, <2>3 DEF Pair, q, m
<1>3. ASSUME NEW a \in 1 .. n, NEW b \in 1 .. n PROVE \E k \in 1 .. n * n : Pair(n, k) = <<a, b>>
  <2> DEFINE k == (a - 1) * n + b
  <2>1. n \in Nat \ {0} /\ a - 1 \in Nat /\ b - 1 \in 0 .. n - 1
    OBVIOUS
  <2>2. k - 1 = (a - 1) * n + (b - 1)
    BY <2>1
  <2>3. (k - 1) \div n = a - 1 /\ (k - 1) % n = b - 1
    BY <2>1, <2>2, Division
  <2>4. k \in 1 .. n * n
    <3>1. (a - 1) * n >= 0 /\ (a - 1) * n <= (n - 1) * n /\ (n - 1) * n = n * n - n
      BY <2>1
    <3> QED
      BY <1>1, <2>1, <3>1
  <2> HIDE DEF k
  <2>5. Pair(n, k) = <<a, b>>
    BY <2>3 DEF Pair
  <2> QED
    BY <2>4, <2>5
<1> QED
  BY <1>1, <1>2, <1>3

Near(ds, a, b) == Joins(ds[a], ds[b], SeamIou) \/ Joins(ds[b], ds[a], SeamIou)
ClosedUnder(ds, C) == \A x \in C : \A y \in DOMAIN ds : Near(ds, x, y) => y \in C

\* r sorts the detections into the classes that fragments that join belong to.
Sorts(ds, r) ==
    /\ \A a, b \in DOMAIN ds : a < b /\ Joins(ds[a], ds[b], SeamIou) => r[a] = r[b]
    /\ \A C \in SUBSET DOMAIN ds : ClosedUnder(ds, C) =>
          \A a, b \in DOMAIN ds : a \in C /\ r[a] = r[b] => b \in C

\* The loops over all pairs leave a forest whose trees are the classes (fuse_seam_fragments).
LEMMA ParentsFact ==
  ASSUME NEW E, NEW ds \in Seq(E)
  PROVE  \E r, d : Forest(DOMAIN ds, Parents(ds, SeamIou), r, d) /\ Sorts(ds, r)
<1> DEFINE D == DOMAIN ds
           n == Len(ds)
           N == n * n
           base == [i \in D |-> i]
           Linked(p) == p[1] < p[2] /\ Joins(ds[p[1]], ds[p[2]], SeamIou)
           Link(parent, p) == IF p[1] < p[2] /\ Joins(ds[p[1]], ds[p[2]], SeamIou)
                                THEN Unite(parent, p[1], p[2]) ELSE parent
           Equation(v) == v = [k \in 0 .. N |-> IF k = 0 THEN base ELSE Link(v[k - 1], Pair(n, k))]
           linked == CHOOSE v : Equation(v)
           S == {q \in [D -> D] : \E r, d : Forest(D, q, r, d)}
           step == [p \in (1 .. N) \X S |-> Link(p[2], Pair(n, p[1]))]
<1>1. Parents(ds, SeamIou) = linked[N]
  BY DEF Parents
<1>2. D = 1 .. n /\ n \in Nat /\ N \in Nat
  BY LenProperties, PairFact
<1>3. \A k \in 1 .. N : Pair(n, k) \in D \X D
  BY <1>2, PairFact
<1>4. \A a, b \in D : \E k \in 1 .. N : Pair(n, k) = <<a, b>>
  BY <1>2, PairFact
<1> HIDE DEF N, n, D
<1>5. \A parent : \A p : Link(parent, p) = IF Linked(p) THEN Unite(parent, p[1], p[2]) ELSE parent
  OBVIOUS
<1> HIDE DEF Link, Linked
<1>6. base \in [D -> D] /\ Forest(D, base, base, [i \in D |-> 0])
  <2> DEFINE zero == [i \in D |-> 0]
  <2>1. base \in [D -> D] /\ zero \in [D -> Nat] /\ \A k \in D : base[k] = k
    OBVIOUS
  <2> HIDE DEF base, zero
  <2>2. Forest(D, base, base, zero)
    BY <2>1 DEF Forest
  <2> QED
    BY <2>1, <2>2 DEF zero
<1>7. ASSUME NEW q \in S, NEW p \in D \X D PROVE Link(q, p) \in S
  <2>1. CASE Linked(p)
    <3>1. PICK r, d : Forest(D, q, r, d)
      OBVIOUS
    <3>2. p[1] \in D /\ p[2] \in D
      OBVIOUS
    <3>3. \E r2, d2 : Forest(D, Unite(q, p[1], p[2]), r2, d2)
      BY <3>1, <3>2, UniteFact
    <3>4. Unite(q, p[1], p[2]) \in [D -> D]
      BY <3>3 DEF Forest
    <3> QED
      BY <1>5, <2>1, <3>3, <3>4
  <2>2. CASE ~Linked(p)
    BY <1>5, <2>2
  <2> QED
    BY <2>1, <2>2
<1>8. base \in S /\ step \in StepFunctions(N, S)
  <2>1. base \in S
    BY <1>6
  <2> HIDE DEF S
  <2>2. \A p \in (1 .. N) \X S : Link(p[2], Pair(n, p[1])) \in S
    BY <1>3, <1>7
  <2> QED
    BY <2>1, <2>2 DEF StepFunctions
<1> HIDE DEF S
<1>9. PICK f \in [0 .. N -> S] : f[0] = base /\ \A k \in 1 .. N : f[k] = step[<<k, f[k - 1]>>]
  <2> HIDE DEF base, step
  <2>1. \E f : Steps(f, N, S, base, step)
    BY <1>2, <1>8, Recursion
  <2> QED
    BY <2>1 DEF Steps
<1> HIDE DEF base
<1>10. Equation(f)
  <2>1. \A k \in 1 .. N : k - 1 \in 0 .. N /\ f[k - 1] \in S
    BY <1>2, <1>9
  <2>2. \A k \in 1 .. N : f[k] = Link(f[k - 1], Pair(n, k))
    BY <1>9, <2>1
  <2>3. \A k \in 0 .. N : f[k] = IF k = 0 THEN base ELSE Link(f[k - 1], Pair(n, k))
    BY <1>2, <1>9, <2>2
  <2> QED
    BY <1>9, <2>3
<1>11. Equation(linked)
  <2> HIDE DEF Equation
  <2> QED
    BY <1>10
<1> HIDE DEF linked
<1>12. linked[0] = base /\ \A k \in 1 .. N : linked[k] = Link(linked[k - 1], Pair(n, k))
  <2>1. \A k \in 0 .. N : linked[k] = IF k = 0 THEN base ELSE Link(linked[k - 1], Pair(n, k))
    BY <1>11
  <2>2. 0 \in 0 .. N /\ \A k \in 1 .. N : k \in 0 .. N /\ k # 0
    BY <1>2
  <2> QED
    BY <2>1, <2>2
<1> HIDE DEF Equation
<1> DEFINE Held(C, r) == \A a, b \in D : a \in C /\ r[a] = r[b] => b \in C
           Met(k, r) == \A m \in 1 .. k : Linked(Pair(n, m)) => r[Pair(n, m)[1]] = r[Pair(n, m)[2]]
           Good(k, r, d) == /\ Forest(D, linked[k], r, d) /\ Met(k, r)
                            /\ \A C \in SUBSET D : ClosedUnder(ds, C) => Held(C, r)
           A == {k \in 0 .. N : \E r, d : Good(k, r, d)}
<1>13. 0 \in A
  <2>1. Forest(D, linked[0], base, [i \in D |-> 0])
    BY <1>6, <1>12
  <2>2. \A k \in D : base[k] = k
    BY DEF base
  <2>3. Met(0, base) /\ \A C \in SUBSET D : Held(C, base)
    BY <2>2
  <2> HIDE DEF Met, Held
  <2>4. Good(0, base, [i \in D |-> 0])
    BY <2>1, <2>3
  <2> HIDE DEF Good
  <2> QED
    BY <1>2, <2>4
<1>14. ASSUME NEW k \in 0 .. N - 1, k \in A PROVE k + 1 \in A
  <2> DEFINE p == Pair(n, k + 1)
  <2>1. PICK r, d : Good(k, r, d)
    <3> HIDE DEF Good
    <3> QED
      BY <1>14
  <2>2. k + 1 \in 1 .. N /\ k + 1 \in 0 .. N /\ k \in Nat /\ k + 1 - 1 = k
    BY <1>2
  <2>3. p \in D \X D
    BY <1>3, <2>2
  <2>4. linked[k + 1] = Link(linked[k], p)
    BY <1>12, <2>2
  <2>5. Forest(D, linked[k], r, d) /\ Met(k, r) /\ \A C \in SUBSET D : ClosedUnder(ds, C) => Held(C, r)
    BY <2>1
  <2>6. CASE ~Linked(p)
    <3>1. linked[k + 1] = linked[k]
      BY <1>5, <2>4, <2>6
    <3>2. Met(k + 1, r)
      <4> SUFFICES ASSUME NEW m \in 1 .. k + 1, Linked(Pair(n, m))
                   PROVE  r[Pair(n, m)[1]] = r[Pair(n, m)[2]]
        OBVIOUS
      <4>1. m # k + 1
        BY <2>6
      <4>2. m \in 1 .. k
        BY <2>2, <4>1
      <4> QED
        BY <2>5, <4>2
    <3> HIDE DEF Met, Held
    <3>3. Good(k + 1, r, d)
      BY <2>5, <3>1, <3>2
    <3> HIDE DEF Good
    <3> QED
      BY <2>2, <3>3
  <2>7. CASE Linked(p)
    <3> DEFINE i == p[1]
               j == p[2]
               s == Rerooted(D, r, i, j)
    <3>1. i \in D /\ j \in D /\ i < j /\ Joins(ds[i], ds[j], SeamIou)
      BY <2>3, <2>7 DEF Linked
    <3>2. linked[k + 1] = Unite(linked[k], i, j)
      BY <1>5, <2>4, <2>7
    <3>3. PICK e : Forest(D, linked[k + 1], s, e)
      <4> DEFINE q == linked[k]
      <4>1. Forest(D, q, r, d)
        BY <2>5
      <4> HIDE DEF i, j, q
      <4>2. \E e : Forest(D, Unite(q, i, j), s, e)
        BY <3>1, <4>1, UniteFact
      <4>3. linked[k + 1] = Unite(q, i, j)
        BY <3>2 DEF q
      <4> HIDE DEF s
      <4> QED
        BY <4>2, <4>3
    <3>4. \A m \in D : s[m] = IF r[m] = r[j] THEN r[i] ELSE r[m]
      BY DEF Rerooted
    <3> HIDE DEF s
    <3>5. Met(k + 1, s)
      <4> SUFFICES ASSUME NEW m \in 1 .. k + 1, Linked(Pair(n, m))
                   PROVE  s[Pair(n, m)[1]] = s[Pair(n, m)[2]]
        OBVIOUS
      <4>1. CASE m = k + 1
        <5> HIDE DEF i, j
        <5>1. s[i] = s[j]
          BY <3>1, <3>4
        <5> QED
          BY <4>1, <5>1 DEF i, j
      <4>2. CASE m \in 1 .. k
        <5>1. m \in 1 .. N
          BY <1>2, <2>2
        <5>2. Pair(n, m)[1] \in D /\ Pair(n, m)[2] \in D
          BY <1>3, <5>1
        <5>3. r[Pair(n, m)[1]] = r[Pair(n, m)[2]]
          BY <2>5, <4>2
        <5> QED
          BY <3>4, <5>2, <5>3
      <4> QED
        BY <2>2, <4>1, <4>2
    <3>6. ASSUME NEW C \in SUBSET D, ClosedUnder(ds, C) PROVE Held(C, s)
      <4> SUFFICES ASSUME NEW a \in D, NEW b \in D, a \in C, s[a] = s[b] PROVE b \in C
        OBVIOUS
      <4> HIDE DEF i, j
      <4>1. \A x, y \in D : x \in C /\ r[x] = r[y] => y \in C
        BY <2>5, <3>6
      <4>2. i \in C <=> j \in C
        BY <3>1, <3>6 DEF ClosedUnder, Near, D
      <4>3. s[a] = (IF r[a] = r[j] THEN r[i] ELSE r[a]) /\ s[b] = (IF r[b] = r[j] THEN r[i] ELSE r[b])
        BY <3>4
      <4> QED
        BY <3>1, <4>1, <4>2, <4>3
    <3> HIDE DEF Met, Held
    <3>7. Good(k + 1, s, e)
      BY <3>3, <3>5, <3>6
    <3> HIDE DEF Good
    <3> QED
      BY <2>2, <3>7
  <2> QED
    BY <2>6, <2>7
<1>15. PICK r, d : Good(N, r, d)
  <2> HIDE DEF Good
  <2>1. A \in SUBSET (0 .. N) /\ (N \in A => \E r, d : Good(N, r, d))
    OBVIOUS
  <2> HIDE DEF A
  <2>2. 0 .. N \subseteq A
    BY <1>2, <1>13, <1>14, UpTo
  <2> QED
    BY <1>2, <2>1, <2>2
<1>16. Forest(D, linked[N], r, d)
  BY <1>15
<1>17. ASSUME NEW a \in D, NEW b \in D, a < b, Joins(ds[a], ds[b], SeamIou) PROVE r[a] = r[b]
  <2>1. PICK m \in 1 .. N : Pair(n, m) = <<a, b>>
    BY <1>4
  <2>2. Linked(<<a, b>>)
    BY <1>17 DEF Linked
  <2> QED
    BY <1>15, <2>1, <2>2
<1>18. \A C \in SUBSET D : ClosedUnder(ds, C) => Held(C, r)
  BY <1>15
<1> HIDE DEF Good, Met
<1>19. Sorts(ds, r)
  BY <1>17, <1>18 DEF Sorts, D
<1> QED
  BY <1>1, <1>16, <1>19 DEF D

-----------------------------------------------------------------------------
(* Connected components                                                      *)

LEMMA JoinsSymmetric ==
  ASSUME NEW a, NEW b, NEW thr, Joins(a, b, thr)
  PROVE  Joins(b, a, thr)
BY DEF Joins, SameLabel

\* What is reached from i in n steps (as Components takes it).
Reached(n, near, i) ==
    LET Grow(s) == s \cup UNION {near[a] : a \in s}
        reached[k \in 0 .. n] == IF k = 0 THEN {i} ELSE Grow(reached[k - 1])
    IN  reached[n]

\* As many steps as there are members reach all that can be reached.
LEMMA ReachFact ==
  ASSUME NEW n \in Nat, NEW near \in [1 .. n -> SUBSET (1 .. n)], NEW i \in 1 .. n
  PROVE  /\ Reached(n, near, i) \in SUBSET (1 .. n) /\ i \in Reached(n, near, i)
         /\ \A a \in Reached(n, near, i) : near[a] \subseteq Reached(n, near, i)
         /\ \A C : i \in C /\ (\A a \in C : a \in 1 .. n => near[a] \subseteq C)
                      => Reached(n, near, i) \subseteq C
<1> DEFINE D == 1 .. n
           Grow(s) == s \cup UNION {near[a] : a \in s}
           Equation(v) == v = [k \in 0 .. n |-> IF k = 0 THEN {i} ELSE Grow(v[k - 1])]
           reached == CHOOSE v : Equation(v)
           step == [p \in (1 .. n) \X SUBSET D |-> Grow(p[2])]
           base == {i}
<1>1. \A s \in SUBSET D : Grow(s) \in SUBSET D /\ s \subseteq Grow(s)
  OBVIOUS
<1>2. IsFiniteSet(D) /\ Cardinality(D) = n
  BY FS_Interval
<1>3. base \in SUBSET D /\ base = {i} /\ step \in StepFunctions(n, SUBSET D)
  <2> HIDE DEF Grow, D
  <2>1. \A p \in (1 .. n) \X SUBSET D : Grow(p[2]) \in SUBSET D
    BY <1>1
  <2>2. base \in SUBSET D
    BY DEF D
  <2> QED
    BY <2>1, <2>2 DEF StepFunctions
<1>4. PICK f \in [0 .. n -> SUBSET D] : f[0] = {i} /\ \A k \in 1 .. n : f[k] = step[<<k, f[k - 1]>>]
  <2> HIDE DEF base, step, D
  <2>1. \E f : Steps(f, n, SUBSET D, base, step)
    BY <1>3, Recursion
  <2> QED
    BY <1>3, <2>1 DEF Steps
<1> HIDE DEF Grow, base, D
<1>5. Equation(f)
  <2>1. \A k \in 1 .. n : k - 1 \in 0 .. n /\ f[k - 1] \in SUBSET D
    BY <1>4
  <2>2. \A k \in 1 .. n : f[k] = Grow(f[k - 1])
    BY <1>4, <2>1
  <2>3. \A k \in 0 .. n : f[k] = IF k = 0 THEN {i} ELSE Grow(f[k - 1])
    BY <1>4, <2>2
  <2> QED
    BY <1>4, <2>3
<1>6. Equation(reached)
  <2> HIDE DEF Equation
  <2> QED
    BY <1>5
<1> HIDE DEF reached
<1>7. reached[0] = {i} /\ \A k \in 1 .. n : reached[k] = Grow(reached[k - 1])
  <2>1. \A k \in 0 .. n : reached[k] = IF k = 0 THEN {i} ELSE Grow(reached[k - 1])
    BY <1>6
  <2>2. 0 \in 0 .. n /\ \A k \in 1 .. n : k \in 0 .. n /\ k # 0
    OBVIOUS
  <2> QED
    BY <2>1, <2>2
<1> HIDE DEF Equation
<1> DEFINE Around(s) == \A C : i \in C /\ (\A a \in C : a \in D => near[a] \subseteq C) => s \subseteq C
           Good(k) == /\ reached[k] \in SUBSET D /\ i \in reached[k] /\ Around(reached[k])
                      /\ Grow(reached[k]) = reached[k] \/ k < Cardinality(reached[k])
           A == {k \in 0 .. n : Good(k)}
<1>8. 0 \in A
  <2>1. i \in D /\ Around({i}) /\ Cardinality({i}) = 1
    BY FS_Singleton DEF D
  <2> HIDE DEF Around
  <2>2. Good(0)
    BY <1>7, <2>1
  <2> HIDE DEF Good
  <2> QED
    BY <2>2
<1>9. ASSUME NEW k \in 0 .. n - 1, k \in A PROVE k + 1 \in A
  <2> DEFINE s == reached[k]
             t == reached[k + 1]
  <2>1. s \in SUBSET D /\ i \in s /\ Around(s) /\ (Grow(s) = s \/ k < Cardinality(s))
    BY <1>9
  <2>2. t = Grow(s)
    <3>1. k + 1 \in 1 .. n /\ k + 1 - 1 = k
      OBVIOUS
    <3> HIDE DEF A, Good
    <3>2. reached[k + 1] = Grow(reached[k + 1 - 1])
      BY <1>7, <3>1
    <3> QED
      BY <3>1, <3>2
  <2> HIDE DEF s, t, Around
  <2>3. t \in SUBSET D /\ s \subseteq t
    BY <1>1, <2>1, <2>2
  <2>4. Around(t)
    <3> SUFFICES ASSUME NEW C, i \in C, \A a \in C : a \in D => near[a] \subseteq C PROVE t \subseteq C
      BY DEF Around
    <3>1. s \subseteq C
      BY <2>1 DEF Around
    <3>2. ASSUME NEW a \in s PROVE near[a] \subseteq C
      <4>1. a \in C /\ a \in D
        BY <2>1, <3>1
      <4> QED
        BY <4>1
    <3>3. t = s \cup UNION {near[a] : a \in s}
      BY <2>2 DEF Grow
    <3> QED
      BY <3>1, <3>2, <3>3
  <2>5. Grow(t) = t \/ k + 1 < Cardinality(t)
    <3>1. CASE Grow(s) = s
      BY <2>2, <3>1
    <3>2. CASE Grow(s) # s
      <4>1. IsFiniteSet(t) /\ IsFiniteSet(s)
        BY <1>2, <2>1, <2>3, FS_Subset
      <4>2. Cardinality(s) <= Cardinality(t) /\ Cardinality(s) # Cardinality(t)
        BY <2>2, <2>3, <3>2, <4>1, FS_Subset
      <4>3. Cardinality(s) \in Nat /\ Cardinality(t) \in Nat
        BY <4>1, FS_CardinalityType
      <4> QED
        BY <2>1, <3>2, <4>2, <4>3
    <3> QED
      BY <3>1, <3>2
  <2>6. Good(k + 1)
    BY <2>1, <2>3, <2>4, <2>5 DEF t
  <2> HIDE DEF Good
  <2> QED
    BY <2>6
<1>10. Good(n)
  <2> HIDE DEF Good
  <2>1. A \in SUBSET (0 .. n) /\ (n \in A => Good(n))
    OBVIOUS
  <2> HIDE DEF A
  <2>2. 0 .. n \subseteq A
    BY <1>8, <1>9, UpTo
  <2> QED
    BY <2>1, <2>2
<1>11. Grow(reached[n]) = reached[n]
  <2>1. Cardinality(reached[n]) <= n /\ Cardinality(reached[n]) \in Nat
    <3>1. reached[n] \in SUBSET D
      BY <1>10
    <3> QED
      BY <1>2, <3>1, FS_Subset, FS_CardinalityType
  <2> QED
    BY <1>10, <2>1
<1>12. \A a \in reached[n] : near[a] \subseteq reached[n]
  BY <1>11 DEF Grow
<1>13. \A C : i \in C /\ (\A a \in C : a \in 1 .. n => near[a] \subseteq C) => reached[n] \subseteq C
  BY <1>10 DEF D
<1>14. reached[n] \in SUBSET (1 .. n) /\ i \in reached[n]
  BY <1>10 DEF D
<1> HIDE DEF Good, A
<1>15. Reached(n, near, i) = reached[n]
  BY DEF Reached, reached, Equation, Grow
<1> QED
  BY <1>12, <1>13, <1>14, <1>15

\* The class of a detection is what Components reaches from it.
LEMMA ComponentsFact ==
  ASSUME NEW E, NEW ds \in Seq(E), NEW r, Sorts(ds, r)
  PROVE  Components(ds) = {{b \in DOMAIN ds : r[b] = r[i]} : i \in DOMAIN ds}
<1> DEFINE D == DOMAIN ds
           n == Len(ds)
           near == [a \in D |-> {b \in D \ {a} : Joins(ds[a], ds[b], SeamIou)}]
           Reach(i) == Reached(n, near, i)
           Class(i) == {b \in D : r[b] = r[i]}
<1>1. Components(ds) = {Reach(i) : i \in D}
  BY DEF Components, Reached
<1>2. D = 1 .. n /\ n \in Nat
  BY LenProperties
<1>3. near \in [1 .. n -> SUBSET (1 .. n)]
  <2> HIDE DEF n, D
  <2> QED
    BY <1>2
<1>4. \A a \in D : \A b \in D : b \in near[a] <=> b # a /\ Joins(ds[a], ds[b], SeamIou)
  OBVIOUS
<1> HIDE DEF near
<1>5. ASSUME NEW i \in D
      PROVE  /\ Reach(i) \in SUBSET (1 .. n) /\ i \in Reach(i)
             /\ \A a \in Reach(i) : near[a] \subseteq Reach(i)
             /\ \A C : i \in C /\ (\A a \in C : a \in 1 .. n => near[a] \subseteq C) => Reach(i) \subseteq C
  <2>1. i \in 1 .. n
    BY <1>2
  <2> HIDE DEF n, D
  <2> QED
    BY <1>2, <1>3, <2>1, ReachFact
<1> HIDE DEF Reach, n
<1>6. \A a, b \in D : Joins(ds[a], ds[b], SeamIou) => r[a] = r[b]
  <2> SUFFICES ASSUME NEW a \in D, NEW b \in D, Joins(ds[a], ds[b], SeamIou) PROVE r[a] = r[b]
    OBVIOUS
  <2>1. Joins(ds[b], ds[a], SeamIou)
    BY JoinsSymmetric
  <2>2. a < b \/ b < a \/ a = b
    BY <1>2
  <2> QED
    BY <2>1, <2>2 DEF Sorts
<1>7. ASSUME NEW i \in D PROVE Reach(i) = Class(i)
  <2>1. Reach(i) \subseteq Class(i)
    <3>1. i \in Class(i)
      OBVIOUS
    <3>2. ASSUME NEW a \in Class(i), NEW b \in near[a] PROVE b \in Class(i)
      <4>1. b \in D
        BY <1>2, <1>3
      <4>2. Joins(ds[a], ds[b], SeamIou)
        BY <1>4, <4>1
      <4> QED
        BY <1>6, <4>1, <4>2
    <3> HIDE DEF Class
    <3> QED
      BY <1>5, <3>1, <3>2
  <2>2. ClosedUnder(ds, Reach(i))
    <3> SUFFICES ASSUME NEW x \in Reach(i), NEW y \in D, Near(ds, x, y) PROVE y \in Reach(i)
      BY DEF ClosedUnder
    <3>1. x \in D
      BY <1>2, <1>5
    <3>2. Joins(ds[x], ds[y], SeamIou)
      BY JoinsSymmetric DEF Near
    <3>3. x = y \/ y \in near[x]
      BY <1>4, <3>1, <3>2
    <3> QED
      BY <1>5, <3>3
  <2>3. Class(i) \subseteq Reach(i)
    <3> SUFFICES ASSUME NEW b \in D, r[b] = r[i] PROVE b \in Reach(i)
      OBVIOUS
    <3>1. Reach(i) \in SUBSET DOMAIN ds /\ i \in Reach(i)
      BY <1>2, <1>5
    <3> QED
      BY <2>2, <3>1 DEF Sorts
  <2> QED
    BY <2>1, <2>3
<1> HIDE DEF Class, D
<1>8. Components(ds) = {Class(i) : i \in D}
  BY <1>1, <1>7
<1> QED
  BY <1>8 DEF Class, D

-----------------------------------------------------------------------------
(* Fusion                                                                    *)

\* A box alone is the box that encloses it.
LEMMA EnclosingOne ==
  ASSUME NEW b \in Boxes
  PROVE  Enclosing({b}) = b
<1>1. ASSUME NEW i \in 1 .. 4 PROVE Min({c[i] : c \in {b}}) = b[i] /\ Max({c[i] : c \in {b}}) = b[i]
  <2>1. {c[i] : c \in {b}} = {b[i]} /\ b[i] \in Int
    BY DEF Boxes
  <2>2. IsFiniteSet({b[i]}) /\ {b[i]} # {} /\ {b[i]} \in SUBSET Int
    BY <2>1, FS_Singleton
  <2>3. Min({b[i]}) \in {b[i]} /\ Max({b[i]}) \in {b[i]}
    BY <2>2, MinFact, MaxFact
  <2> QED
    BY <2>1, <2>3
<1>2. Enclosing({b}) = [i \in 1 .. 4 |-> b[i]]
  <2> DEFINE Low(i) == Min({c[i] : c \in {b}})
             High(i) == Max({c[i] : c \in {b}})
  <2>1. Enclosing({b}) = [i \in 1 .. 4 |-> IF i <= 2 THEN Low(i) ELSE High(i)]
    BY DEF Enclosing
  <2>2. \A i \in 1 .. 4 : Low(i) = b[i] /\ High(i) = b[i]
    BY <1>1
  <2> HIDE DEF Low, High
  <2> QED
    BY <2>1, <2>2
<1> QED
  BY <1>2 DEF Boxes

\* The better of two fragments: the higher score, then the earlier index.
Better(ds, i, j) == ds[i].score > ds[j].score \/ (ds[i].score = ds[j].score /\ i < j)

\* The fusion of some fragments of one class represents them.
LEMMA FusedFact ==
  ASSUME NEW ds \in Seq(Dets), NEW members \in SUBSET DOMAIN ds, members # {},
         \A i, j \in members : ds[i].label = ds[j].label
  PROVE  Fused(ds, members) \in Dets /\ Represents(Fused(ds, members), ds, members)
<1> DEFINE IsBest(i) == \A j \in members \ {i} : ds[i].score > ds[j].score \/ (ds[i].score = ds[j].score /\ i < j)
           best == CHOOSE i \in members : IsBest(i)
           whole == Enclosing({ds[i].box : i \in members})
           fused == Fused(ds, members)
<1>1. /\ DOMAIN ds \in SUBSET Int /\ IsFiniteSet(DOMAIN ds) /\ \A i \in DOMAIN ds : ds[i] \in Dets
  BY SeqDomain
<1>2. IsFiniteSet(members) /\ \A i \in members : ds[i] \in Dets /\ i \in Int /\ ds[i].score \in Int /\ ds[i].box \in RealBoxes
  <2>1. IsFiniteSet(members)
    BY <1>1, FS_Subset
  <2> QED
    BY <1>1, <2>1 DEF Dets
<1>3. best \in members /\ IsBest(best)
  <2> DEFINE before == {p \in members \X members : Better(ds, p[1], p[2])}
             s == Arranged(members, before)
             n == Cardinality(members)
  <2>1. \A i, j \in members : <<i, j>> \in before <=> Better(ds, i, j)
    OBVIOUS
  <2> HIDE DEF before
  <2>2. Order(members, before)
    BY <1>2, <2>1 DEF Order, Better
  <2>3. /\ n \in Nat /\ s \in [1 .. n -> members] /\ \A a, b \in 1 .. n : <<s[a], s[b]>> \in before <=> a < b
        /\ \A i \in members : \E k \in 1 .. n : s[k] = i
    BY <1>2, <2>2, ArrangedFact
  <2> HIDE DEF s, n
  <2>4. 1 \in 1 .. n
    <3>1. PICK y \in members : TRUE
      OBVIOUS
    <3>2. PICK k \in 1 .. n : s[k] = y
      BY <2>3, <3>1
    <3> QED
      BY <2>3, <3>2
  <2>5. ASSUME NEW j \in members \ {s[1]} PROVE Better(ds, s[1], j)
    <3>1. PICK k \in 1 .. n : s[k] = j
      BY <2>3
    <3>2. 1 < k
      BY <2>3, <3>1
    <3>3. <<s[1], s[k]>> \in before /\ s[1] \in members
      BY <2>3, <2>4, <3>2
    <3> QED
      BY <2>1, <3>1, <3>3
  <2>6. s[1] \in members /\ IsBest(s[1])
    BY <2>3, <2>4, <2>5 DEF Better
  <2> HIDE DEF IsBest
  <2> QED
    BY <2>6
<1>4. fused = [ds[best] EXCEPT !.box = whole, !.truncated = members = {best} /\ ds[best].cuts # {}]
  BY DEF Fused
<1> HIDE DEF best, fused, whole
<1>5. whole \in RealBoxes
  <2> DEFINE boxes == {ds[i].box : i \in members}
             f == [i \in members |-> ds[i].box]
  <2>1. boxes \in SUBSET RealBoxes /\ boxes # {}
    BY <1>2
  <2>2. IsFiniteSet(boxes)
    <3>1. f \in Surjection(members, boxes)
      BY DEF Surjection
    <3> HIDE DEF f, boxes
    <3> QED
      BY <1>2, <3>1, FS_Surjection
  <2> HIDE DEF boxes
  <2>3. Enclosing(boxes) \in RealBoxes
    BY <2>1, <2>2, EnclosingReal
  <2> QED
    BY <2>3 DEF whole, boxes
<1>6. ds[best] \in Dets
  BY <1>2, <1>3
<1>7. /\ fused \in Dets /\ fused.box = whole /\ fused.score = ds[best].score /\ fused.label = ds[best].label
      /\ fused.truncated <=> members = {best} /\ ds[best].cuts # {}
  BY <1>4, <1>5, <1>6 DEF Dets
<1>8. fused.score = Max({ds[i].score : i \in members})
  <2> DEFINE scores == {ds[i].score : i \in members}
             f == [i \in members |-> ds[i].score]
  <2>1. scores \in SUBSET Int /\ scores # {} /\ ds[best].score \in scores
    BY <1>2, <1>3
  <2>2. IsFiniteSet(scores)
    <3>1. f \in Surjection(members, scores)
      BY DEF Surjection
    <3> HIDE DEF f, scores
    <3> QED
      BY <1>2, <3>1, FS_Surjection
  <2>3. \A y \in scores : y <= ds[best].score
    BY <1>2, <1>3
  <2> HIDE DEF scores
  <2>4. Max(scores) \in scores /\ \A y \in scores : y <= Max(scores)
    BY <2>1, <2>2, MaxFact
  <2>5. Max(scores) = ds[best].score
    <3> DEFINE v == ds[best].score
               m == Max(scores)
    <3>1. v \in Int /\ m \in Int /\ v <= m /\ m <= v
      BY <2>1, <2>3, <2>4
    <3> HIDE DEF v, m
    <3> QED
      BY <3>1 DEF v, m
  <2> QED
    BY <1>7, <2>5 DEF scores
<1>9. \A i \in members : fused.label = ds[i].label
  BY <1>3, <1>7
<1>10. fused.truncated <=> \E i \in members : members = {i} /\ ds[i].cuts # {}
  BY <1>3, <1>7
<1>11. fused.box = Enclosing({ds[i].box : i \in members})
  BY <1>7 DEF whole
<1>12. Represents(fused, ds, members)
  BY <1>8, <1>9, <1>10, <1>11 DEF Represents
<1> QED
  BY <1>7, <1>12 DEF fused

\* Fusion leaves one detection for each class, and the detections stay well formed.
LEMMA FuseFact ==
  ASSUME NEW ds \in Seq(Dets)
  PROVE  /\ FuseSeamFragments(ds, SeamIou) \in Seq(Dets)
         /\ Len(FuseSeamFragments(ds, SeamIou)) = Cardinality(Components(ds))
         /\ \A members \in Components(ds) : \E k \in DOMAIN FuseSeamFragments(ds, SeamIou) :
               Represents(FuseSeamFragments(ds, SeamIou)[k], ds, members)
         /\ \A k \in DOMAIN FuseSeamFragments(ds, SeamIou) : \E members \in Components(ds) :
               Represents(FuseSeamFragments(ds, SeamIou)[k], ds, members)
<1> DEFINE D == DOMAIN ds
           parent == Parents(ds, SeamIou)
           Roots == {i \in D : parent[i] = i}
           s == Ascending(Roots)
           n == Cardinality(Roots)
           Members(x) == {i \in D : Root(parent, i) = x}
           out == FuseSeamFragments(ds, SeamIou)
<1>1. out = [k \in DOMAIN s |-> Fused(ds, Members(s[k]))]
  BY DEF FuseSeamFragments
<1>2. PICK r, d : Forest(D, parent, r, d) /\ Sorts(ds, r)
  BY ParentsFact
<1>3. D \in SUBSET Int /\ IsFiniteSet(D) /\ \A i \in D : ds[i] \in Dets
  BY SeqDomain
<1> HIDE DEF D, parent
<1> DEFINE Class(x) == {b \in D : r[b] = r[x]}
<1>4. r \in [D -> D] /\ \A i \in D : r[r[i]] = r[i] /\ (parent[i] = i <=> r[i] = i)
  BY <1>2 DEF Forest
<1>5. \A i \in D : Root(parent, i) = r[i]
  BY <1>2, RootFact
<1>6. \A x \in Roots : x \in D /\ r[x] = x /\ Members(x) = Class(x) /\ x \in Class(x)
  BY <1>4, <1>5
<1>7. \A i \in D : r[i] \in Roots /\ Class(i) = Class(r[i])
  BY <1>4
<1>8. Roots \in SUBSET Int /\ IsFiniteSet(Roots)
  BY <1>3, FS_Subset
<1> HIDE DEF Roots, Members
<1>9. n \in Nat /\ s \in [1 .. n -> Roots] /\ \A i \in Roots : \E k \in 1 .. n : s[k] = i
  BY <1>8, AscendingFact
<1>10. Components(ds) = {Class(i) : i \in D}
  BY <1>2, ComponentsFact DEF D
<1>11. ASSUME NEW i \in D, NEW a \in Class(i), NEW b \in Class(i) PROVE ds[a].label = ds[b].label
  <2> DEFINE C == {x \in D : ds[x].label = ds[a].label}
  <2>1. a \in D /\ b \in D /\ r[a] = r[b]
    OBVIOUS
  <2>2. ClosedUnder(ds, C)
    BY DEF ClosedUnder, Near, Joins, SameLabel, D
  <2>3. C \in SUBSET D /\ a \in C
    BY <2>1
  <2> HIDE DEF C
  <2>4. b \in C
    BY <1>2, <2>1, <2>2, <2>3 DEF Sorts, D
  <2> QED
    BY <2>4 DEF C
<1>12. ASSUME NEW x \in Roots
       PROVE  Fused(ds, Class(x)) \in Dets /\ Represents(Fused(ds, Class(x)), ds, Class(x))
  <2>1. Class(x) \in SUBSET DOMAIN ds /\ Class(x) # {}
    BY <1>6 DEF D
  <2>2. \A i, j \in Class(x) : ds[i].label = ds[j].label
    BY <1>6, <1>11
  <2> HIDE DEF Class
  <2> QED
    BY <2>1, <2>2, FusedFact
<1> HIDE DEF s, n, out, Class
<1>13. out = [k \in 1 .. n |-> Fused(ds, Class(s[k]))]
  BY <1>1, <1>6, <1>9
<1>14. \A k \in 1 .. n : out[k] \in Dets /\ out[k] = Fused(ds, Class(s[k])) /\ s[k] \in Roots
  BY <1>9, <1>12, <1>13
<1>15. out \in Seq(Dets) /\ Len(out) = n /\ DOMAIN out = 1 .. n
  <2>1. out \in [1 .. n -> Dets]
    BY <1>13, <1>14
  <2> QED
    BY <1>9, <2>1, SeqDef, LenProperties
<1>16. Components(ds) = {Class(x) : x \in Roots}
  BY <1>6, <1>7, <1>10
<1>17. n = Cardinality(Components(ds))
  <2> DEFINE f == [x \in Roots |-> Class(x)]
  <2>1. f \in Surjection(Roots, Components(ds))
    BY <1>16 DEF Surjection
  <2>2. ASSUME NEW x \in Roots, NEW y \in Roots, Class(x) = Class(y) PROVE x = y
    <3>1. x \in Class(y)
      BY <1>6, <2>2
    <3>2. r[x] = r[y]
      BY <3>1 DEF Class
    <3> QED
      BY <1>6, <3>2
  <2>3. f \in Bijection(Roots, Components(ds))
    BY <2>1, <2>2 DEF Bijection, Injection, IsInjective, Surjection
  <2> HIDE DEF f
  <2>4. Cardinality(Roots) = Cardinality(Components(ds))
    BY <1>8, <2>3, FS_Bijection DEF ExistsBijection
  <2> QED
    BY <2>4 DEF n
<1>18. ASSUME NEW members \in Components(ds) PROVE \E k \in DOMAIN out : Represents(out[k], ds, members)
  <2>1. PICK x \in Roots : members = Class(x)
    BY <1>16
  <2>2. PICK k \in 1 .. n : s[k] = x
    BY <1>9
  <2>3. Represents(out[k], ds, members)
    BY <1>12, <1>14, <2>1, <2>2
  <2> QED
    BY <1>15, <2>2, <2>3
<1>19. ASSUME NEW k \in DOMAIN out PROVE \E members \in Components(ds) : Represents(out[k], ds, members)
  <2>1. s[k] \in Roots /\ out[k] = Fused(ds, Class(s[k]))
    BY <1>14, <1>15
  <2> QED
    BY <1>12, <1>16, <2>1
<1> QED
  BY <1>15, <1>17, <1>18, <1>19 DEF out

-----------------------------------------------------------------------------
(* Detections on their way to the merge                                      *)

Objects == [parts : SUBSET Boxes, label : Nat, levels : SUBSET Nat]
Raws == [box : RealBoxes, label : Nat, score : Nat, prob : Nat]

LEMMA ProductPositive ==
  ASSUME NEW a \in Nat, NEW b \in Nat, a * b > 0
  PROVE  a > 0 /\ b > 0
OBVIOUS

\* What a tile sees of a part of an object is not empty.
LEMMA PartSeen ==
  ASSUME NEW p \in Boxes, NEW tile \in Squares, Intersection(p, TileBox(tile)) > 0,
         NEW axis \in {1, 2}
  PROVE  LET low == tile.start[axis]
             high == tile.start[axis] + tile.size
         IN  low < high /\ p[axis] < p[axis + 2] /\ p[axis] < high /\ low < p[axis + 2]
<1> DEFINE t == TileBox(tile)
<1>1. /\ \A i \in 1 .. 4 : p[i] \in Int /\ t[i] \in Int
      /\ t[1] = tile.start[1] /\ t[2] = tile.start[2]
      /\ t[3] = tile.start[1] + tile.size /\ t[4] = tile.start[2] + tile.size
  <2>1. tile.start[1] \in Int /\ tile.start[2] \in Int /\ tile.size \in Int
    BY DEF Squares
  <2> QED
    BY <2>1 DEF TileBox, Boxes
<1> HIDE DEF t
<1> DEFINE Gap(x) == Smaller(p[x + 2], t[x + 2]) - Larger(p[x], t[x])
<1>2. ASSUME NEW x \in {1, 2}
      PROVE  Shared(p, t, x) \in Nat /\ Gap(x) \in Int /\ (Shared(p, t, x) > 0 => Gap(x) > 0)
  <2>1. p[x] \in Int /\ p[x + 2] \in Int /\ t[x] \in Int /\ t[x + 2] \in Int
    BY <1>1
  <2>2. Gap(x) \in Int
    BY <2>1 DEF Smaller, Larger
  <2>3. Shared(p, t, x) = IF Gap(x) < 0 THEN 0 ELSE Gap(x)
    BY <2>1 DEF Shared, Larger
  <2> HIDE DEF Gap
  <2> QED
    BY <2>2, <2>3
<1>3. Shared(p, t, 1) * Shared(p, t, 2) > 0
  BY DEF Intersection, t
<1>4. Gap(axis) > 0
  BY <1>2, <1>3, ProductPositive
<1>5. p[axis] \in Int /\ p[axis + 2] \in Int /\ t[axis] \in Int /\ t[axis + 2] \in Int
  BY <1>1
<1>6. t[axis] < t[axis + 2] /\ p[axis] < p[axis + 2] /\ p[axis] < t[axis + 2] /\ t[axis] < p[axis + 2]
  BY <1>4, <1>5 DEF Smaller, Larger
<1>7. t[axis] = tile.start[axis] /\ t[axis + 2] = tile.start[axis] + tile.size
  BY <1>1
<1> QED
  BY <1>6, <1>7

\* The box a tile's detector reports is not empty.
LEMMA SeenBoxFact ==
  ASSUME scene.overshoot \in Nat,
         NEW object \in Objects, IsFiniteSet(object.parts), NEW tile \in Squares,
         SeenParts(object, tile) # {}
  PROVE  SeenBox(object, tile) \in RealBoxes
<1> DEFINE box == Enclosing(SeenParts(object, tile))
           o == scene.overshoot
           Edge(i) == LET at == box[i] - tile.start[IF i % 2 = 1 THEN 1 ELSE 2]
                      IN  IF i <= 2 THEN Larger(at, 0)
                          ELSE IF at >= tile.size THEN tile.size + o ELSE at
           seen == SeenBox(object, tile)
<1>1. seen = [i \in 1 .. 4 |-> Edge(i)]
  BY DEF SeenBox
<1>2. SeenParts(object, tile) \in SUBSET Boxes /\ IsFiniteSet(SeenParts(object, tile))
  <2>1. object.parts \in SUBSET Boxes
    BY DEF Objects
  <2>2. SeenParts(object, tile) \in SUBSET object.parts
    BY DEF SeenParts
  <2> QED
    BY <2>1, <2>2, FS_Subset
<1>3. PICK p \in SeenParts(object, tile) : TRUE
  OBVIOUS
<1>4. /\ box \in Boxes /\ box[1] <= p[1] /\ box[2] <= p[2] /\ p[3] <= box[3] /\ p[4] <= box[4]
  BY <1>2, <1>3, EnclosingFact
<1> HIDE DEF box, seen
<1>5. p \in Boxes /\ Intersection(p, TileBox(tile)) > 0
  BY <1>2, <1>3 DEF SeenParts
<1>6. /\ \A i \in 1 .. 4 : box[i] \in Int /\ p[i] \in Int
      /\ tile.start[1] \in Int /\ tile.start[2] \in Int /\ tile.size \in Int /\ o \in Nat
  BY <1>4, <1>5 DEF Boxes, Squares
<1>7. /\ Edge(1) = Larger(box[1] - tile.start[1], 0)
      /\ Edge(2) = Larger(box[2] - tile.start[2], 0)
      /\ Edge(3) = IF box[3] - tile.start[1] >= tile.size THEN tile.size + o ELSE box[3] - tile.start[1]
      /\ Edge(4) = IF box[4] - tile.start[2] >= tile.size THEN tile.size + o ELSE box[4] - tile.start[2]
  <2>1. 1 % 2 = 1 /\ 2 % 2 = 0 /\ 3 % 2 = 1 /\ 4 % 2 = 0
    OBVIOUS
  <2> QED
    BY <2>1
<1> HIDE DEF o
<1>8. Edge(1) \in Int /\ Edge(3) \in Int /\ Edge(1) < Edge(3)
  <2> DEFINE x == tile.start[1]
             n == tile.size
             b == p[1]
             c == p[3]
             low == box[1]
             high == box[3]
  <2>1. x < x + n /\ b < c /\ b < x + n /\ x < c
    <3>1. 1 + 2 = 3
      OBVIOUS
    <3> QED
      BY <1>5, <3>1, PartSeen
  <2>2. x \in Int /\ n \in Int /\ b \in Int /\ c \in Int /\ low \in Int /\ high \in Int
    BY <1>6
  <2>3. low <= b /\ c <= high
    BY <1>4
  <2>4. Edge(1) = Larger(low - x, 0) /\ Edge(3) = IF high - x >= n THEN n + o ELSE high - x
    BY <1>7
  <2> HIDE DEF Edge, x, n, b, c, low, high
  <2> QED
    BY <1>6, <2>1, <2>2, <2>3, <2>4 DEF Larger
<1>9. Edge(2) \in Int /\ Edge(4) \in Int /\ Edge(2) < Edge(4)
  <2> DEFINE x == tile.start[2]
             n == tile.size
             b == p[2]
             c == p[4]
             low == box[2]
             high == box[4]
  <2>1. x < x + n /\ b < c /\ b < x + n /\ x < c
    <3>1. 2 + 2 = 4
      OBVIOUS
    <3> QED
      BY <1>5, <3>1, PartSeen
  <2>2. x \in Int /\ n \in Int /\ b \in Int /\ c \in Int /\ low \in Int /\ high \in Int
    BY <1>6
  <2>3. low <= b /\ c <= high
    BY <1>4
  <2>4. Edge(2) = Larger(low - x, 0) /\ Edge(4) = IF high - x >= n THEN n + o ELSE high - x
    BY <1>7
  <2> HIDE DEF Edge, x, n, b, c, low, high
  <2> QED
    BY <1>6, <2>1, <2>2, <2>3, <2>4 DEF Larger
<1> HIDE DEF Edge
<1>10. \A i \in 1 .. 4 : Edge(i) \in Int
  <2>1. \A i \in 1 .. 4 : i = 1 \/ i = 2 \/ i = 3 \/ i = 4
    OBVIOUS
  <2> QED
    BY <1>8, <1>9, <2>1
<1>12. seen \in Boxes
  BY <1>1, <1>10 DEF Boxes
<1>13. seen[1] < seen[3] /\ seen[2] < seen[4]
  BY <1>1, <1>8, <1>9
<1> QED
  BY <1>12, <1>13 DEF RealBoxes, seen

\* d is what a tile sees of an object.
Sights(d, tile, object) ==
    SeenParts(object, tile) # {} /\ d.box = SeenBox(object, tile) /\ d.label = object.label

\* What the detector of a tile may report is well formed, and what the tile sees of the objects.
LEMMA RawFact ==
  ASSUME scene \in Scenes, NEW tile \in Squares, NEW raw \in RawOutputs(tile)
  PROVE  /\ raw \in Seq(Raws)
         /\ \A i \in DOMAIN raw : \E k \in DOMAIN scene.objects : Sights(raw[i], tile, scene.objects[k])
<1> DEFINE Cells1(object) ==
             IF SeenParts(object, tile) = {} THEN {<<>>}
             ELSE {[k \in DOMAIN a |-> [box |-> SeenBox(object, tile), label |-> object.label,
                                        score |-> a[k].score, prob |-> a[k].prob]] : a \in Answers(object.levels)}
           choices == [k \in DOMAIN scene.objects |-> Cells1(scene.objects[k])]
           D == DOMAIN scene.objects
<1>1. PICK c \in [D -> UNION {choices[k] : k \in D}] : (\A k \in D : c[k] \in choices[k]) /\ raw = FlattenSeq(c)
  BY DEF RawOutputs
<1>2. scene.overshoot \in Nat /\ scene.objects \in Seq(Objects) /\ \A k \in D : IsFiniteSet(scene.objects[k].parts)
  BY ScenesAssumption DEF Objects, Boxes
<1>3. ASSUME NEW object \in Objects, IsFiniteSet(object.parts), NEW x \in Cells1(object)
      PROVE  x \in Seq(Raws) /\ \A j \in DOMAIN x : Sights(x[j], tile, object)
  <2>1. CASE SeenParts(object, tile) = {}
    <3>1. x = << >> /\ DOMAIN x = {}
      BY <2>1
    <3> QED
      BY <3>1, EmptySeq
  <2>2. CASE SeenParts(object, tile) # {}
    <3>1. SeenBox(object, tile) \in RealBoxes
      BY <1>2, <1>3, <2>2, SeenBoxFact
    <3> DEFINE Cell(a, k) == [box |-> SeenBox(object, tile), label |-> object.label,
                              score |-> a[k].score, prob |-> a[k].prob]
    <3>2. PICK a \in Answers(object.levels) : x = [k \in DOMAIN a |-> Cell(a, k)]
      BY <2>2
    <3>3. object.label \in Nat /\ object.levels \in SUBSET Nat
      BY DEF Objects
    <3>4. a \in Seq([score : Nat, prob : Nat])
      <4> DEFINE Cell1 == [score : Nat, prob : Nat]
      <4>1. CASE a = << >>
        BY <4>1
      <4>2. ASSUME NEW s \in object.levels, a = << [score |-> s, prob |-> s] >> PROVE a \in Seq(Cell1)
        <5>1. [score |-> s, prob |-> s] \in Cell1
          BY <3>3
        <5> HIDE DEF Cell1
        <5> QED
          BY <4>2, <5>1
      <4>3. ASSUME NEW q \in object.levels \X object.levels,
                   a = << [score |-> q[1], prob |-> q[2]], [score |-> q[2], prob |-> q[1]] >>
            PROVE  a \in Seq(Cell1)
        <5>1. [score |-> q[1], prob |-> q[2]] \in Cell1 /\ [score |-> q[2], prob |-> q[1]] \in Cell1
          BY <3>3
        <5> HIDE DEF Cell1
        <5> QED
          BY <4>3, <5>1
      <4> QED
        BY <4>1, <4>2, <4>3 DEF Answers
    <3>5. ASSUME NEW k \in DOMAIN a PROVE Cell(a, k) \in Raws
      <4>1. a[k] \in [score : Nat, prob : Nat]
        BY <3>4, SeqDomain
      <4> QED
        BY <3>1, <3>3, <4>1 DEF Raws
    <3>8. \A k \in DOMAIN x : Sights(x[k], tile, object)
      BY <2>2, <3>2 DEF Sights
    <3> HIDE DEF Cell
    <3>6. DOMAIN a = 1 .. Len(a) /\ Len(a) \in Nat
      BY <3>4, SeqDomain
    <3>7. x \in [1 .. Len(a) -> Raws]
      BY <3>2, <3>5, <3>6
    <3> QED
      BY <3>6, <3>7, <3>8, SeqDef
  <2> QED
    BY <2>1, <2>2
<1> HIDE DEF Cells1
<1>4. ASSUME NEW k \in D
      PROVE  c[k] \in Seq(Raws) /\ \A j \in DOMAIN c[k] : Sights(c[k][j], tile, scene.objects[k])
  <2>1. c[k] \in Cells1(scene.objects[k]) /\ scene.objects[k] \in Objects
    BY <1>1, <1>2, SeqDomain
  <2> QED
    BY <1>2, <1>3, <2>1
<1>5. D = 1 .. Len(scene.objects) /\ Len(scene.objects) \in Nat
  BY <1>2, SeqDomain
<1>6. c \in [1 .. Len(scene.objects) -> Seq(Raws)]
  <2> HIDE DEF choices
  <2> QED
    BY <1>1, <1>4, <1>5
<1>7. c \in Seq(Seq(Raws)) /\ DOMAIN c = D
  BY <1>5, <1>6, SeqDef
<1>8. ASSUME NEW i \in DOMAIN raw
      PROVE  \E k \in DOMAIN scene.objects : Sights(raw[i], tile, scene.objects[k])
  <2>1. PICK k \in DOMAIN c : From(raw[i], c[k])
    BY <1>1, <1>7, FlattenFact
  <2> QED
    BY <1>4, <1>7, <2>1 DEF From
<1> QED
  BY <1>1, <1>7, <1>8, FlattenFact

\* What is kept of a tile's reports is well formed (decode_tile).
LEMMA DecodeFact ==
  ASSUME NEW raw \in Seq(Raws)
  PROVE  /\ DecodeTile(raw) \in Seq(TileDets)
         /\ \A k \in DOMAIN DecodeTile(raw) : \E i \in DOMAIN raw :
               DecodeTile(raw)[k].box = raw[i].box /\ DecodeTile(raw)[k].label = raw[i].label
<1> DEFINE D == DOMAIN raw
           before == {p \in D \X D : NmsOrder(raw, p[1], p[2]) \/ (~NmsOrder(raw, p[2], p[1]) /\ p[1] > p[2])}
           victims == [i \in D |-> {j \in D \ {i} : Duplicate(raw, i, j)}]
           K == Greedy(Arranged(D, before), victims)
           kept == Index(raw, K)
           Plain(k) == [box |-> kept[k].box, score |-> kept[k].score, label |-> kept[k].label]
<1>1. DecodeTile(raw) = [k \in DOMAIN kept |-> Plain(k)]
  BY DEF DecodeTile
<1>2. D \in SUBSET Int /\ IsFiniteSet(D) /\ \A i \in D : raw[i] \in Raws
  BY SeqDomain
<1>3. \A i \in D : raw[i].prob \in Int /\ i \in Int
  BY <1>2 DEF Raws
<1>4. victims \in [D -> SUBSET D]
  OBVIOUS
<1>5. \A i, j \in D : <<i, j>> \in before <=> raw[i].prob > raw[j].prob \/ (~ (raw[j].prob > raw[i].prob) /\ i > j)
  BY DEF NmsOrder
<1> HIDE DEF D, before, victims
<1>6. Order(D, before)
  <2> DEFINE v(i) == raw[i].prob
  <2>1. \A i, j \in D : <<i, j>> \in before <=> v(i) > v(j) \/ (~ (v(j) > v(i)) /\ i > j)
    BY <1>5
  <2>2. \A i \in D : v(i) \in Int /\ i \in Int
    BY <1>3
  <2> HIDE DEF v
  <2>3. \A i \in D : <<i, i>> \notin before
    BY <2>1, <2>2
  <2>4. ASSUME NEW i \in D, NEW j \in D, NEW k \in D, <<i, j>> \in before, <<j, k>> \in before
        PROVE  <<i, k>> \in before
    BY <2>1, <2>2, <2>4
  <2>5. ASSUME NEW i \in D, NEW j \in D, i # j PROVE <<i, j>> \in before \/ <<j, i>> \in before
    BY <2>1, <2>2, <2>5
  <2> QED
    BY <2>3, <2>4, <2>5 DEF Order
<1>7. K \subseteq D
  BY <1>2, <1>4, <1>6, GreedyOrder
<1> HIDE DEF K
<1>8. kept \in Seq(Raws) /\ \A k \in DOMAIN kept : \E i \in K : kept[k] = raw[i]
  BY <1>7, IndexFact DEF D
<1> HIDE DEF kept
<1>9. DOMAIN kept = 1 .. Len(kept) /\ Len(kept) \in Nat /\ \A k \in DOMAIN kept : kept[k] \in Raws
  BY <1>8, SeqDomain
<1>10. \A k \in DOMAIN kept : /\ Plain(k) \in TileDets
                               /\ Plain(k).box = kept[k].box /\ Plain(k).label = kept[k].label
  BY <1>9 DEF Raws, TileDets
<1> HIDE DEF Plain
<1>11. DecodeTile(raw) \in [1 .. Len(kept) -> TileDets]
  BY <1>1, <1>9, <1>10
<1>12. \A k \in DOMAIN kept : \E i \in DOMAIN raw :
          DecodeTile(raw)[k].box = raw[i].box /\ DecodeTile(raw)[k].label = raw[i].label
  BY <1>1, <1>7, <1>8, <1>10 DEF D
<1> QED
  BY <1>1, <1>9, <1>11, <1>12, SeqDef

\* A box moved to the frame keeps its size.
LEMMA ToFrameFact ==
  ASSUME NEW box \in RealBoxes, NEW tile \in Squares
  PROVE  ToFrame(box, tile) \in RealBoxes
<1> DEFINE moved == ToFrame(box, tile)
           Off(i) == tile.start[IF i % 2 = 1 THEN 1 ELSE 2]
<1>1. moved = [i \in 1 .. 4 |-> box[i] + Off(i)]
  BY DEF ToFrame
<1>2. /\ \A i \in 1 .. 4 : box[i] \in Int /\ box[1] < box[3] /\ box[2] < box[4]
      /\ tile.start[1] \in Int /\ tile.start[2] \in Int
  BY DEF RealBoxes, Boxes, Squares
<1>3. Off(1) = tile.start[1] /\ Off(3) = tile.start[1] /\ Off(2) = tile.start[2] /\ Off(4) = tile.start[2]
  <2>1. 1 % 2 = 1 /\ 2 % 2 = 0 /\ 3 % 2 = 1 /\ 4 % 2 = 0
    OBVIOUS
  <2> QED
    BY <2>1
<1>4. \A i \in 1 .. 4 : Off(i) \in Int
  BY <1>2
<1> HIDE DEF moved, Off
<1>5. moved \in Boxes
  BY <1>1, <1>2, <1>4 DEF Boxes
<1>6. moved[1] < moved[3] /\ moved[2] < moved[4]
  BY <1>1, <1>2, <1>3
<1> QED
  BY <1>5, <1>6 DEF RealBoxes, moved

\* The detection k of tile t, in the frame (as Gathered lists it).
InFrame(perTile, t, k) ==
    LET d == perTile[t][k]
        cuts == SeamTruncations(d.box, tiles[t], scene.frameSize)
    IN  [box |-> ToFrame(d.box, tiles[t]), score |-> d.score, label |-> d.label,
         tile |-> t, cuts |-> cuts, truncated |-> cuts # {}]

\* Every tile's detections are gathered.
LEMMA GatheredFact ==
  ASSUME NEW perTile \in Seq(Seq(TileDets)), tiles \in Seq(Squares), Len(perTile) <= Len(tiles)
  PROVE  /\ Gathered(perTile) \in Seq(Dets)
         /\ \A t \in DOMAIN perTile : \A k \in DOMAIN perTile[t] :
               \E e \in DOMAIN Gathered(perTile) : Gathered(perTile)[e] = InFrame(perTile, t, k)
         /\ \A e \in DOMAIN Gathered(perTile) : \E t \in DOMAIN perTile : \E k \in DOMAIN perTile[t] :
               Gathered(perTile)[e] = InFrame(perTile, t, k)
<1> DEFINE n == Len(perTile)
           Part(t) == [k \in DOMAIN perTile[t] |-> InFrame(perTile, t, k)]
           s == [t \in DOMAIN perTile |-> Part(t)]
<1>1. Gathered(perTile) = FlattenSeq(s)
  BY DEF Gathered, InFrame
<1>2. DOMAIN perTile = 1 .. n /\ n \in Nat /\ \A t \in 1 .. n : perTile[t] \in Seq(TileDets)
  BY SeqDomain
<1>3. \A t \in 1 .. n : tiles[t] \in Squares /\ t \in Nat
  <2>1. DOMAIN tiles = 1 .. Len(tiles) /\ Len(tiles) \in Nat /\ \A t \in DOMAIN tiles : tiles[t] \in Squares
    BY SeqDomain
  <2> QED
    BY <1>2, <2>1
<1>4. ASSUME NEW t \in 1 .. n
      PROVE  Part(t) \in Seq(Dets) /\ DOMAIN Part(t) = DOMAIN perTile[t]
             /\ \A k \in DOMAIN perTile[t] : Part(t)[k] = InFrame(perTile, t, k)
  <2>1. DOMAIN perTile[t] = 1 .. Len(perTile[t]) /\ Len(perTile[t]) \in Nat
        /\ \A k \in DOMAIN perTile[t] : perTile[t][k] \in TileDets
    BY <1>2, SeqDomain
  <2>2. ASSUME NEW k \in DOMAIN perTile[t] PROVE InFrame(perTile, t, k) \in Dets
    <3> DEFINE d == perTile[t][k]
               cuts == SeamTruncations(d.box, tiles[t], scene.frameSize)
    <3>1. d.box \in RealBoxes /\ d.score \in Nat /\ d.label \in Nat
      BY <2>1 DEF TileDets
    <3>2. ToFrame(d.box, tiles[t]) \in RealBoxes
      BY <1>3, <3>1, ToFrameFact
    <3>3. cuts \in SUBSET Sides
      BY DEF SeamTruncations, SeamSides
    <3>4. (cuts # {}) \in BOOLEAN
      OBVIOUS
    <3>5. InFrame(perTile, t, k) = [box |-> ToFrame(d.box, tiles[t]), score |-> d.score, label |-> d.label,
                                    tile |-> t, cuts |-> cuts, truncated |-> cuts # {}]
      BY DEF InFrame
    <3> HIDE DEF d, cuts
    <3> QED
      BY <1>3, <3>1, <3>2, <3>3, <3>4, <3>5 DEF Dets
  <2>3. Part(t) \in [1 .. Len(perTile[t]) -> Dets]
    BY <2>1, <2>2
  <2> QED
    BY <2>1, <2>3, SeqDef
<1> HIDE DEF Part, n
<1>5. s \in Seq(Seq(Dets)) /\ DOMAIN s = 1 .. n /\ \A t \in 1 .. n : s[t] = Part(t)
  <2>1. s \in [1 .. n -> Seq(Dets)]
    BY <1>2, <1>4
  <2> QED
    BY <1>2, <2>1, SeqDef
<1> HIDE DEF s
<1>6. /\ FlattenSeq(s) \in Seq(Dets) /\ \A t \in DOMAIN s : Holds(FlattenSeq(s), s[t])
      /\ \A e \in DOMAIN FlattenSeq(s) : \E t \in DOMAIN s : From(FlattenSeq(s)[e], s[t])
  BY <1>5, FlattenFact
<1>7. ASSUME NEW t \in DOMAIN perTile, NEW k \in DOMAIN perTile[t]
      PROVE  \E e \in DOMAIN FlattenSeq(s) : FlattenSeq(s)[e] = InFrame(perTile, t, k)
  <2>1. t \in 1 .. n /\ t \in DOMAIN s /\ s[t] = Part(t)
    BY <1>2, <1>5
  <2>2. k \in DOMAIN s[t] /\ s[t][k] = InFrame(perTile, t, k)
    BY <1>4, <2>1
  <2> QED
    BY <1>6, <2>1, <2>2 DEF Holds
<1>8. ASSUME NEW e \in DOMAIN FlattenSeq(s)
      PROVE  \E t \in DOMAIN perTile : \E k \in DOMAIN perTile[t] : FlattenSeq(s)[e] = InFrame(perTile, t, k)
  <2>1. PICK t \in DOMAIN s : From(FlattenSeq(s)[e], s[t])
    BY <1>6
  <2>2. t \in DOMAIN perTile /\ s[t] = Part(t) /\ t \in 1 .. n
    BY <1>2, <1>5
  <2>3. PICK k \in DOMAIN perTile[t] : s[t][k] = FlattenSeq(s)[e]
    BY <1>4, <2>1, <2>2 DEF From
  <2> QED
    BY <1>4, <2>2, <2>3
<1> QED
  BY <1>1, <1>6, <1>7, <1>8

-----------------------------------------------------------------------------
(* What the passes do to a detection that no seam cuts off                   *)

\* A detection that no seam cuts off is a class of its own.
LEMMA LoneFact ==
  ASSUME NEW ds \in Seq(Dets), NEW i \in DOMAIN ds, ds[i].cuts = {}
  PROVE  {i} \in Components(ds)
<1>1. PICK r, d : Forest(DOMAIN ds, Parents(ds, SeamIou), r, d) /\ Sorts(ds, r)
  BY ParentsFact
<1>2. ClosedUnder(ds, {i})
  <2>1. ASSUME NEW y \in DOMAIN ds PROVE ~Near(ds, i, y)
    BY DEF Near, Joins
  <2> QED
    BY <2>1 DEF ClosedUnder
<1>3. \A b \in DOMAIN ds : r[i] = r[b] => b = i
  <2>1. {i} \in SUBSET DOMAIN ds
    OBVIOUS
  <2>2. \A a, b \in DOMAIN ds : a \in {i} /\ r[a] = r[b] => b \in {i}
    BY <1>1, <1>2, <2>1 DEF Sorts
  <2> QED
    BY <2>2
<1>4. {b \in DOMAIN ds : r[b] = r[i]} = {i}
  BY <1>3
<1> QED
  BY <1>1, <1>4, ComponentsFact

\* Fusion leaves a detection that no seam cuts off as it is.
LEMMA FuseKeeps ==
  ASSUME NEW ds \in Seq(Dets), NEW i \in DOMAIN ds, ds[i].cuts = {}
  PROVE  \E k \in DOMAIN FuseSeamFragments(ds, SeamIou) :
            /\ FuseSeamFragments(ds, SeamIou)[k].box = ds[i].box
            /\ FuseSeamFragments(ds, SeamIou)[k].label = ds[i].label
            /\ ~FuseSeamFragments(ds, SeamIou)[k].truncated
<1> DEFINE out == FuseSeamFragments(ds, SeamIou)
<1>1. PICK k \in DOMAIN out : Represents(out[k], ds, {i})
  BY LoneFact, FuseFact
<1>2. {ds[j].box : j \in {i}} = {ds[i].box}
  OBVIOUS
<1>3. ds[i].box \in Boxes
  <2>1. ds[i] \in Dets
    BY SeqDomain
  <2> QED
    BY <2>1 DEF Dets, RealBoxes
<1>4. Enclosing({ds[i].box}) = ds[i].box
  BY <1>3, EnclosingOne
<1> HIDE DEF out
<1>5. out[k].box = ds[i].box /\ out[k].label = ds[i].label /\ ~out[k].truncated
  BY <1>1, <1>2, <1>4 DEF Represents
<1> QED
  BY <1>5 DEF out

\* A box that is not empty overlaps itself entirely.
LEMMA SelfOverlap ==
  ASSUME NEW b \in RealBoxes
  PROVE  IoU(b, b, NmsIou)
<1>1. b[1] \in Int /\ b[2] \in Int /\ b[3] \in Int /\ b[4] \in Int /\ b[1] < b[3] /\ b[2] < b[4]
  BY DEF RealBoxes, Boxes
<1> DEFINE w == b[3] - b[1]
           h == b[4] - b[2]
<1>2. w \in Nat /\ h \in Nat /\ w > 0 /\ h > 0
  BY <1>1
<1>3. Extent(b, 1) = w /\ Extent(b, 2) = h /\ Shared(b, b, 1) = w /\ Shared(b, b, 2) = h
  <2>1. 1 + 2 = 3 /\ 2 + 2 = 4
    OBVIOUS
  <2> QED
    BY <1>1, <2>1 DEF Extent, Shared, Larger, Smaller
<1> HIDE DEF w, h
<1> DEFINE a == w * h
<1>4. Intersection(b, b) = a /\ Area(b) = a
  BY <1>3 DEF Intersection, Area
<1>5. a \in Nat /\ a > 0
  BY <1>2
<1> HIDE DEF a
<1>6. a + a - a > 0 /\ a * 2 >= (a + a - a) * 1
  BY <1>5
<1> QED
  BY <1>4, <1>6 DEF IoU, AtLeast, NmsIou

\* Containment drops fragments only.
LEMMA ContainKeeps ==
  ASSUME NEW ds \in Seq(Dets)
  PROVE  /\ SuppressContained(ds, IosThreshold) \in Seq(Dets)
         /\ \A i \in DOMAIN ds : ~ds[i].truncated =>
               \E k \in DOMAIN SuppressContained(ds, IosThreshold) : SuppressContained(ds, IosThreshold)[k] = ds[i]
<1> DEFINE over == {p \in (DOMAIN ds) \X (DOMAIN ds) : IoS(ds[p[1]].box, ds[p[2]].box, IosThreshold)}
           out == SuppressContained(ds, IosThreshold)
           only == TRUE
<1>1. out = GreedySuppress(ds, over, only)
  BY DEF SuppressContained
<1>0. only \in BOOLEAN /\ only
  OBVIOUS
<1> HIDE DEF over, out, only
<1>2. PICK kept \in SUBSET DOMAIN ds :
         /\ GreedySuppress(ds, over, only) = Index(ds, kept)
         /\ \A i \in DOMAIN ds : i \in kept <=>
               \A j \in kept \ {i} : Outranks(ds, j, i) =>
                   ~ (ds[j].label = ds[i].label /\ <<j, i>> \in over /\ (only => ds[i].truncated))
  BY <1>0, SuppressFact
<1>3. out \in Seq(Dets) /\ \A i \in kept : \E k \in DOMAIN out : out[k] = ds[i]
  BY <1>1, <1>2, IndexFact
<1>4. \A i \in DOMAIN ds : ~ds[i].truncated => i \in kept
  BY <1>0, <1>2
<1> QED
  BY <1>3, <1>4 DEF out

\* What the last pass drops is covered by what it keeps, a complete one by a complete one.
LEMMA NmsCovers ==
  ASSUME NEW ds \in Seq(Dets)
  PROVE  /\ PerClassNms(ds, NmsIou) \in Seq(Dets)
         /\ \A i \in DOMAIN ds : ~ds[i].truncated =>
               \E k \in DOMAIN PerClassNms(ds, NmsIou) :
                  /\ PerClassNms(ds, NmsIou)[k].label = ds[i].label /\ ~PerClassNms(ds, NmsIou)[k].truncated
                  /\ IoU(PerClassNms(ds, NmsIou)[k].box, ds[i].box, NmsIou)
<1> DEFINE over == {p \in (DOMAIN ds) \X (DOMAIN ds) : IoU(ds[p[1]].box, ds[p[2]].box, NmsIou)}
           out == PerClassNms(ds, NmsIou)
           only == FALSE
<1>1. out = GreedySuppress(ds, over, only)
  BY DEF PerClassNms
<1>2. \A i, j \in DOMAIN ds : <<j, i>> \in over <=> IoU(ds[j].box, ds[i].box, NmsIou)
  OBVIOUS
<1>0. only \in BOOLEAN /\ ~only
  OBVIOUS
<1> HIDE DEF over, out, only
<1>3. PICK kept \in SUBSET DOMAIN ds :
         /\ GreedySuppress(ds, over, only) = Index(ds, kept)
         /\ \A i \in DOMAIN ds : i \in kept <=>
               \A j \in kept \ {i} : Outranks(ds, j, i) =>
                   ~ (ds[j].label = ds[i].label /\ <<j, i>> \in over /\ (only => ds[i].truncated))
  BY <1>0, SuppressFact
<1>4. out \in Seq(Dets) /\ \A i \in kept : \E k \in DOMAIN out : out[k] = ds[i]
  BY <1>1, <1>3, IndexFact
<1>5. ASSUME NEW i \in DOMAIN ds, ~ds[i].truncated
      PROVE  \E k \in DOMAIN out : /\ out[k].label = ds[i].label /\ ~out[k].truncated
                                   /\ IoU(out[k].box, ds[i].box, NmsIou)
  <2>1. CASE i \in kept
    <3>1. PICK k \in DOMAIN out : out[k] = ds[i]
      BY <1>4, <2>1
    <3>2. ds[i].box \in RealBoxes
      <4>1. ds[i] \in Dets
        BY SeqDomain
      <4> QED
        BY <4>1 DEF Dets
    <3> QED
      BY <1>5, <3>1, <3>2, SelfOverlap
  <2>2. CASE i \notin kept
    <3>1. PICK j \in kept \ {i} : Outranks(ds, j, i) /\ ds[j].label = ds[i].label /\ <<j, i>> \in over
      BY <1>3, <2>2
    <3>2. ~ds[j].truncated
      BY <1>5, <3>1 DEF Outranks, CompleteFirst
    <3>3. PICK k \in DOMAIN out : out[k] = ds[j]
      BY <1>4, <3>1
    <3> QED
      BY <1>2, <3>1, <3>2, <3>3
  <2> QED
    BY <2>1, <2>2
<1> QED
  BY <1>4, <1>5 DEF out

-----------------------------------------------------------------------------
(* The pieces of one object                                                  *)

\* What a tile shows of an object, in the frame.
Piece(object, tile) == ToFrame(SeenBox(object, tile), tile)

\* What is seen of an object's parts is finite, and boxes.
LEMMA SeenPartsFact ==
  ASSUME NEW object \in Objects, IsFiniteSet(object.parts), NEW tile \in Squares
  PROVE  /\ SeenParts(object, tile) \in SUBSET Boxes /\ IsFiniteSet(SeenParts(object, tile))
         /\ SeenParts(object, tile) \in SUBSET object.parts /\ object.parts \in SUBSET Boxes
<1>1. object.parts \in SUBSET Boxes
  BY DEF Objects
<1>2. SeenParts(object, tile) \in SUBSET object.parts
  BY DEF SeenParts
<1> QED
  BY <1>1, <1>2, FS_Subset

\* The edges of what a tile sees: those of the object where the tile reaches that far, or else
\* the tile's own; and the same edges in the frame.
LEMMA PieceEdges ==
  ASSUME scene.overshoot = 0, NEW object \in Objects, IsFiniteSet(object.parts), NEW tile \in Squares,
         SeenParts(object, tile) # {}, NEW axis \in {1, 2}
  PROVE  LET box  == Enclosing(SeenParts(object, tile))
             low  == tile.start[axis]
             high == low + tile.size
             seen == SeenBox(object, tile)
             piece == Piece(object, tile)
         IN  /\ seen[axis] = Larger(box[axis], low) - low
             /\ seen[axis + 2] = Smaller(box[axis + 2], high) - low
             /\ piece[axis] = Larger(box[axis], low)
             /\ piece[axis + 2] = Smaller(box[axis + 2], high)
<1> DEFINE box == Enclosing(SeenParts(object, tile))
           Start(i) == tile.start[IF i % 2 = 1 THEN 1 ELSE 2]
           Edge(i) == LET at == box[i] - tile.start[IF i % 2 = 1 THEN 1 ELSE 2]
                      IN  IF i <= 2 THEN Larger(at, 0)
                          ELSE IF at >= tile.size THEN tile.size + scene.overshoot ELSE at
           seen == SeenBox(object, tile)
           piece == Piece(object, tile)
<1>1. seen = [i \in 1 .. 4 |-> Edge(i)]
  BY DEF SeenBox
<1>2. piece = [i \in 1 .. 4 |-> seen[i] + Start(i)]
  BY DEF Piece, ToFrame
<1>3. box \in Boxes
  BY SeenPartsFact, EnclosingFact
<1> HIDE DEF box, seen, piece
<1>4. /\ box[1] \in Int /\ box[2] \in Int /\ box[3] \in Int /\ box[4] \in Int
      /\ tile.start[1] \in Int /\ tile.start[2] \in Int /\ tile.size \in Int
  BY <1>3 DEF Boxes, Squares
<1>5. /\ Start(1) = tile.start[1] /\ Start(2) = tile.start[2] /\ Start(3) = tile.start[1] /\ Start(4) = tile.start[2]
      /\ Edge(1) = Larger(box[1] - tile.start[1], 0)
      /\ Edge(2) = Larger(box[2] - tile.start[2], 0)
      /\ Edge(3) = IF box[3] - tile.start[1] >= tile.size THEN tile.size + 0 ELSE box[3] - tile.start[1]
      /\ Edge(4) = IF box[4] - tile.start[2] >= tile.size THEN tile.size + 0 ELSE box[4] - tile.start[2]
  <2>1. 1 % 2 = 1 /\ 2 % 2 = 0 /\ 3 % 2 = 1 /\ 4 % 2 = 0
    OBVIOUS
  <2> QED
    BY <2>1
<1> HIDE DEF Start, Edge
<1>6. /\ seen[1] = Edge(1) /\ seen[2] = Edge(2) /\ seen[3] = Edge(3) /\ seen[4] = Edge(4)
      /\ piece[1] = seen[1] + Start(1) /\ piece[2] = seen[2] + Start(2)
      /\ piece[3] = seen[3] + Start(3) /\ piece[4] = seen[4] + Start(4)
  BY <1>1, <1>2
<1>7. /\ seen[1] = Larger(box[1], tile.start[1]) - tile.start[1] /\ piece[1] = Larger(box[1], tile.start[1])
      /\ seen[2] = Larger(box[2], tile.start[2]) - tile.start[2] /\ piece[2] = Larger(box[2], tile.start[2])
  BY <1>4, <1>5, <1>6 DEF Larger
<1>8. /\ seen[3] = Smaller(box[3], tile.start[1] + tile.size) - tile.start[1]
      /\ piece[3] = Smaller(box[3], tile.start[1] + tile.size)
  BY <1>4, <1>5, <1>6 DEF Smaller
<1>9. /\ seen[4] = Smaller(box[4], tile.start[2] + tile.size) - tile.start[2]
      /\ piece[4] = Smaller(box[4], tile.start[2] + tile.size)
  BY <1>4, <1>5, <1>6 DEF Smaller
<1>10. 1 + 2 = 3 /\ 2 + 2 = 4
  OBVIOUS
<1>11. CASE axis = 1
  BY <1>7, <1>8, <1>10, <1>11 DEF box, seen, piece
<1>12. CASE axis = 2
  BY <1>7, <1>9, <1>10, <1>12 DEF box, seen, piece
<1> QED
  BY <1>11, <1>12

\* The edges of finitely many boxes are finitely many.
LEMMA EdgesFinite ==
  ASSUME NEW boxes, IsFiniteSet(boxes), NEW i
  PROVE  IsFiniteSet({b[i] : b \in boxes})
<1> DEFINE edges == {b[i] : b \in boxes}
           f == [b \in boxes |-> b[i]]
<1>1. f \in Surjection(boxes, edges)
  BY DEF Surjection
<1> HIDE DEF f, edges
<1>2. IsFiniteSet(edges)
  BY <1>1, FS_Surjection
<1> QED
  BY <1>2 DEF edges

\* What encloses some of the boxes is inside what encloses them all.
LEMMA EnclosingMonotone ==
  ASSUME NEW boxes \in SUBSET Boxes, IsFiniteSet(boxes), NEW some \in SUBSET boxes, some # {}
  PROVE  Enclosing(some) \in Boxes /\ Enclosing(boxes) \in Boxes /\ Inside(Enclosing(some), Enclosing(boxes))
<1> DEFINE u == Enclosing(some)
           v == Enclosing(boxes)
<1>1. IsFiniteSet(some) /\ some \in SUBSET Boxes /\ boxes # {}
  BY FS_Subset
<1>2. u \in Boxes /\ v \in Boxes
  BY <1>1, EnclosingFact
<1>3. ASSUME NEW i \in {1, 2} PROVE u[i] >= v[i]
  <2> DEFINE S == {b[i] : b \in some}
             W == {b[i] : b \in boxes}
  <2>1. S \in SUBSET Int /\ S # {} /\ W \in SUBSET Int /\ W # {} /\ S \subseteq W
    <3>1. i \in 1 .. 4
      OBVIOUS
    <3> QED
      BY <1>1, <3>1 DEF Boxes
  <2>2. IsFiniteSet(S) /\ IsFiniteSet(W)
    BY <1>1, EdgesFinite
  <2>3. u[i] = Min(S) /\ v[i] = Min(W)
    BY DEF Enclosing
  <2> HIDE DEF S, W, u, v
  <2>4. Min(S) \in S /\ Min(W) \in W /\ \A y \in W : Min(W) <= y
    BY <2>1, <2>2, MinFact
  <2> QED
    BY <2>1, <2>3, <2>4
<1>4. ASSUME NEW i \in {3, 4} PROVE u[i] <= v[i]
  <2> DEFINE S == {b[i] : b \in some}
             W == {b[i] : b \in boxes}
  <2>1. S \in SUBSET Int /\ S # {} /\ W \in SUBSET Int /\ W # {} /\ S \subseteq W
    <3>1. i \in 1 .. 4
      OBVIOUS
    <3> QED
      BY <1>1, <3>1 DEF Boxes
  <2>2. IsFiniteSet(S) /\ IsFiniteSet(W)
    BY <1>1, EdgesFinite
  <2>3. u[i] = Max(S) /\ v[i] = Max(W)
    BY DEF Enclosing
  <2> HIDE DEF S, W, u, v
  <2>4. Max(S) \in S /\ Max(W) \in W /\ \A y \in W : y <= Max(W)
    BY <2>1, <2>2, MaxFact
  <2> QED
    BY <2>1, <2>3, <2>4
<1> QED
  BY <1>2, <1>3, <1>4 DEF Inside

\* A tile shows nothing beyond the object.
LEMMA PieceInside ==
  ASSUME scene.overshoot = 0, NEW object \in Objects, IsFiniteSet(object.parts), NEW tile \in Squares,
         SeenParts(object, tile) # {}
  PROVE  /\ Piece(object, tile) \in RealBoxes /\ WholeBox(object) \in Boxes
         /\ Inside(Piece(object, tile), WholeBox(object))
<1> DEFINE box == Enclosing(SeenParts(object, tile))
           whole == WholeBox(object)
           piece == Piece(object, tile)
<1>1. piece \in RealBoxes
  BY SeenBoxFact, ToFrameFact DEF Piece
<1>2. box \in Boxes /\ whole \in Boxes /\ Inside(box, whole)
  BY SeenPartsFact, EnclosingMonotone DEF WholeBox
<1>3. ASSUME NEW axis \in {1, 2}
      PROVE  piece[axis] = Larger(box[axis], tile.start[axis])
             /\ piece[axis + 2] = Smaller(box[axis + 2], tile.start[axis] + tile.size)
  BY PieceEdges
<1> HIDE DEF box, whole, piece
<1>4. /\ piece[1] = Larger(box[1], tile.start[1]) /\ piece[3] = Smaller(box[3], tile.start[1] + tile.size)
      /\ piece[2] = Larger(box[2], tile.start[2]) /\ piece[4] = Smaller(box[4], tile.start[2] + tile.size)
  <2>1. 1 + 2 = 3 /\ 2 + 2 = 4
    OBVIOUS
  <2> QED
    BY <1>3, <2>1
<1>5. /\ \A i \in 1 .. 4 : box[i] \in Int /\ whole[i] \in Int
      /\ tile.start[1] \in Int /\ tile.start[2] \in Int /\ tile.size \in Int
  BY <1>2 DEF Boxes, Squares
<1>6. piece[1] >= box[1] /\ piece[2] >= box[2] /\ piece[3] <= box[3] /\ piece[4] <= box[4]
  BY <1>4, <1>5 DEF Larger, Smaller
<1>7. \A i \in 1 .. 4 : piece[i] \in Int
  BY <1>1 DEF RealBoxes, Boxes
<1> QED
  BY <1>1, <1>2, <1>5, <1>6, <1>7 DEF Inside, whole, piece

\* An object of one part, in a frame of size f.
Upright(object, p, f) ==
    /\ object \in Objects /\ object.parts = {p} /\ p \in Boxes /\ f \in Nat
    /\ 0 <= p[1] /\ p[1] < p[3] /\ p[3] <= f
    /\ 0 <= p[2] /\ p[2] < p[4] /\ p[4] <= f

\* A tile sees an object if it overlaps it along both axes.
LEMMA SeesIff ==
  ASSUME NEW object, NEW p, NEW f, Upright(object, p, f), NEW tile \in Squares, tile.size > 0
  PROVE  /\ SeenParts(object, tile) # {} <=>
               \A axis \in {1, 2} : tile.start[axis] < p[axis + 2] /\ p[axis] < tile.start[axis] + tile.size
         /\ SeenParts(object, tile) # {} => SeenParts(object, tile) = {p}
<1> DEFINE t == TileBox(tile)
           Meets == \A axis \in {1, 2} : tile.start[axis] < p[axis + 2] /\ p[axis] < tile.start[axis] + tile.size
<1>1. p \in Boxes /\ object.parts = {p}
  BY DEF Upright
<1>2. SeenParts(object, tile) = {q \in {p} : Intersection(q, t) > 0}
  BY <1>1 DEF SeenParts
<1>3. SeenParts(object, tile) # {} <=> Intersection(p, t) > 0
  BY <1>2
<1>4. ASSUME Intersection(p, t) > 0 PROVE Meets
  BY <1>1, <1>4, PartSeen
<1>5. ASSUME Meets PROVE Intersection(p, t) > 0
  <2>1. 1 + 2 = 3 /\ 2 + 2 = 4
    OBVIOUS
  <2>2. /\ p[1] \in Int /\ p[2] \in Int /\ p[3] \in Int /\ p[4] \in Int /\ p[1] < p[3] /\ p[2] < p[4]
        /\ tile.start[1] \in Int /\ tile.start[2] \in Int /\ tile.size \in Int
    BY DEF Upright, Boxes, Squares
  <2>3. /\ t[1] = tile.start[1] /\ t[2] = tile.start[2]
        /\ t[3] = tile.start[1] + tile.size /\ t[4] = tile.start[2] + tile.size
    BY DEF TileBox
  <2>4. /\ tile.start[1] < p[3] /\ p[1] < tile.start[1] + tile.size
        /\ tile.start[2] < p[4] /\ p[2] < tile.start[2] + tile.size
    BY <1>5, <2>1
  <2> HIDE DEF t
  <2>5. Shared(p, t, 1) \in Nat /\ Shared(p, t, 1) > 0
    BY <2>1, <2>2, <2>3, <2>4 DEF Shared, Larger, Smaller
  <2>6. Shared(p, t, 2) \in Nat /\ Shared(p, t, 2) > 0
    BY <2>1, <2>2, <2>3, <2>4 DEF Shared, Larger, Smaller
  <2> DEFINE a == Shared(p, t, 1)
             b == Shared(p, t, 2)
  <2>7. a * b > 0
    <3> HIDE DEF a, b
    <3>1. a \in Nat /\ b \in Nat /\ a > 0 /\ b > 0
      BY <2>5, <2>6 DEF a, b
    <3> QED
      BY <3>1
  <2> QED
    BY <2>7 DEF Intersection
<1> HIDE DEF Meets
<1>6. SeenParts(object, tile) # {} <=> Meets
  BY <1>3, <1>4, <1>5
<1> QED
  BY <1>2, <1>6 DEF Meets

\* The edges of the piece a tile sees of it.
LEMMA UprightPiece ==
  ASSUME scene.overshoot = 0, NEW object, NEW p, NEW f, Upright(object, p, f), NEW tile \in Squares,
         tile.size > 0, SeenParts(object, tile) # {}, NEW axis \in {1, 2}
  PROVE  LET low  == tile.start[axis]
             high == low + tile.size
             seen == SeenBox(object, tile)
             piece == Piece(object, tile)
         IN  /\ low \in Int /\ high \in Int /\ p[axis] \in Int /\ p[axis + 2] \in Int
             /\ 0 <= p[axis] /\ p[axis] < p[axis + 2] /\ p[axis + 2] <= f
             /\ low < p[axis + 2] /\ p[axis] < high
             /\ seen[axis] = Larger(p[axis], low) - low
             /\ seen[axis + 2] = Smaller(p[axis + 2], high) - low
             /\ piece[axis] = Larger(p[axis], low)
             /\ piece[axis + 2] = Smaller(p[axis + 2], high)
<1>1. object \in Objects /\ IsFiniteSet(object.parts) /\ p \in Boxes
  BY FS_Singleton DEF Upright
<1>2. SeenParts(object, tile) = {p}
  BY SeesIff
<1>3. Enclosing(SeenParts(object, tile)) = p
  BY <1>1, <1>2, EnclosingOne
<1>4. 1 + 2 = 3 /\ 2 + 2 = 4
  OBVIOUS
<1>5. /\ p[axis] \in Int /\ p[axis + 2] \in Int
      /\ 0 <= p[axis] /\ p[axis] < p[axis + 2] /\ p[axis + 2] <= f
  <2>1. CASE axis = 1
    BY <1>4, <2>1 DEF Upright, Boxes
  <2>2. CASE axis = 2
    BY <1>4, <2>2 DEF Upright, Boxes
  <2> QED
    BY <2>1, <2>2
<1>6. tile.start[axis] < p[axis + 2] /\ p[axis] < tile.start[axis] + tile.size
  BY SeesIff
<1>7. tile.start[axis] \in Int /\ tile.start[axis] + tile.size \in Int
  BY DEF Squares
<1> QED
  BY <1>1, <1>3, <1>5, <1>6, <1>7, PieceEdges

\* The box of an object of one part is that part.
LEMMA UprightWhole ==
  ASSUME NEW object, NEW p, NEW f, Upright(object, p, f)
  PROVE  WholeBox(object) = p
BY EnclosingOne DEF Upright, WholeBox

\* When an edge of a box counts as cut off.
LEMMA CutIff ==
  ASSUME NEW box, NEW tile, NEW f, NEW axis \in {1, 2}
  PROVE  /\ <<axis, 0>> \in SeamTruncations(box, tile, f) <=> tile.start[axis] > 0 /\ 20 * box[axis] <= tile.size
         /\ <<axis, 1>> \in SeamTruncations(box, tile, f) <=>
               tile.start[axis] + tile.size < f /\ 20 * box[axis + 2] >= 19 * tile.size
<1>1. <<axis, 0>> \in Sides /\ <<axis, 1>> \in Sides
  BY DEF Sides
<1>2. 0 # 1
  OBVIOUS
<1> QED
  BY <1>1, <1>2 DEF SeamTruncations, SeamSides

\* A piece that is not the whole object is cut off by a seam.
LEMMA PieceIsCut ==
  ASSUME scene.overshoot = 0, NEW object, NEW p, NEW f, Upright(object, p, f), NEW tile \in Squares,
         tile.size > 0, SeenParts(object, tile) # {}, Piece(object, tile) # p
  PROVE  SeamTruncations(SeenBox(object, tile), tile, f) # {}
<1> DEFINE seen == SeenBox(object, tile)
           piece == Piece(object, tile)
           cuts == SeamTruncations(seen, tile, f)
<1>1. piece \in Boxes /\ p \in Boxes
  <2>1. object \in Objects /\ IsFiniteSet(object.parts) /\ p \in Boxes
    BY FS_Singleton DEF Upright
  <2> QED
    BY <2>1, PieceInside DEF RealBoxes
<1>2. PICK axis \in {1, 2} : piece[axis] # p[axis] \/ piece[axis + 2] # p[axis + 2]
  <2>1. 1 + 2 = 3 /\ 2 + 2 = 4
    OBVIOUS
  <2>2. \A i \in 1 .. 4 : i = 1 \/ i = 2 \/ i = 3 \/ i = 4
    OBVIOUS
  <2>3. \E i \in 1 .. 4 : piece[i] # p[i]
    <3> HIDE DEF piece
    <3>1. piece # p
      BY DEF piece
    <3> QED
      BY <1>1, <3>1 DEF Boxes
  <2> HIDE DEF piece
  <2> QED
    BY <2>1, <2>2, <2>3
<1> DEFINE low == tile.start[axis]
           n == tile.size
           a == p[axis]
           b == p[axis + 2]
<1>3. /\ low \in Int /\ low + n \in Int /\ a \in Int /\ b \in Int /\ n \in Int /\ f \in Nat
      /\ 0 <= a /\ a < b /\ b <= f /\ low < b /\ a < low + n /\ n > 0
      /\ seen[axis] = Larger(a, low) - low /\ seen[axis + 2] = Smaller(b, low + n) - low
      /\ piece[axis] = Larger(a, low) /\ piece[axis + 2] = Smaller(b, low + n)
  BY UprightPiece DEF Upright, Squares
<1>4. /\ <<axis, 0>> \in cuts <=> low > 0 /\ 20 * seen[axis] <= n
      /\ <<axis, 1>> \in cuts <=> low + n < f /\ 20 * seen[axis + 2] >= 19 * n
  BY CutIff
<1> HIDE DEF low, n, a, b, seen, piece, cuts
<1>5. CASE piece[axis] # a
  <2>1. a < low /\ low > 0 /\ seen[axis] = 0
    BY <1>3, <1>5 DEF Larger
  <2>2. 20 * seen[axis] <= n
    BY <1>3, <2>1
  <2> QED
    BY <1>4, <2>1, <2>2 DEF cuts, seen
<1>6. CASE piece[axis + 2] # b
  <2>1. low + n < b /\ low + n < f /\ seen[axis + 2] = n
    BY <1>3, <1>6 DEF Smaller
  <2>2. 20 * seen[axis + 2] >= 19 * n
    BY <1>3, <2>1
  <2> QED
    BY <1>4, <2>1, <2>2 DEF cuts, seen
<1> QED
  BY <1>2, <1>5, <1>6 DEF piece, a, b

\* A tile that is the whole frame shows the whole object, and nothing cuts it off.
LEMMA FullPiece ==
  ASSUME scene.overshoot = 0, NEW object, NEW p, NEW f, Upright(object, p, f)
  PROVE  LET tile == Tile(0, 0, f)
         IN  /\ tile \in Squares /\ SeenParts(object, tile) # {} /\ Piece(object, tile) = p
             /\ SeamTruncations(SeenBox(object, tile), tile, f) = {}
<1> DEFINE tile == Tile(0, 0, f)
<1>1. /\ f \in Nat /\ p \in Boxes /\ 0 <= p[1] /\ p[1] < p[3] /\ p[3] <= f
      /\ 0 <= p[2] /\ p[2] < p[4] /\ p[4] <= f
  BY DEF Upright
<1>2. tile \in Squares /\ tile.start[1] = 0 /\ tile.start[2] = 0 /\ tile.size = f
  BY <1>1, TileIsSquare
<1> HIDE DEF tile
<1>3. \A i \in 1 .. 4 : p[i] \in Int
  BY <1>1 DEF Boxes
<1>4. f > 0
  BY <1>1, <1>3
<1>5. 1 + 2 = 3 /\ 2 + 2 = 4
  OBVIOUS
<1>6. SeenParts(object, tile) # {}
  <2>1. \A axis \in {1, 2} : tile.start[axis] < p[axis + 2] /\ p[axis] < tile.start[axis] + tile.size
    BY <1>1, <1>2, <1>3, <1>5
  <2> QED
    BY <1>2, <1>4, <2>1, SeesIff
<1>7. SeamTruncations(SeenBox(object, tile), tile, f) = {}
  BY <1>1, <1>2 DEF SeamTruncations, SeamSides, Sides
<1>8. Piece(object, tile) = p
  BY <1>2, <1>4, <1>6, <1>7, PieceIsCut
<1> QED
  BY <1>2, <1>6, <1>7, <1>8 DEF tile

\* Quadrants that meet, or overlap by less than the margin.
Meeting(f, n) == f \in Nat /\ n \in Nat /\ 0 < n /\ n < f /\ f <= 2 * n /\ 20 * (2 * n - f) <= n

\* Two quadrants side by side cut an object into fragments that join.
LEMMA QuadrantsJoin ==
  ASSUME scene.overshoot = 0, NEW object, NEW p, NEW f, Upright(object, p, f), NEW n, Meeting(f, n),
         NEW t \in Squares, NEW u \in Squares, t.size = n, u.size = n,
         NEW axis \in {1, 2}, t.start[axis] = 0, u.start[axis] = f - n,
         t.start[3 - axis] = u.start[3 - axis],
         SeenParts(object, t) # {}, SeenParts(object, u) # {},
         NEW a, NEW b, a.label = b.label, a.tile # b.tile,
         a.box = Piece(object, t), b.box = Piece(object, u),
         a.cuts = SeamTruncations(SeenBox(object, t), t, f), b.cuts = SeamTruncations(SeenBox(object, u), u, f)
  PROVE  Joins(a, b, SeamIou)
<1> DEFINE low == p[axis]
           high == p[axis + 2]
           other == 3 - axis
           s == t.start[other]
           from == p[other]
           to == p[other + 2]
<1>1. f \in Nat /\ n \in Nat /\ 0 < n /\ n < f /\ f <= 2 * n /\ 20 * (2 * n - f) <= n
  BY DEF Meeting
<1>2. other \in {1, 2} /\ t.size > 0 /\ u.size > 0
  BY <1>1
<1>3. /\ low \in Int /\ high \in Int /\ 0 <= low /\ low < high /\ high <= f
      /\ 0 < high /\ low < 0 + n /\ f - n < high /\ low < (f - n) + n
      /\ SeenBox(object, t)[axis + 2] = Smaller(high, 0 + n) - 0
      /\ SeenBox(object, u)[axis] = Larger(low, f - n) - (f - n)
      /\ Piece(object, t)[axis] = Larger(low, 0) /\ Piece(object, t)[axis + 2] = Smaller(high, 0 + n)
      /\ Piece(object, u)[axis] = Larger(low, f - n) /\ Piece(object, u)[axis + 2] = Smaller(high, (f - n) + n)
  BY <1>2, UprightPiece
<1>4. /\ from \in Int /\ to \in Int /\ s \in Int /\ from < to /\ s < to /\ from < s + n
      /\ a.box[other] = Larger(from, s) /\ a.box[other + 2] = Smaller(to, s + n)
      /\ b.box[other] = Larger(from, s) /\ b.box[other + 2] = Smaller(to, s + n)
  BY <1>2, UprightPiece
<1>5. <<axis, 1>> \in a.cuts
  <2>1. 0 + n < f /\ 20 * SeenBox(object, t)[axis + 2] >= 19 * n
    BY <1>1, <1>3 DEF Smaller
  <2> QED
    BY <2>1, CutIff
<1>6. <<axis, 0>> \in b.cuts
  <2>1. f - n > 0 /\ 20 * SeenBox(object, u)[axis] <= n
    BY <1>1, <1>3 DEF Larger
  <2> QED
    BY <2>1, CutIff
<1>7. /\ a.box[axis] = low /\ a.box[axis + 2] = Smaller(high, n)
      /\ b.box[axis] = Larger(low, f - n) /\ b.box[axis + 2] = high
  BY <1>1, <1>3 DEF Larger, Smaller
<1>8. a.box[axis] <= b.box[axis] /\ a.box[axis + 2] <= b.box[axis + 2] /\ Meet(a.box, b.box, axis)
  <2>1. a.box[axis] <= b.box[axis]
    BY <1>1, <1>3, <1>7 DEF Larger
  <2>2. a.box[axis + 2] <= b.box[axis + 2]
    BY <1>1, <1>3, <1>7 DEF Smaller
  <2>3. a.box[axis + 2] >= b.box[axis]
    BY <1>1, <1>3, <1>7 DEF Smaller, Larger
  <2> QED
    BY <2>1, <2>2, <2>3 DEF Meet
<1>9. ProjectionIoU(a.box, b.box, other, SeamIou)
  <2> DEFINE l == Larger(from, s)
             h == Smaller(to, s + n)
             e == h - l
  <2>1. l \in Int /\ h \in Int /\ e > 0
    BY <1>1, <1>4 DEF Larger, Smaller
  <2>2. a.box[other] = l /\ b.box[other] = l /\ a.box[other + 2] = h /\ b.box[other + 2] = h
    BY <1>4
  <2> HIDE DEF l, h, other
  <2>3. Shared(a.box, b.box, other) = e /\ Extent(a.box, other) = e /\ Extent(b.box, other) = e
    BY <2>1, <2>2 DEF Shared, Extent, Larger, Smaller
  <2>4. e + e - e > 0 /\ e * 5 >= (e + e - e) * 1
    BY <2>1
  <2> QED
    BY <2>3, <2>4 DEF ProjectionIoU, AtLeast, SeamIou
<1>10. FragmentsJoin(a.box, b.box, axis, SeamIou)
  BY <1>8, <1>9 DEF FragmentsJoin
<1> QED
  BY <1>5, <1>6, <1>10 DEF Joins, SameLabel

-----------------------------------------------------------------------------
\* d is the piece of the object that tile t shows.
IsPiece(d, object, t) ==
    /\ SeenParts(object, tiles[t]) # {}
    /\ d.box = Piece(object, tiles[t]) /\ d.label = object.label /\ d.tile = t
    /\ d.cuts = SeamTruncations(SeenBox(object, tiles[t]), tiles[t], scene.frameSize)
    /\ d.truncated <=> d.cuts # {}

\* Nothing but pieces, and one of every tile that sees the object.
Pieces(ds, object) == \A i \in DOMAIN ds : \E t \in DOMAIN tiles : IsPiece(ds[i], object, t)
Reported(ds, object) ==
    \A t \in DOMAIN tiles : SeenParts(object, tiles[t]) # {} => \E i \in DOMAIN ds : IsPiece(ds[i], object, t)

\* The first four tiles are the quadrants.
Quartered(f, n) == \A k \in 1 .. 4 : k \in DOMAIN tiles /\ tiles[k] = Quadrants(f, n)[k]

IsTile(tile, x, y, n) == tile \in Squares /\ tile.size = n /\ tile.start[1] = x /\ tile.start[2] = y

\* Where the quadrants are.
LEMMA QuadrantStarts ==
  ASSUME NEW f, NEW n, Meeting(f, n), Quartered(f, n)
  PROVE  /\ IsTile(tiles[1], 0, 0, n) /\ IsTile(tiles[2], f - n, 0, n)
         /\ IsTile(tiles[3], 0, f - n, n) /\ IsTile(tiles[4], f - n, f - n, n)
<1> DEFINE step == f - n
<1>1. /\ tiles[1] = Tile(0, 0, n) /\ tiles[2] = Tile(step, 0, n)
      /\ tiles[3] = Tile(0, step, n) /\ tiles[4] = Tile(step, step, n)
  BY DEF Quartered, Quadrants
<1>2. step \in Int /\ n \in Int
  BY DEF Meeting
<1> HIDE DEF step
<1>3. IsTile(tiles[1], 0, 0, n)
  <2>1. 0 \in Int
    OBVIOUS
  <2>2. Tile(0, 0, n) \in Squares /\ Tile(0, 0, n).start[1] = 0 /\ Tile(0, 0, n).start[2] = 0 /\ Tile(0, 0, n).size = n
    BY <1>2, <2>1, TileIsSquare
  <2> QED
    BY <1>1, <2>2 DEF IsTile
<1>4. IsTile(tiles[2], step, 0, n)
  BY <1>1, <1>2, TileIsSquare DEF IsTile
<1>5. IsTile(tiles[3], 0, step, n)
  BY <1>1, <1>2, TileIsSquare DEF IsTile
<1>6. IsTile(tiles[4], step, step, n)
  BY <1>1, <1>2, TileIsSquare DEF IsTile
<1> QED
  BY <1>3, <1>4, <1>5, <1>6 DEF step

\* Beside each quadrant, along either axis, there is another.
LEMMA QuadrantTiles ==
  ASSUME NEW f, NEW n, Meeting(f, n), Quartered(f, n), NEW k \in 1 .. 4
  PROVE  /\ k \in DOMAIN tiles /\ tiles[k] \in Squares /\ tiles[k].size = n
         /\ \A axis \in {1, 2} : tiles[k].start[axis] = 0 \/ tiles[k].start[axis] = f - n
         /\ \A axis \in {1, 2} : \E j \in 1 .. 4 :
               /\ j # k /\ tiles[j].start[3 - axis] = tiles[k].start[3 - axis]
               /\ tiles[k].start[axis] = 0 => tiles[j].start[axis] = f - n
               /\ tiles[k].start[axis] = f - n => tiles[j].start[axis] = 0
<1>1. f \in Nat /\ n \in Nat /\ 0 < n /\ n < f
  BY DEF Meeting
<1> DEFINE step == f - n
<1>2. /\ IsTile(tiles[1], 0, 0, n) /\ IsTile(tiles[2], step, 0, n)
      /\ IsTile(tiles[3], 0, step, n) /\ IsTile(tiles[4], step, step, n)
  BY QuadrantStarts
<1>3. step \in Int /\ step # 0 /\ n \in Int
  BY <1>1
<1> HIDE DEF step
<1>4. /\ tiles[1] \in Squares /\ tiles[1].size = n /\ tiles[1].start[1] = 0 /\ tiles[1].start[2] = 0
      /\ tiles[2] \in Squares /\ tiles[2].size = n /\ tiles[2].start[1] = step /\ tiles[2].start[2] = 0
      /\ tiles[3] \in Squares /\ tiles[3].size = n /\ tiles[3].start[1] = 0 /\ tiles[3].start[2] = step
      /\ tiles[4] \in Squares /\ tiles[4].size = n /\ tiles[4].start[1] = step /\ tiles[4].start[2] = step
  BY <1>2 DEF IsTile
<1>5. k \in DOMAIN tiles
  BY DEF Quartered
<1>6. k = 1 \/ k = 2 \/ k = 3 \/ k = 4
  OBVIOUS
<1>7. 3 - 1 = 2 /\ 3 - 2 = 1
  OBVIOUS
<1>8. tiles[k] \in Squares /\ tiles[k].size = n /\ \A axis \in {1, 2} : tiles[k].start[axis] = 0 \/ tiles[k].start[axis] = step
  BY <1>4, <1>6
<1> DEFINE Beside(j, axis) == /\ j # k /\ tiles[j].start[3 - axis] = tiles[k].start[3 - axis]
                              /\ tiles[k].start[axis] = 0 => tiles[j].start[axis] = step
                              /\ tiles[k].start[axis] = step => tiles[j].start[axis] = 0
<1>9. \E j \in 1 .. 4 : Beside(j, 1)
  <2>1. CASE k = 1
    <3>1. Beside(2, 1)
      BY <1>3, <1>4, <1>7, <2>1
    <3> QED
      BY <3>1
  <2>2. CASE k = 2
    <3>1. Beside(1, 1)
      BY <1>3, <1>4, <1>7, <2>2
    <3> QED
      BY <3>1
  <2>3. CASE k = 3
    <3>1. Beside(4, 1)
      BY <1>3, <1>4, <1>7, <2>3
    <3> QED
      BY <3>1
  <2>4. CASE k = 4
    <3>1. Beside(3, 1)
      BY <1>3, <1>4, <1>7, <2>4
    <3> QED
      BY <3>1
  <2> QED
    BY <1>6, <2>1, <2>2, <2>3, <2>4
<1>10. \E j \in 1 .. 4 : Beside(j, 2)
  <2>1. CASE k = 1
    <3>1. Beside(3, 2)
      BY <1>3, <1>4, <1>7, <2>1
    <3> QED
      BY <3>1
  <2>2. CASE k = 2
    <3>1. Beside(4, 2)
      BY <1>3, <1>4, <1>7, <2>2
    <3> QED
      BY <3>1
  <2>3. CASE k = 3
    <3>1. Beside(1, 2)
      BY <1>3, <1>4, <1>7, <2>3
    <3> QED
      BY <3>1
  <2>4. CASE k = 4
    <3>1. Beside(2, 2)
      BY <1>3, <1>4, <1>7, <2>4
    <3> QED
      BY <3>1
  <2> QED
    BY <1>6, <2>1, <2>2, <2>3, <2>4
<1>11. \A axis \in {1, 2} : \E j \in 1 .. 4 : Beside(j, axis)
  <2> HIDE DEF Beside
  <2> QED
    BY <1>9, <1>10
<1> QED
  BY <1>5, <1>8, <1>11 DEF step

\* The piece of a quadrant and what joins it reach as far as the object, either way.
LEMMA QuadrantReaches ==
  ASSUME scene.overshoot = 0, NEW object, NEW p, Upright(object, p, scene.frameSize),
         NEW n, Meeting(scene.frameSize, n), Quartered(scene.frameSize, n),
         NEW ds, Reported(ds, object),
         NEW q \in DOMAIN ds, NEW t \in 1 .. 4, IsPiece(ds[q], object, t), NEW axis \in {1, 2}
  PROVE  /\ \E x \in DOMAIN ds : (x = q \/ Near(ds, q, x)) /\ ds[x].box[axis] = p[axis]
         /\ \E x \in DOMAIN ds : (x = q \/ Near(ds, q, x)) /\ ds[x].box[axis + 2] = p[axis + 2]
<1> DEFINE f == scene.frameSize
           low == p[axis]
           high == p[axis + 2]
<1>1. f \in Nat /\ n \in Nat /\ 0 < n /\ n < f /\ f <= 2 * n
  BY DEF Meeting
<1>2. /\ t \in DOMAIN tiles /\ tiles[t] \in Squares /\ tiles[t].size = n
      /\ tiles[t].start[axis] = 0 \/ tiles[t].start[axis] = f - n
  BY QuadrantTiles
<1>3. PICK u \in 1 .. 4 :
         /\ u # t /\ tiles[u].start[3 - axis] = tiles[t].start[3 - axis]
         /\ tiles[t].start[axis] = 0 => tiles[u].start[axis] = f - n
         /\ tiles[t].start[axis] = f - n => tiles[u].start[axis] = 0
  BY QuadrantTiles
<1>4. u \in DOMAIN tiles /\ tiles[u] \in Squares /\ tiles[u].size = n
  BY QuadrantTiles
<1>5. /\ SeenParts(object, tiles[t]) # {} /\ ds[q].box = Piece(object, tiles[t]) /\ ds[q].label = object.label
      /\ ds[q].tile = t /\ ds[q].cuts = SeamTruncations(SeenBox(object, tiles[t]), tiles[t], f)
  BY DEF IsPiece
<1>6. /\ low \in Int /\ high \in Int /\ 0 <= low /\ low < high /\ high <= f
      /\ ds[q].box[axis] = Larger(low, tiles[t].start[axis])
      /\ ds[q].box[axis + 2] = Smaller(high, tiles[t].start[axis] + n)
  BY <1>1, <1>2, <1>5, UprightPiece
<1>7. ASSUME tiles[u].start[axis] < high, low < tiles[u].start[axis] + n
      PROVE  \E x \in DOMAIN ds : /\ IsPiece(ds[x], object, u)
                                  /\ ds[x].box[axis] = Larger(low, tiles[u].start[axis])
                                  /\ ds[x].box[axis + 2] = Smaller(high, tiles[u].start[axis] + n)
  <2>1. \A x \in {1, 2} : tiles[u].start[x] < p[x + 2] /\ p[x] < tiles[u].start[x] + n
    <3>1. 3 - axis \in {1, 2} /\ \A x \in {1, 2} : x = axis \/ x = 3 - axis
      OBVIOUS
    <3>2. \A x \in {1, 2} : tiles[t].start[x] < p[x + 2] /\ p[x] < tiles[t].start[x] + n
      BY <1>1, <1>2, <1>5, SeesIff
    <3> HIDE DEF low, high
    <3>3. tiles[u].start[3 - axis] < p[(3 - axis) + 2] /\ p[3 - axis] < tiles[u].start[3 - axis] + n
      BY <1>3, <3>1, <3>2
    <3> QED
      BY <1>7, <3>1, <3>3 DEF low, high
  <2>2. SeenParts(object, tiles[u]) # {}
    BY <1>1, <1>4, <2>1, SeesIff
  <2>3. PICK x \in DOMAIN ds : IsPiece(ds[x], object, u)
    BY <1>4, <2>2 DEF Reported
  <2>4. ds[x].box = Piece(object, tiles[u])
    BY <2>3 DEF IsPiece
  <2> QED
    BY <1>1, <1>4, <2>2, <2>3, <2>4, UprightPiece
<1>8. ASSUME NEW x \in DOMAIN ds, IsPiece(ds[x], object, u)
      PROVE  Near(ds, q, x)
  <2>1. /\ SeenParts(object, tiles[u]) # {} /\ ds[x].box = Piece(object, tiles[u]) /\ ds[x].label = object.label
        /\ ds[x].tile = u /\ ds[x].cuts = SeamTruncations(SeenBox(object, tiles[u]), tiles[u], f)
    BY <1>8 DEF IsPiece
  <2>2. ds[q].label = ds[x].label /\ ds[q].tile # ds[x].tile
    BY <1>3, <1>5, <2>1
  <2>3. CASE tiles[t].start[axis] = 0
    <3>1. Joins(ds[q], ds[x], SeamIou)
      BY <1>2, <1>3, <1>4, <1>5, <2>1, <2>2, <2>3, QuadrantsJoin
    <3> QED
      BY <3>1 DEF Near
  <2>4. CASE tiles[t].start[axis] = f - n
    <3>1. Joins(ds[x], ds[q], SeamIou)
      BY <1>2, <1>3, <1>4, <1>5, <2>1, <2>2, <2>4, QuadrantsJoin
    <3> QED
      BY <3>1 DEF Near
  <2> QED
    BY <1>2, <2>3, <2>4
<1> DEFINE at == tiles[t].start[axis]
           by == tiles[u].start[axis]
<1>9. CASE at = 0
  <2>1. by = f - n
    BY <1>3, <1>9
  <2>2. ds[q].box[axis] = low
    BY <1>1, <1>6, <1>9 DEF Larger
  <2>3. CASE high <= n
    <3>1. ds[q].box[axis + 2] = high
      BY <1>1, <1>6, <1>9, <2>3 DEF Smaller
    <3> QED
      BY <2>2, <3>1
  <2>4. CASE ~ (high <= n)
    <3>1. by < high /\ low < by + n
      BY <1>1, <1>6, <2>1, <2>4
    <3>2. PICK x \in DOMAIN ds : IsPiece(ds[x], object, u) /\ ds[x].box[axis + 2] = Smaller(high, by + n)
      BY <1>7, <3>1
    <3>3. Near(ds, q, x)
      BY <1>8, <3>2
    <3>4. Smaller(high, by + n) = high
      BY <1>1, <1>6, <2>1 DEF Smaller
    <3> QED
      BY <2>2, <3>2, <3>3, <3>4
  <2> QED
    BY <2>3, <2>4
<1>10. CASE at = f - n
  <2>1. by = 0
    BY <1>3, <1>10
  <2>2. ds[q].box[axis + 2] = high
    BY <1>1, <1>6, <1>10 DEF Smaller
  <2>3. CASE low >= f - n
    <3>1. ds[q].box[axis] = low
      BY <1>1, <1>6, <1>10, <2>3 DEF Larger
    <3> QED
      BY <2>2, <3>1
  <2>4. CASE ~ (low >= f - n)
    <3>1. by < high /\ low < by + n
      BY <1>1, <1>6, <2>1, <2>4
    <3>2. PICK x \in DOMAIN ds : IsPiece(ds[x], object, u) /\ ds[x].box[axis] = Larger(low, by)
      BY <1>7, <3>1
    <3>3. Near(ds, q, x)
      BY <1>8, <3>2
    <3>4. Larger(low, by) = low
      BY <1>1, <1>6, <2>1 DEF Larger
    <3> QED
      BY <2>2, <3>2, <3>3, <3>4
  <2> QED
    BY <2>3, <2>4
<1> QED
  BY <1>2, <1>9, <1>10

\* Any tile but the quadrants is the one in the center, or the whole frame.
LEMMA LayoutRest ==
  ASSUME NEW layout \in Layouts, layout # "whole", NEW f \in Nat \ {0}, NEW t \in Nat \ {0},
         NEW k \in DOMAIN MakeTileLayout(layout, f, t)
  PROVE  \/ k \in 1 .. 4 \/ MakeTileLayout(layout, f, t)[k] = Tile(0, 0, f)
         \/ k = 5 /\ MakeTileLayout(layout, f, t)[k] = Center(f, t)
<1> DEFINE whole  == <<Tile(0, 0, f)>>
           middle == <<Center(f, t)>>
           four   == Quadrants(f, t)
           center == IF layout \in {"quadrants_center", "quadrants_center_global"} THEN middle ELSE <<>>
           global == IF layout \in {"quadrants_global", "quadrants_center_global"} THEN whole ELSE <<>>
           five   == four \o center
           made   == MakeTileLayout(layout, f, t)
           E == {four[1], four[2], four[3], four[4], Center(f, t), Tile(0, 0, f)}
<1>1. made = five \o global
  BY DEF MakeTileLayout
<1>2. four = <<four[1], four[2], four[3], four[4]>> /\ four \in Seq(E) /\ Len(four) = 4
  BY DEF Quadrants
<1>3. /\ whole \in Seq(E) /\ Len(whole) = 1 /\ whole[1] = Tile(0, 0, f)
      /\ middle \in Seq(E) /\ Len(middle) = 1 /\ middle[1] = Center(f, t)
      /\ <<>> \in Seq(E) /\ Len(<<>>) = 0
  <2> HIDE DEF four
  <2> QED
    OBVIOUS
<1> HIDE DEF whole, middle, four, E
<1>4. /\ center \in Seq(E) /\ Len(center) \in {0, 1} /\ (Len(center) = 1 => center[1] = Center(f, t))
      /\ global \in Seq(E) /\ Len(global) \in {0, 1} /\ (Len(global) = 1 => global[1] = Tile(0, 0, f))
  BY <1>3
<1> HIDE DEF center, global
<1>5. /\ five \in Seq(E) /\ Len(five) = 4 + Len(center)
      /\ \A j \in 1 .. 4 + Len(center) : five[j] = IF j <= 4 THEN four[j] ELSE center[j - 4]
  <2>1. /\ five \in Seq(E) /\ Len(five) = Len(four) + Len(center)
        /\ \A j \in 1 .. Len(four) + Len(center) :
              five[j] = IF j <= Len(four) THEN four[j] ELSE center[j - Len(four)]
    <3>1. four \in Seq(E) /\ center \in Seq(E)
      BY <1>2, <1>4
    <3> QED
      BY <3>1, ConcatProperties
  <2> HIDE DEF five
  <2>2. Len(four) = 4
    BY <1>2
  <2> QED
    BY <2>1, <2>2
<1> HIDE DEF five, made
<1>6. /\ made \in Seq(E) /\ Len(made) = Len(five) + Len(global)
      /\ \A j \in 1 .. Len(five) + Len(global) :
            made[j] = IF j <= Len(five) THEN five[j] ELSE global[j - Len(five)]
  BY <1>1, <1>4, <1>5, ConcatProperties
<1>7. k \in 1 .. Len(five) + Len(global)
  BY <1>6, LenProperties DEF made
<1>8. CASE k \in 1 .. 4
  BY <1>8
<1>9. CASE k \notin 1 .. 4 /\ k <= Len(five)
  <2>1. k = 5 /\ Len(center) = 1 /\ k - 4 = 1
    <3> DEFINE m == Len(five)
               g == Len(global)
               c == Len(center)
    <3>1. m = 4 + c /\ c \in {0, 1} /\ g \in {0, 1} /\ k \in 1 .. m + g /\ k \notin 1 .. 4 /\ k <= m
      BY <1>4, <1>5, <1>7, <1>9
    <3> HIDE DEF m, g, c
    <3>2. k = 5 /\ c = 1 /\ k - 4 = 1
      BY <3>1
    <3> QED
      BY <3>2 DEF c
  <2>2. made[k] = five[k]
    BY <1>6, <1>7, <1>9
  <2>3. five[k] = center[k - 4]
    <3>1. k \in 1 .. 4 + Len(center) /\ ~ (k <= 4)
      BY <2>1
    <3> QED
      BY <1>5, <3>1
  <2> QED
    BY <1>4, <2>1, <2>2, <2>3 DEF made
<1>10. CASE k \notin 1 .. 4 /\ ~ (k <= Len(five))
  <2> DEFINE m == Len(five)
             g == Len(global)
  <2>0. m \in Nat /\ g \in {0, 1} /\ k \in 1 .. m + g /\ ~ (k <= m)
    BY <1>4, <1>5, <1>7, <1>10
  <2>1. g = 1 /\ k - m = 1
    <3> HIDE DEF m, g
    <3> QED
      BY <2>0
  <2>2. made[k] = global[k - Len(five)]
    BY <1>6, <1>7, <1>10
  <2>3. made[k] = global[1]
    BY <2>1, <2>2
  <2> QED
    BY <1>4, <2>1, <2>3 DEF made
<1> QED
  BY <1>8, <1>9, <1>10

\* A tile that is the whole frame.
Full(t) == tiles[t] = Tile(0, 0, scene.frameSize)

\* Either every tile is the whole frame, or the quadrants meet, and there may be others, of which
\* only the fifth is not the whole frame.
Shaped ==
    \/ \A t \in DOMAIN tiles : Full(t)
    \/ /\ Meeting(scene.frameSize, scene.tileSize) /\ Quartered(scene.frameSize, scene.tileSize)
       /\ \A t \in DOMAIN tiles : t \in 1 .. 4 \/ Full(t) \/ t = 5
       /\ \A t \in DOMAIN tiles : tiles[t].size > 0

\* The quadrants are of one size.
LEMMA QuadrantSizes ==
  ASSUME NEW f, NEW n, Meeting(f, n), Quartered(f, n)
  PROVE  \A k \in 1 .. 4 : tiles[k].size = n
<1> TAKE k \in 1 .. 4
<1> QED
  BY QuadrantTiles

\* What a layout consists of that is accepted and whose quadrants do not overlap by more than the
\* margin.
LEMMA ShapeFact ==
  ASSUME scene \in Scenes, Accepts(scene.layout, scene.frameSize, scene.tileSize),
         tiles = MakeTileLayout(scene.layout, scene.frameSize, scene.tileSize),
         scene.layout = "whole" \/ Flush
  PROVE  Shaped
<1> DEFINE f == scene.frameSize
           n == scene.tileSize
           l == scene.layout
<1>1. l \in Layouts /\ f \in Nat \ {0} /\ n \in Nat \ {0}
  BY ScenesAssumption
<1>2. CASE l = "whole"
  <2>1. tiles = <<Tile(0, 0, f)>>
    BY <1>1, <1>2, LayoutTiles
  <2>2. \A t \in DOMAIN tiles : t = 1
    BY <2>1
  <2>3. tiles[1] = Tile(0, 0, f)
    BY <2>1
  <2> QED
    BY <2>2, <2>3 DEF Shaped, Full
<1>3. CASE l # "whole"
  <2>1. 0 < n /\ n <= f /\ 2 * n >= f /\ Flush
    BY <1>3 DEF Accepts
  <2>2. \A k \in 1 .. 4 : k \in DOMAIN tiles /\ tiles[k] = Quadrants(f, n)[k]
    BY <1>1, <1>3, LayoutTiles
  <2>3. \A k \in DOMAIN tiles : k \in 1 .. 4 \/ tiles[k] = Tile(0, 0, f) \/ (k = 5 /\ tiles[k] = Center(f, n))
    BY <1>1, <1>3, LayoutRest
  <2>4. CASE n = f
    <3>1. f - n = 0
      BY <1>1, <2>4
    <3>2. (f - n) \div 2 = 0
      BY <3>1
    <3>3. \A k \in 1 .. 4 : Quadrants(f, n)[k] = Tile(0, 0, f)
      <4>1. Quadrants(f, n) = <<Tile(0, 0, f), Tile(0, 0, f), Tile(0, 0, f), Tile(0, 0, f)>>
        BY <2>4, <3>1 DEF Quadrants
      <4> QED
        BY <4>1
    <3>4. Center(f, n) = Tile(0, 0, f)
      BY <2>4, <3>2 DEF Center
    <3> QED
      BY <2>2, <2>3, <3>3, <3>4 DEF Shaped, Full
  <2>5. CASE n # f
    <3>1. Meeting(f, n)
      BY <1>1, <2>1, <2>5 DEF Meeting, Flush
    <3>2. Quartered(f, n)
      BY <2>2 DEF Quartered
    <3>3. ASSUME NEW t \in DOMAIN tiles PROVE tiles[t].size > 0
      <4>1. CASE t \in 1 .. 4
        <5>1. tiles[t].size = n
          BY <3>1, <3>2, <4>1, QuadrantSizes
        <5> QED
          BY <2>1, <5>1
      <4>2. CASE tiles[t] = Tile(0, 0, f)
        <5>1. Tile(0, 0, f).size = f
          BY DEF Tile
        <5>2. tiles[t].size = f
          BY <4>2, <5>1
        <5>3. f > 0
          BY <1>1
        <5> QED
          BY <5>2, <5>3
      <4>3. CASE tiles[t] = Center(f, n)
        <5>1. Center(f, n).size = n
          BY DEF Center, Tile
        <5>2. tiles[t].size = n
          BY <4>3, <5>1
        <5> QED
          BY <1>1, <2>1, <5>2
      <4> QED
        BY <2>3, <4>1, <4>2, <4>3
    <3> QED
      BY <2>3, <3>1, <3>2, <3>3 DEF Shaped, Full
  <2> QED
    BY <2>4, <2>5
<1> QED
  BY <1>2, <1>3

\* Some quadrant sees the object.
LEMMA QuadrantSees ==
  ASSUME NEW object, NEW p, NEW f, Upright(object, p, f), NEW n, Meeting(f, n), Quartered(f, n)
  PROVE  \E t \in 1 .. 4 : t \in DOMAIN tiles /\ SeenParts(object, tiles[t]) # {}
<1> DEFINE Spans(tile) == \A axis \in {1, 2} : tile.start[axis] < p[axis + 2] /\ p[axis] < tile.start[axis] + tile.size
<1>1. f \in Nat /\ n \in Nat /\ 0 < n /\ n < f /\ f <= 2 * n
  BY DEF Meeting
<1>2. ASSUME NEW t \in 1 .. 4, Spans(tiles[t]) PROVE t \in DOMAIN tiles /\ SeenParts(object, tiles[t]) # {}
  <2>1. t \in DOMAIN tiles /\ tiles[t] \in Squares /\ tiles[t].size = n
    BY QuadrantTiles
  <2> QED
    BY <1>1, <1>2, <2>1, SeesIff
<1>3. /\ \A i \in 1 .. 4 : p[i] \in Int
      /\ 0 <= p[1] /\ p[1] < p[3] /\ p[3] <= f /\ 0 <= p[2] /\ p[2] < p[4] /\ p[4] <= f
  BY DEF Upright, Boxes
<1>4. 1 + 2 = 3 /\ 2 + 2 = 4
  OBVIOUS
<1>5. /\ IsTile(tiles[1], 0, 0, n) /\ IsTile(tiles[2], f - n, 0, n)
      /\ IsTile(tiles[3], 0, f - n, n) /\ IsTile(tiles[4], f - n, f - n, n)
  BY QuadrantStarts
<1>6. ASSUME NEW tile, NEW x \in Int, NEW y \in Int, IsTile(tile, x, y, n),
             x < p[3], p[1] < x + n, y < p[4], p[2] < y + n
      PROVE  Spans(tile)
  BY <1>4, <1>6 DEF IsTile
<1> HIDE DEF Spans
<1>7. CASE p[1] < n /\ p[2] < n
  <2>1. Spans(tiles[1])
    BY <1>1, <1>3, <1>5, <1>6, <1>7
  <2> QED
    BY <1>2, <2>1
<1>8. CASE ~ (p[1] < n) /\ p[2] < n
  <2>1. Spans(tiles[2])
    BY <1>1, <1>3, <1>5, <1>6, <1>8
  <2> QED
    BY <1>2, <2>1
<1>9. CASE p[1] < n /\ ~ (p[2] < n)
  <2>1. Spans(tiles[3])
    BY <1>1, <1>3, <1>5, <1>6, <1>9
  <2> QED
    BY <1>2, <2>1
<1>10. CASE ~ (p[1] < n) /\ ~ (p[2] < n)
  <2>1. Spans(tiles[4])
    BY <1>1, <1>3, <1>5, <1>6, <1>10
  <2> QED
    BY <1>2, <2>1
<1> QED
  BY <1>7, <1>8, <1>9, <1>10

\* What encloses boxes that are inside another is inside it too.
LEMMA EnclosingInside ==
  ASSUME NEW p, NEW boxes \in SUBSET Boxes, IsFiniteSet(boxes), boxes # {}, \A b \in boxes : Inside(b, p)
  PROVE  Inside(Enclosing(boxes), p)
<1> DEFINE e == Enclosing(boxes)
<1>1. ASSUME NEW i \in {1, 2} PROVE e[i] >= p[i]
  <2> DEFINE S == {b[i] : b \in boxes}
  <2>0. i \in 1 .. 4
    OBVIOUS
  <2>1. S \in SUBSET Int /\ S # {} /\ IsFiniteSet(S)
    BY <2>0, EdgesFinite DEF Boxes
  <2>2. e[i] = Min(S)
    BY DEF Enclosing
  <2>3. \A y \in S : y >= p[i]
    BY DEF Inside
  <2> HIDE DEF S, e
  <2> QED
    BY <2>1, <2>2, <2>3, MinFact
<1>2. ASSUME NEW i \in {3, 4} PROVE e[i] <= p[i]
  <2> DEFINE S == {b[i] : b \in boxes}
  <2>0. i \in 1 .. 4
    OBVIOUS
  <2>1. S \in SUBSET Int /\ S # {} /\ IsFiniteSet(S)
    BY <2>0, EdgesFinite DEF Boxes
  <2>2. e[i] = Max(S)
    BY DEF Enclosing
  <2>3. \A y \in S : y <= p[i]
    BY DEF Inside
  <2> HIDE DEF S, e
  <2> QED
    BY <2>1, <2>2, <2>3, MaxFact
<1> QED
  BY <1>1, <1>2 DEF Inside

\* Boxes inside one whose every edge one of them reaches are enclosed by it.
LEMMA EnclosingReaches ==
  ASSUME NEW p \in Boxes, NEW boxes \in SUBSET Boxes, IsFiniteSet(boxes),
         \A b \in boxes : Inside(b, p), \A i \in 1 .. 4 : \E b \in boxes : b[i] = p[i]
  PROVE  Enclosing(boxes) = p
<1> DEFINE e == Enclosing(boxes)
<1>1. boxes # {}
  <2>1. 1 \in 1 .. 4
    OBVIOUS
  <2> QED
    BY <2>1
<1>2. /\ e \in Boxes /\ \A b \in boxes : e[1] <= b[1] /\ e[2] <= b[2] /\ b[3] <= e[3] /\ b[4] <= e[4]
  BY <1>1, EnclosingFact
<1>3. e[1] <= p[1] /\ e[2] <= p[2] /\ p[3] <= e[3] /\ p[4] <= e[4]
  <2>1. 1 \in 1 .. 4 /\ 2 \in 1 .. 4 /\ 3 \in 1 .. 4 /\ 4 \in 1 .. 4
    OBVIOUS
  <2> HIDE DEF e
  <2> QED
    BY <1>2, <2>1
<1>4. e[1] >= p[1] /\ e[2] >= p[2] /\ e[3] <= p[3] /\ e[4] <= p[4]
  BY <1>1, EnclosingInside DEF Inside
<1>5. \A i \in 1 .. 4 : e[i] \in Int /\ p[i] \in Int
  BY <1>2 DEF Boxes
<1>6. \A i \in 1 .. 4 : i = 1 \/ i = 2 \/ i = 3 \/ i = 4
  OBVIOUS
<1> HIDE DEF e
<1>7. e[1] = p[1] /\ e[2] = p[2] /\ e[3] = p[3] /\ e[4] = p[4]
  BY <1>3, <1>4, <1>5
<1>8. \A i \in 1 .. 4 : e[i] = p[i]
  BY <1>6, <1>7
<1> QED
  BY <1>2, <1>8 DEF Boxes, e

\* Every detection is the whole object, or else a fragment, and then a complete one of the whole
\* object is there too.
Ready(ds, p) ==
    /\ DOMAIN ds # {}
    /\ \A k \in DOMAIN ds : ds[k].box # p =>
          ds[k].truncated /\ \E j \in DOMAIN ds : ds[j].box = p /\ ~ds[j].truncated

\* The detections sort into the classes of those that fragments connect.
LEMMA ClassesFact ==
  ASSUME NEW ds \in Seq(Dets)
  PROVE  \E r : Sorts(ds, r)
BY ParentsFact

\* Fusion of the pieces of an object leaves the object whole, or a whole beside the fragment that
\* the center tile saw.
LEMMA FusionReady ==
  ASSUME scene.overshoot = 0, NEW object, NEW p, Upright(object, p, scene.frameSize),
         tiles \in Seq(Squares), DOMAIN tiles # {}, Shaped,
         NEW ds \in Seq(Dets), Pieces(ds, object), Reported(ds, object), ~TakenForFragment(object, ds)
  PROVE  Ready(FuseSeamFragments(ds, SeamIou), p)
<1> DEFINE D == DOMAIN ds
           f == scene.frameSize
           n == scene.tileSize
           out == FuseSeamFragments(ds, SeamIou)
<1>1. PICK r : Sorts(ds, r)
  BY ClassesFact
<1> DEFINE Class(i) == {b \in D : r[b] = r[i]}
<1>2. /\ Components(ds) = {Class(i) : i \in D}
      /\ \A members \in Components(ds) : \E k \in DOMAIN out : Represents(out[k], ds, members)
      /\ \A k \in DOMAIN out : \E members \in Components(ds) : Represents(out[k], ds, members)
  <2>1. Components(ds) = {Class(i) : i \in D}
    BY <1>1, ComponentsFact
  <2>2. /\ \A members \in Components(ds) : \E k \in DOMAIN out : Represents(out[k], ds, members)
        /\ \A k \in DOMAIN out : \E members \in Components(ds) : Represents(out[k], ds, members)
    BY FuseFact
  <2> QED
    BY <2>1, <2>2
<1>3. D \in SUBSET Int /\ IsFiniteSet(D) /\ \A i \in D : ds[i] \in Dets
  BY SeqDomain
<1>4. /\ object \in Objects /\ IsFiniteSet(object.parts) /\ p \in Boxes /\ WholeBox(object) = p
  <2>1. object \in Objects /\ object.parts = {p} /\ p \in Boxes
    BY DEF Upright
  <2>2. IsFiniteSet({p})
    BY FS_Singleton
  <2> QED
    BY <2>1, <2>2, UprightWhole
<1>5. \A t \in DOMAIN tiles : tiles[t] \in Squares
  BY SeqDomain
<1>6. ASSUME NEW i \in D PROVE ds[i].box \in Boxes /\ Inside(ds[i].box, p)
  <2>1. PICK t \in DOMAIN tiles : IsPiece(ds[i], object, t)
    BY DEF Pieces
  <2>2. ds[i].box = Piece(object, tiles[t]) /\ SeenParts(object, tiles[t]) # {}
    BY <2>1 DEF IsPiece
  <2> QED
    BY <1>4, <1>5, <2>2, PieceInside DEF RealBoxes
<1> HIDE DEF out, D
\* Fragments that join are in one class.
<1>7. ASSUME NEW i \in D, NEW j \in D, Near(ds, i, j) PROVE j \in Class(i)
  <2>1. Joins(ds[i], ds[j], SeamIou) /\ Joins(ds[j], ds[i], SeamIou)
    BY <1>7, JoinsSymmetric DEF Near
  <2>2. i \in Int /\ j \in Int
    BY <1>3
  <2>3. CASE i < j
    BY <1>1, <2>1, <2>3 DEF Sorts, D
  <2>4. CASE j < i
    BY <1>1, <2>1, <2>4 DEF Sorts, D
  <2>5. CASE i = j
    BY <2>5
  <2> QED
    BY <2>2, <2>3, <2>4, <2>5
\* A class that reaches as far as the object is represented by the whole of it.
<1>8. ASSUME NEW i \in D, \A e \in 1 .. 4 : \E x \in Class(i) : ds[x].box[e] = p[e]
      PROVE  Enclosing({ds[x].box : x \in Class(i)}) = p
  <2> DEFINE K == Class(i)
             boxes == {ds[x].box : x \in K}
             g == [x \in K |-> ds[x].box]
  <2>1. K \in SUBSET D
    OBVIOUS
  <2>2. IsFiniteSet(boxes)
    <3>1. g \in Surjection(K, boxes)
      BY DEF Surjection
    <3>2. IsFiniteSet(K)
      BY <1>3, <2>1, FS_Subset
    <3> HIDE DEF K, boxes, g
    <3> QED
      BY <3>1, <3>2, FS_Surjection
  <2>3. boxes \in SUBSET Boxes /\ \A b \in boxes : Inside(b, p)
    BY <1>6, <2>1
  <2>4. \A e \in 1 .. 4 : \E b \in boxes : b[e] = p[e]
    BY <1>8
  <2> HIDE DEF K, boxes
  <2>5. Enclosing(boxes) = p
    BY <1>4, <2>2, <2>3, <2>4, EnclosingReaches
  <2> QED
    BY <2>5 DEF boxes, K
<1>9. ASSUME NEW i \in D, ds[i].box = p PROVE Enclosing({ds[x].box : x \in Class(i)}) = p
  <2>1. \A e \in 1 .. 4 : \E x \in Class(i) : ds[x].box[e] = p[e]
    BY <1>9
  <2> HIDE DEF Class
  <2> QED
    BY <1>8, <2>1
\* So is the class of a piece that a quadrant shows.
<1>10. ASSUME Meeting(f, n), Quartered(f, n), NEW i \in D, NEW t \in 1 .. 4, IsPiece(ds[i], object, t)
       PROVE  Enclosing({ds[x].box : x \in Class(i)}) = p
  <2>1. ASSUME NEW axis \in {1, 2}
        PROVE  /\ \E x \in Class(i) : ds[x].box[axis] = p[axis]
               /\ \E x \in Class(i) : ds[x].box[axis + 2] = p[axis + 2]
    <3>1. /\ \E x \in D : (x = i \/ Near(ds, i, x)) /\ ds[x].box[axis] = p[axis]
          /\ \E x \in D : (x = i \/ Near(ds, i, x)) /\ ds[x].box[axis + 2] = p[axis + 2]
      <4>1. i \in DOMAIN ds
        BY DEF D
      <4> HIDE DEF Class, n
      <4>2. /\ \E x \in DOMAIN ds : (x = i \/ Near(ds, i, x)) /\ ds[x].box[axis] = p[axis]
            /\ \E x \in DOMAIN ds : (x = i \/ Near(ds, i, x)) /\ ds[x].box[axis + 2] = p[axis + 2]
        BY <1>10, <4>1, QuadrantReaches
      <4> QED
        BY <4>2 DEF D
    <3>2. \A x \in D : x = i \/ Near(ds, i, x) => x \in Class(i)
      BY <1>7
    <3> HIDE DEF Class
    <3> QED
      BY <3>1, <3>2
  <2>2. 1 + 2 = 3 /\ 2 + 2 = 4 /\ \A e \in 1 .. 4 : e = 1 \/ e = 2 \/ e = 3 \/ e = 4
    OBVIOUS
  <2> HIDE DEF Class
  <2>3. \A e \in 1 .. 4 : \E x \in Class(i) : ds[x].box[e] = p[e]
    BY <2>1, <2>2
  <2> QED
    BY <1>8, <2>3
\* What represents anything less is a fragment, of the center tile alone.
<1>11. ASSUME NEW k \in DOMAIN out, out[k].box # p
       PROVE  out[k].truncated /\ \E i \in D : ds[i].box # p
  <2>1. PICK i \in D : Represents(out[k], ds, Class(i))
    <3> HIDE DEF Class
    <3> QED
      BY <1>2
  <2>2. out[k].box = Enclosing({ds[x].box : x \in Class(i)})
        /\ (out[k].truncated <=> \E x \in Class(i) : Class(i) = {x} /\ ds[x].cuts # {})
    BY <2>1 DEF Represents
  <2>3. PICK t \in DOMAIN tiles : IsPiece(ds[i], object, t)
    BY DEF Pieces, D
  <2>4. /\ SeenParts(object, tiles[t]) # {} /\ ds[i].box = Piece(object, tiles[t]) /\ ds[i].tile = t
        /\ ds[i].cuts = SeamTruncations(SeenBox(object, tiles[t]), tiles[t], f)
    BY <2>3 DEF IsPiece
  <2>5. ds[i].box # p
    <3> HIDE DEF Class
    <3> QED
      BY <1>9, <1>11, <2>2
  <2>6. ~Full(t)
    <3>1. SUFFICES ASSUME Full(t) PROVE FALSE
      OBVIOUS
    <3> QED
      BY <2>4, <2>5, <3>1, FullPiece DEF Full
  <2>7. /\ Meeting(f, n) /\ Quartered(f, n)
        /\ \A u \in DOMAIN tiles : u \in 1 .. 4 \/ Full(u) \/ u = 5
        /\ tiles[t].size > 0
    BY <2>6 DEF Shaped
  <2>8. \A x \in Class(i) : ds[x].tile = 5
    <3> SUFFICES ASSUME NEW x \in Class(i) PROVE ds[x].tile = 5
      OBVIOUS
    <3>1. x \in D /\ Class(x) = Class(i)
      OBVIOUS
    <3>2. PICK u \in DOMAIN tiles : IsPiece(ds[x], object, u)
      BY <3>1 DEF Pieces, D
    <3>3. ds[x].tile = u /\ ds[x].box = Piece(object, tiles[u])
      BY <3>2 DEF IsPiece
    <3> DEFINE E(y) == Enclosing({ds[b].box : b \in Class(y)})
    <3>4. E(x) = E(i) /\ E(i) # p
      BY <1>11, <2>2, <3>1
    <3>5. u \notin 1 .. 4
      <4> HIDE DEF Class
      <4> QED
        BY <1>10, <2>7, <3>1, <3>2, <3>4
    <3>6. ~Full(u)
      <4>1. SUFFICES ASSUME Full(u) PROVE FALSE
        OBVIOUS
      <4>2. ds[x].box = p
        BY <3>3, <4>1, FullPiece DEF Full
      <4> HIDE DEF Class
      <4> QED
        BY <1>9, <3>1, <3>4, <4>2
    <3> QED
      BY <2>7, <3>3, <3>5, <3>6
  <2>9. Class(i) = {i}
    <3>1. \A y \in D : ~Near(ds, i, y)
      <4> SUFFICES ASSUME NEW y \in D, Near(ds, i, y) PROVE FALSE
        OBVIOUS
      <4>1. y \in Class(i) /\ i \in Class(i)
        BY <1>7
      <4>2. ds[i].tile = ds[y].tile
        BY <2>8, <4>1
      <4> QED
        BY <4>2 DEF Near, Joins
    <3>2. ClosedUnder(ds, {i})
      BY <3>1 DEF ClosedUnder, D
    <3>3. {i} \in SUBSET DOMAIN ds
      BY DEF D
    <3>4. \A b \in D : r[i] = r[b] => b \in {i}
      BY <1>1, <3>2, <3>3 DEF Sorts, D
    <3> QED
      BY <3>4
  <2>10. ds[i].cuts # {}
    BY <1>5, <2>4, <2>5, <2>7, PieceIsCut
  <2> HIDE DEF Class
  <2> QED
    BY <2>2, <2>5, <2>9, <2>10
\* Of a class that reaches as far as the object a complete detection is left, or a piece that
\* is the whole object and joins nothing.
<1>12. ASSUME \A k \in DOMAIN out : out[k].box = p => out[k].truncated,
              NEW i \in D, Enclosing({ds[x].box : x \in Class(i)}) = p
       PROVE  ds[i].box = p /\ ds[i].truncated /\ \A j \in D : ~Joins(ds[i], ds[j], SeamIou)
  <2>1. PICK k \in DOMAIN out : Represents(out[k], ds, Class(i))
    BY <1>2
  <2>2. out[k].truncated
    BY <1>12, <2>1 DEF Represents
  <2>3. PICK x \in Class(i) : Class(i) = {x} /\ ds[x].cuts # {}
    BY <2>1, <2>2 DEF Represents
  <2>4. i \in Class(i)
    OBVIOUS
  <2>5. Class(i) = {i} /\ ds[i].cuts # {}
    BY <2>3, <2>4
  <2>6. ds[i].truncated
    <3>1. PICK t \in DOMAIN tiles : IsPiece(ds[i], object, t)
      BY DEF Pieces, D
    <3> QED
      BY <2>5, <3>1 DEF IsPiece
  <2>7. ds[i].box = p
    <3>1. {ds[x1].box : x1 \in {i}} = {ds[i].box}
      OBVIOUS
    <3>2. Enclosing({ds[i].box}) = ds[i].box
      BY <1>6, EnclosingOne
    <3> HIDE DEF Class
    <3> QED
      BY <1>12, <2>5, <3>1, <3>2
  <2>8. ASSUME NEW j \in D, Joins(ds[i], ds[j], SeamIou) PROVE FALSE
    <3>1. j \in Class(i)
      BY <1>7, <2>8 DEF Near
    <3>2. j = i
      BY <2>5, <3>1
    <3> QED
      BY <2>8, <3>2 DEF Joins
  <2> QED
    BY <2>6, <2>7, <2>8
<1> HIDE DEF Class
<1>13. ASSUME NEW k \in DOMAIN out, out[k].box # p
       PROVE  \E j \in DOMAIN out : out[j].box = p /\ ~out[j].truncated
  <2> SUFFICES ASSUME \A j \in DOMAIN out : out[j].box = p => out[j].truncated PROVE FALSE
    OBVIOUS
  <2> DEFINE whole == {i \in DOMAIN ds : ds[i].box = WholeBox(object)}
  <2>1. whole # DOMAIN ds
    BY <1>4, <1>11, <1>13 DEF D
  <2>2. \A i \in whole : ds[i].truncated /\ \A j \in DOMAIN ds : ~Joins(ds[i], ds[j], SeamIou)
    BY <1>4, <1>9, <1>12 DEF D
  <2>3. whole # {}
    <3>1. PICK i \in D : ds[i].box # p
      BY <1>11, <1>13
    <3>2. PICK t \in DOMAIN tiles : IsPiece(ds[i], object, t)
      BY DEF Pieces, D
    <3>3. ~Full(t)
      <4>1. SUFFICES ASSUME Full(t) PROVE FALSE
        OBVIOUS
      <4> QED
        BY <3>1, <3>2, <4>1, FullPiece DEF Full, IsPiece
    <3>4. Meeting(f, n) /\ Quartered(f, n)
      BY <3>3 DEF Shaped
    <3>5. PICK q \in 1 .. 4 : q \in DOMAIN tiles /\ SeenParts(object, tiles[q]) # {}
      BY <3>4, QuadrantSees
    <3>6. PICK j \in D : IsPiece(ds[j], object, q)
      BY <3>5 DEF Reported, D
    <3>7. ds[j].box = p
      BY <1>10, <1>12, <3>4, <3>6
    <3> QED
      BY <1>4, <3>7 DEF D
  <2> HIDE DEF whole
  <2> QED
    BY <2>1, <2>2, <2>3 DEF TakenForFragment, whole
<1>14. DOMAIN out # {}
  <2>1. D # {}
    <3>1. CASE \A t \in DOMAIN tiles : Full(t)
      <4>1. PICK t \in DOMAIN tiles : Full(t)
        BY <3>1
      <4>2. SeenParts(object, tiles[t]) # {}
        BY <4>1, FullPiece DEF Full
      <4> QED
        BY <4>2 DEF Reported, D
    <3>2. CASE ~ \A t \in DOMAIN tiles : Full(t)
      <4>1. Meeting(f, n) /\ Quartered(f, n)
        BY <3>2 DEF Shaped
      <4>2. PICK q \in 1 .. 4 : q \in DOMAIN tiles /\ SeenParts(object, tiles[q]) # {}
        BY <4>1, QuadrantSees
      <4> QED
        BY <4>2 DEF Reported, D
    <3> QED
      BY <3>1, <3>2
  <2>2. PICK i \in D : TRUE
    BY <2>1
  <2>3. Class(i) \in Components(ds)
    BY <1>2
  <2> QED
    BY <1>2, <2>3
<1> QED
  BY <1>11, <1>13, <1>14 DEF Ready, out

-----------------------------------------------------------------------------
(* The passes over the pieces                                                *)

\* Detections of one class, inside a box.
Of(ds, label, w) == \A k \in DOMAIN ds : ds[k].label = label /\ Inside(ds[k].box, w)

\* Fusion stays inside.
LEMMA FuseOf ==
  ASSUME NEW ds \in Seq(Dets), NEW label, NEW w, Of(ds, label, w)
  PROVE  Of(FuseSeamFragments(ds, SeamIou), label, w)
<1> DEFINE out == FuseSeamFragments(ds, SeamIou)
<1>1. SUFFICES ASSUME NEW k \in DOMAIN out PROVE out[k].label = label /\ Inside(out[k].box, w)
  BY DEF Of
<1>2. PICK K \in Components(ds) : Represents(out[k], ds, K)
  BY FuseFact
<1>3. K \in SUBSET DOMAIN ds /\ K # {}
  <2>1. PICK r : Sorts(ds, r)
    BY ClassesFact
  <2>2. Components(ds) = {{b \in DOMAIN ds : r[b] = r[i]} : i \in DOMAIN ds}
    BY <2>1, ComponentsFact
  <2>3. PICK i \in DOMAIN ds : K = {b \in DOMAIN ds : r[b] = r[i]}
    BY <1>2, <2>2
  <2> QED
    BY <2>3
<1>4. /\ DOMAIN ds \in SUBSET Int /\ IsFiniteSet(DOMAIN ds) /\ \A i \in DOMAIN ds : ds[i] \in Dets
  BY SeqDomain
<1> DEFINE boxes == {ds[i].box : i \in K}
           g == [i \in K |-> ds[i].box]
<1>5. IsFiniteSet(boxes)
  <2>1. g \in Surjection(K, boxes)
    BY DEF Surjection
  <2>2. IsFiniteSet(K)
    BY <1>3, <1>4, FS_Subset
  <2> HIDE DEF boxes, g
  <2> QED
    BY <2>1, <2>2, FS_Surjection
<1>6. boxes \in SUBSET Boxes /\ boxes # {} /\ \A b \in boxes : Inside(b, w)
  BY <1>3, <1>4 DEF Dets, RealBoxes, Of
<1>7. out[k].box = Enclosing(boxes) /\ \A i \in K : out[k].label = ds[i].label
  BY <1>2 DEF Represents
<1>8. out[k].label = label
  BY <1>3, <1>7 DEF Of
<1> HIDE DEF boxes
<1> QED
  BY <1>5, <1>6, <1>7, <1>8, EnclosingInside

\* A single detection chosen.
LEMMA IndexOne ==
  ASSUME NEW E, NEW ds \in Seq(E), NEW i \in DOMAIN ds
  PROVE  Index(ds, {i}) \in Seq(E) /\ DOMAIN Index(ds, {i}) = {1} /\ Len(Index(ds, {i})) = 1 /\ Index(ds, {i})[1] = ds[i]
<1> DEFINE keep == {i}
           s == Ascending(keep)
           one == Index(ds, keep)
<1>1. DOMAIN ds \in SUBSET Int /\ keep \in SUBSET Int /\ IsFiniteSet(keep) /\ Cardinality(keep) = 1
  <2>1. i \in Int
    BY SeqDomain
  <2> QED
    BY <2>1, SeqDomain, FS_Singleton
<1>2. s \in [1 .. 1 -> keep]
  <2> HIDE DEF keep
  <2> QED
    BY <1>1, AscendingFact
<1>3. DOMAIN s = {1} /\ s[1] = i
  BY <1>2
<1>4. one = [k \in DOMAIN s |-> ds[s[k]]]
  BY DEF Index
<1> HIDE DEF s, one
<1>5. DOMAIN one = {1} /\ one[1] = ds[i]
  BY <1>3, <1>4
<1>6. one \in Seq(E)
  BY IndexFact DEF one
<1>7. Len(one) = 1
  <2>1. Len(one) \in Nat /\ DOMAIN one = 1 .. Len(one)
    BY <1>6, SeqDomain
  <2> QED
    BY <1>5, <2>1
<1> QED
  BY <1>5, <1>6, <1>7 DEF one

\* A box that is not empty lies in any that it is inside of.
LEMMA InsideContained ==
  ASSUME NEW b \in RealBoxes, NEW p \in Boxes, Inside(b, p)
  PROVE  IoS(p, b, IosThreshold)
<1>1. /\ b[1] \in Int /\ b[2] \in Int /\ b[3] \in Int /\ b[4] \in Int /\ b[1] < b[3] /\ b[2] < b[4]
      /\ p[1] \in Int /\ p[2] \in Int /\ p[3] \in Int /\ p[4] \in Int
      /\ b[1] >= p[1] /\ b[2] >= p[2] /\ b[3] <= p[3] /\ b[4] <= p[4]
  BY DEF RealBoxes, Boxes, Inside
<1> DEFINE w == b[3] - b[1]
           h == b[4] - b[2]
<1>2. w \in Nat /\ h \in Nat /\ w > 0 /\ h > 0
  BY <1>1
<1>3. Extent(b, 1) = w /\ Extent(b, 2) = h /\ Shared(p, b, 1) = w /\ Shared(p, b, 2) = h
  <2>1. 1 + 2 = 3 /\ 2 + 2 = 4
    OBVIOUS
  <2>2. Extent(b, 1) = w /\ Extent(b, 2) = h
    BY <1>1, <2>1 DEF Extent, Larger
  <2>3. Shared(p, b, 1) = w
    BY <1>1, <2>1 DEF Shared, Larger, Smaller
  <2>4. Shared(p, b, 2) = h
    BY <1>1, <2>1 DEF Shared, Larger, Smaller
  <2> QED
    BY <2>2, <2>3, <2>4
<1> HIDE DEF w, h
<1> DEFINE a == w * h
<1>4. Intersection(p, b) = a /\ Area(b) = a
  BY <1>3 DEF Intersection, Area
<1>5. a \in Nat /\ a > 0
  BY <1>2
<1> HIDE DEF a
<1>6. a > 0 /\ a * 10 >= a * 7
  BY <1>5
<1> QED
  BY <1>4, <1>6 DEF IoS, AtLeast, IosThreshold

\* Containment leaves the whole object alone of its pieces.
LEMMA ContainReady ==
  ASSUME NEW ds \in Seq(Dets), NEW p \in Boxes, NEW label, Of(ds, label, p), Ready(ds, p)
  PROVE  LET out == SuppressContained(ds, IosThreshold)
         IN  DOMAIN out # {} /\ \A k \in DOMAIN out : out[k].box = p
<1> DEFINE over == {q \in (DOMAIN ds) \X (DOMAIN ds) : IoS(ds[q[1]].box, ds[q[2]].box, IosThreshold)}
           out == SuppressContained(ds, IosThreshold)
           only == TRUE
<1>1. out = GreedySuppress(ds, over, only)
  BY DEF SuppressContained
<1>2. only \in BOOLEAN /\ only
  OBVIOUS
<1>3. \A i, j \in DOMAIN ds : <<j, i>> \in over <=> IoS(ds[j].box, ds[i].box, IosThreshold)
  OBVIOUS
<1> HIDE DEF over, out, only
<1>4. PICK kept \in SUBSET DOMAIN ds :
         /\ GreedySuppress(ds, over, only) = Index(ds, kept)
         /\ \A i \in DOMAIN ds : i \in kept <=>
               \A j \in kept \ {i} : Outranks(ds, j, i) =>
                   ~ (ds[j].label = ds[i].label /\ <<j, i>> \in over /\ (only => ds[i].truncated))
  BY <1>2, SuppressFact
<1>5. /\ \A k \in DOMAIN out : \E i \in kept : out[k] = ds[i]
      /\ \A i \in kept : \E k \in DOMAIN out : out[k] = ds[i]
  BY <1>1, <1>4, IndexFact
<1>6. kept # {}
  <2>1. PICK i \in DOMAIN ds : TRUE
    BY DEF Ready
  <2> QED
    BY <1>4, <2>1
<1>7. ASSUME NEW i \in kept PROVE ds[i].box = p
  <2> SUFFICES ASSUME ds[i].box # p PROVE FALSE
    OBVIOUS
  <2>1. i \in DOMAIN ds /\ ds[i].truncated
    BY <1>4 DEF Ready
  <2>2. PICK j \in DOMAIN ds : ds[j].box = p /\ ~ds[j].truncated
    BY <1>4 DEF Ready
  <2>3. j \in kept /\ j # i
    BY <1>2, <1>4, <2>1, <2>2
  <2>4. Outranks(ds, j, i)
    BY <2>1, <2>2 DEF Outranks, CompleteFirst
  <2>5. ds[i].label = ds[j].label /\ Inside(ds[i].box, p)
    BY <2>1, <2>2 DEF Of
  <2>6. ds[i].box \in RealBoxes
    <3>1. ds[i] \in Dets
      BY <2>1, SeqDomain
    <3> QED
      BY <3>1 DEF Dets
  <2>7. <<j, i>> \in over
    BY <1>3, <2>1, <2>2, <2>5, <2>6, InsideContained
  <2> QED
    BY <1>4, <2>1, <2>3, <2>4, <2>5, <2>7
<1> QED
  BY <1>5, <1>6, <1>7 DEF out

\* The last pass leaves one.
LEMMA NmsReady ==
  ASSUME NEW ds \in Seq(Dets), NEW p \in Boxes, NEW label, Of(ds, label, p),
         DOMAIN ds # {}, \A k \in DOMAIN ds : ds[k].box = p
  PROVE  LET out == PerClassNms(ds, NmsIou)
         IN  Len(out) = 1 /\ DOMAIN out = {1} /\ out[1].box = p
<1> DEFINE over == {q \in (DOMAIN ds) \X (DOMAIN ds) : IoU(ds[q[1]].box, ds[q[2]].box, NmsIou)}
           out == PerClassNms(ds, NmsIou)
           only == FALSE
<1>1. out = GreedySuppress(ds, over, only)
  BY DEF PerClassNms
<1>2. only \in BOOLEAN /\ ~only
  OBVIOUS
<1>3. \A i, j \in DOMAIN ds : <<j, i>> \in over <=> IoU(ds[j].box, ds[i].box, NmsIou)
  OBVIOUS
<1> HIDE DEF over, out, only
<1>4. PICK kept \in SUBSET DOMAIN ds :
         /\ GreedySuppress(ds, over, only) = Index(ds, kept)
         /\ \A i \in DOMAIN ds : i \in kept <=>
               \A j \in kept \ {i} : Outranks(ds, j, i) =>
                   ~ (ds[j].label = ds[i].label /\ <<j, i>> \in over /\ (only => ds[i].truncated))
  BY <1>2, SuppressFact
<1>5. PICK i \in kept : TRUE
  <2>1. PICK i \in DOMAIN ds : TRUE
    OBVIOUS
  <2> QED
    BY <1>4, <2>1
<1>6. p \in RealBoxes
  <2>1. ds[i] \in Dets /\ ds[i].box = p
    BY <1>4, <1>5, SeqDomain
  <2> QED
    BY <2>1 DEF Dets
<1>7. ASSUME NEW a \in kept, NEW b \in kept, a # b PROVE FALSE
  <2>1. \A x, y \in DOMAIN ds : <<x, y>> \in over /\ ds[x].label = ds[y].label
    BY <1>3, <1>6, SelfOverlap DEF Of
  <2>2. Outranks(ds, a, b) \/ Outranks(ds, b, a)
    <3>1. Order(DOMAIN ds, Ranking(ds))
      BY RankingOrder
    <3>2. <<a, b>> \in Ranking(ds) \/ <<b, a>> \in Ranking(ds)
      BY <1>4, <1>7, <3>1 DEF Order
    <3> QED
      BY <3>2 DEF Ranking
  <2> QED
    BY <1>2, <1>4, <1>7, <2>1, <2>2
<1>8. kept = {i}
  BY <1>5, <1>7
<1>9. out = Index(ds, {i}) /\ i \in DOMAIN ds
  BY <1>1, <1>4, <1>8
<1>10. DOMAIN out = {1} /\ Len(out) = 1 /\ out[1] = ds[i]
  BY <1>9, IndexOne
<1> QED
  BY <1>9, <1>10 DEF out

-----------------------------------------------------------------------------
(* The end of the merge                                                      *)

\* The detections a suppressing pass leaves are among those it was given.
LEMMA SuppressOf ==
  ASSUME NEW ds \in Seq(Dets), NEW label, NEW w, Of(ds, label, w)
  PROVE  /\ SuppressContained(ds, IosThreshold) \in Seq(Dets) /\ Of(SuppressContained(ds, IosThreshold), label, w)
         /\ PerClassNms(ds, NmsIou) \in Seq(Dets) /\ Of(PerClassNms(ds, NmsIou), label, w)
<1>1. ASSUME NEW over, NEW only \in BOOLEAN
      PROVE  GreedySuppress(ds, over, only) \in Seq(Dets) /\ Of(GreedySuppress(ds, over, only), label, w)
  <2> DEFINE out == GreedySuppress(ds, over, only)
  <2>1. PICK kept \in SUBSET DOMAIN ds : out = Index(ds, kept)
    BY SuppressFact
  <2> HIDE DEF out
  <2>2. out \in Seq(Dets) /\ \A k \in DOMAIN out : \E i \in kept : out[k] = ds[i]
    BY <2>1, IndexFact
  <2>3. Of(out, label, w)
    BY <2>1, <2>2 DEF Of
  <2> QED
    BY <2>2, <2>3 DEF out
<1>2. SuppressContained(ds, IosThreshold) \in Seq(Dets) /\ Of(SuppressContained(ds, IosThreshold), label, w)
  BY <1>1 DEF SuppressContained
<1>3. PerClassNms(ds, NmsIou) \in Seq(Dets) /\ Of(PerClassNms(ds, NmsIou), label, w)
  BY <1>1 DEF PerClassNms
<1> QED
  BY <1>2, <1>3

\* A box in the frame is not clipped, and counts if it is not empty.
LEMMA ClipInside ==
  ASSUME scene.frameSize \in Nat, NEW b \in RealBoxes,
         0 <= b[1], 0 <= b[2], b[3] <= scene.frameSize, b[4] <= scene.frameSize
  PROVE  ClipBox(b) = b /\ Area(b) > 0
<1> DEFINE f == scene.frameSize
<1>1. /\ b[1] \in Int /\ b[2] \in Int /\ b[3] \in Int /\ b[4] \in Int
      /\ b[1] < b[3] /\ b[2] < b[4] /\ b = [i \in 1 .. 4 |-> b[i]]
  BY DEF RealBoxes, Boxes
<1>2. ASSUME NEW i \in 1 .. 4 PROVE Smaller(Larger(b[i], 0), f) = b[i]
  <2>1. 0 <= b[i] /\ b[i] <= f /\ b[i] \in Int
    <3>1. i = 1 \/ i = 2 \/ i = 3 \/ i = 4
      OBVIOUS
    <3> QED
      BY <1>1, <3>1
  <2> QED
    BY <2>1 DEF Smaller, Larger
<1>3. ClipBox(b) = b
  BY <1>1, <1>2 DEF ClipBox
<1> DEFINE w == b[3] - b[1]
           h == b[4] - b[2]
<1>4. w \in Nat /\ h \in Nat /\ w > 0 /\ h > 0
  BY <1>1
<1>5. Extent(b, 1) = w /\ Extent(b, 2) = h
  <2>1. 1 + 2 = 3 /\ 2 + 2 = 4
    OBVIOUS
  <2> QED
    BY <1>1, <2>1 DEF Extent, Larger
<1> HIDE DEF w, h
<1>6. w * h > 0
  BY <1>4
<1> QED
  BY <1>3, <1>5, <1>6 DEF Area

\* Detections whose boxes may be empty.
Clipped == [box : Boxes, score : Nat, label : Nat, tile : Nat, cuts : SUBSET Sides, truncated : BOOLEAN]

\* A detection with its box clipped and its score demoted.
Clip(det) == [det EXCEPT !.box = ClipBox(@), !.score = Demoted(det)]

\* A detection that is clipped is still one, though its box may be empty.
LEMMA ClipFact ==
  ASSUME scene.frameSize \in Nat, NEW det \in Dets
  PROVE  Clip(det) \in Clipped /\ Clip(det).box = ClipBox(det.box)
<1>1. /\ det.box \in Boxes /\ det.score \in Nat /\ det.label \in Nat /\ det.tile \in Nat
      /\ det.cuts \in SUBSET Sides /\ det.truncated \in BOOLEAN
  BY DEF Dets, RealBoxes
<1>2. ClipBox(det.box) \in Boxes
  <2>1. \A i \in 1 .. 4 : det.box[i] \in Int
    BY <1>1 DEF Boxes
  <2>2. \A i \in 1 .. 4 : Smaller(Larger(det.box[i], 0), scene.frameSize) \in Int
    BY <2>1 DEF Smaller, Larger
  <2> QED
    BY <2>2 DEF ClipBox, Boxes
<1>3. Demoted(det) \in Nat
  BY <1>1 DEF Demoted, Penalty
<1>5. ASSUME NEW b \in Boxes, NEW score \in Nat
      PROVE  LET r == [det EXCEPT !.box = b, !.score = score] IN r \in Clipped /\ r.box = b
  BY <1>1 DEF Dets, Clipped
<1> QED
  BY <1>2, <1>3, <1>5 DEF Clip

\* What is left at the end are detections of the merge, clipped; and a single one that is not
\* empty is left if nothing gates it.
LEMMA FinishFact ==
  ASSUME scene.frameSize \in Nat, NEW ds \in Seq(Dets)
  PROVE  /\ \A k \in DOMAIN Finished(ds) : \E i \in DOMAIN ds : Finished(ds)[k].box = ClipBox(ds[i].box)
         /\ Len(ds) = 1 /\ Area(ClipBox(ds[1].box)) > 0 /\ scene.threshold = 0
              => Len(Finished(ds)) = 1 /\ Finished(ds)[1].box = ClipBox(ds[1].box)
<1> DEFINE clipped == [k \in DOMAIN ds |-> [ds[k] EXCEPT !.box = ClipBox(@), !.score = Demoted(ds[k])]]
           big     == {k \in DOMAIN clipped : Area(clipped[k].box) > 0}
           real    == Index(clipped, big)
           before  == {p \in (DOMAIN real) \X (DOMAIN real) :
                         \/ real[p[1]].score > real[p[2]].score
                         \/ real[p[1]].score = real[p[2]].score /\ p[1] < p[2]}
           order   == Arranged(DOMAIN real, before)
           n       == Smaller(MaxBoxes, Len(real))
           top     == [k \in 1 .. n |-> real[order[k]]]
           sure    == {k \in DOMAIN top : top[k].score >= scene.threshold}
           out     == Index(top, sure)
<1>0. Finished(ds) = out
  BY DEF Finished
<1>1. DOMAIN ds = 1 .. Len(ds) /\ Len(ds) \in Nat /\ \A k \in DOMAIN ds : ds[k] \in Dets
  BY SeqDomain
<1>2. \A k \in DOMAIN ds : clipped[k] = Clip(ds[k])
  BY DEF Clip
<1>3. clipped \in Seq(Clipped) /\ DOMAIN clipped = DOMAIN ds
  <2>1. DOMAIN clipped = DOMAIN ds /\ clipped = [k \in DOMAIN ds |-> clipped[k]]
    OBVIOUS
  <2>2. \A k \in DOMAIN ds : clipped[k] \in Clipped
    BY <1>1, <1>2, ClipFact
  <2> HIDE DEF clipped
  <2>3. clipped \in [1 .. Len(ds) -> Clipped]
    BY <1>1, <2>1, <2>2
  <2> QED
    BY <1>1, <2>1, <2>3, SeqDef
<1> HIDE DEF clipped
<1>4. big \in SUBSET DOMAIN clipped
  OBVIOUS
<1> HIDE DEF big
<1>5. real \in Seq(Clipped) /\ \A k \in DOMAIN real : \E i \in big : real[k] = clipped[i]
  BY <1>3, <1>4, IndexFact
<1> HIDE DEF real
<1>6. /\ DOMAIN real = 1 .. Len(real) /\ Len(real) \in Nat
      /\ DOMAIN real \in SUBSET Int /\ IsFiniteSet(DOMAIN real)
      /\ \A k \in DOMAIN real : real[k] \in Clipped /\ real[k].score \in Int
  <2>1. \A k \in DOMAIN real : real[k] \in Clipped
    BY <1>5, SeqDomain
  <2>2. \A k \in DOMAIN real : real[k].score \in Int
    BY <2>1 DEF Clipped
  <2> QED
    BY <1>5, <2>1, <2>2, SeqDomain
<1>7. Order(DOMAIN real, before)
  <2> DEFINE D == DOMAIN real
             v(i) == real[i].score
  <2>1. \A i, j \in D : <<i, j>> \in before <=> v(i) > v(j) \/ (v(i) = v(j) /\ i < j)
    OBVIOUS
  <2>2. \A i \in D : v(i) \in Int /\ i \in Int
    BY <1>6
  <2> HIDE DEF v, D, before
  <2>3. \A i \in D : <<i, i>> \notin before
    BY <2>1, <2>2
  <2>4. ASSUME NEW i \in D, NEW j \in D, NEW k \in D, <<i, j>> \in before, <<j, k>> \in before
        PROVE  <<i, k>> \in before
    <3>1. /\ v(i) > v(j) \/ (v(i) = v(j) /\ i < j)
          /\ v(j) > v(k) \/ (v(j) = v(k) /\ j < k)
      BY <2>1, <2>4
    <3>2. v(i) \in Int /\ v(j) \in Int /\ v(k) \in Int /\ i \in Int /\ j \in Int /\ k \in Int
      BY <2>2
    <3>3. v(i) > v(k) \/ (v(i) = v(k) /\ i < k)
      BY <3>1, <3>2
    <3> QED
      BY <2>1, <3>3
  <2>5. ASSUME NEW i \in D, NEW j \in D, i # j PROVE <<i, j>> \in before \/ <<j, i>> \in before
    BY <2>1, <2>2, <2>5
  <2>6. Order(D, before)
    BY <2>3, <2>4, <2>5 DEF Order
  <2> QED
    BY <2>6 DEF D
<1> HIDE DEF before
<1>8. Cardinality(DOMAIN real) = Len(real)
  <2> DEFINE m == Len(real)
  <2>1. DOMAIN real = 1 .. m /\ m \in Nat
    BY <1>6
  <2> HIDE DEF m
  <2>2. Cardinality(1 .. m) = m
    BY <2>1, FS_Interval
  <2>3. Cardinality(DOMAIN real) = m
    BY <2>1, <2>2
  <2> QED
    BY <2>3 DEF m
<1>9. order \in [1 .. Len(real) -> DOMAIN real]
  <2>1. Arranged(DOMAIN real, before) \in [1 .. Cardinality(DOMAIN real) -> DOMAIN real]
    BY <1>6, <1>7, ArrangedFact
  <2> QED
    BY <1>8, <2>1
<1> HIDE DEF order
<1>10. n \in Nat /\ n <= Len(real) /\ (Len(real) = 1 => n = 1)
  <2> DEFINE m == Len(real)
  <2>1. m \in Nat /\ n = Smaller(10, m)
    BY <1>6 DEF MaxBoxes
  <2> HIDE DEF n, m
  <2>2. n \in Nat /\ n <= m /\ (m = 1 => n = 1)
    BY <2>1 DEF Smaller
  <2> QED
    BY <2>2 DEF m
<1> HIDE DEF n
<1>11. \A k \in 1 .. n : order[k] \in DOMAIN real /\ top[k] = real[order[k]] /\ top[k] \in Clipped
  BY <1>6, <1>9, <1>10
<1>12. top \in Seq(Clipped) /\ DOMAIN top = 1 .. n /\ Len(top) = n
  <2>1. DOMAIN top = 1 .. n /\ top = [k \in 1 .. n |-> top[k]]
    OBVIOUS
  <2> HIDE DEF top
  <2>2. top \in [1 .. n -> Clipped]
    BY <1>11, <2>1
  <2>3. top \in Seq(Clipped)
    BY <1>10, <2>2, SeqDef
  <2> QED
    BY <1>10, <2>1, <2>3, LenProperties
<1>13. sure \in SUBSET DOMAIN top
  OBVIOUS
<1>14. \A k \in DOMAIN top : k \in sure <=> top[k].score >= scene.threshold
  OBVIOUS
<1> HIDE DEF top, sure
<1>15. \A k \in DOMAIN out : \E i \in sure : out[k] = top[i]
  BY <1>12, <1>13, IndexFact
<1>16. ASSUME NEW k \in DOMAIN out PROVE \E i \in DOMAIN ds : out[k].box = ClipBox(ds[i].box)
  <2>1. PICK i \in sure : out[k] = top[i]
    BY <1>15
  <2>2. i \in 1 .. n /\ order[i] \in DOMAIN real /\ top[i] = real[order[i]]
    BY <1>11, <1>12, <1>13
  <2>3. PICK j \in big : real[order[i]] = clipped[j]
    BY <1>5, <2>2
  <2>4. j \in DOMAIN ds /\ clipped[j].box = ClipBox(ds[j].box)
    <3>1. j \in DOMAIN ds /\ clipped[j] = Clip(ds[j]) /\ ds[j] \in Dets
      BY <1>1, <1>2, <1>3, <1>4
    <3> QED
      BY <3>1, ClipFact
  <2> HIDE DEF out
  <2> QED
    BY <2>1, <2>2, <2>3, <2>4
<1>17. ASSUME Len(ds) = 1, Area(ClipBox(ds[1].box)) > 0, scene.threshold = 0
       PROVE  Len(out) = 1 /\ out[1].box = ClipBox(ds[1].box)
  <2>1. DOMAIN ds = {1}
    BY <1>1, <1>17
  <2>2. clipped[1].box = ClipBox(ds[1].box) /\ 1 \in DOMAIN clipped
    <3>1. clipped[1] = Clip(ds[1]) /\ ds[1] \in Dets
      BY <1>1, <1>2, <2>1
    <3> QED
      BY <1>3, <2>1, <3>1, ClipFact
  <2>3. big = {1}
    BY <1>3, <1>17, <2>1, <2>2 DEF big
  <2>4. Len(real) = 1 /\ real[1] = clipped[1] /\ DOMAIN real = {1}
    BY <1>3, <2>2, <2>3, IndexOne DEF real
  <2>5. n = 1 /\ order[1] = 1
    BY <1>9, <1>10, <2>4
  <2>6. DOMAIN top = {1} /\ top[1] = clipped[1] /\ top[1].score \in Nat
    <3>1. 1 \in 1 .. n
      BY <2>5
    <3>2. top[1] \in Clipped /\ top[1] = clipped[1]
      BY <1>11, <2>4, <2>5, <3>1
    <3> QED
      BY <1>12, <2>5, <3>2 DEF Clipped
  <2>7. sure = {1}
    BY <1>13, <1>14, <1>17, <2>6
  <2>8. Len(out) = 1 /\ out[1] = top[1]
    BY <1>12, <2>6, <2>7, IndexOne
  <2> HIDE DEF out
  <2> QED
    BY <2>2, <2>6, <2>8
<1> HIDE DEF out
<1> QED
  BY <1>0, <1>16, <1>17

-----------------------------------------------------------------------------
(* An object alone in the frame                                              *)

Alone == Len(scene.objects) = 1 /\ scene.overshoot = 0
Sole  == scene.objects[1]

\* Every tile reports what it sees of the object, and nothing else.
Sighted == \A t \in DOMAIN found : \A k \in DOMAIN found[t] : Sights(found[t][k], tiles[t], Sole)

\* The object is somewhere in the frame.
LEMMA SoleFact ==
  ASSUME scene \in Scenes, Alone
  PROVE  /\ Sole \in Objects /\ IsFiniteSet(Sole.parts) /\ WholeBox(Sole) \in Boxes
         /\ Inside(WholeBox(Sole), Frame) /\ DOMAIN scene.objects = {1}
         /\ scene.frameSize \in Nat /\ Frame \in Boxes
         /\ Cardinality(Sole.parts) = 1 => Upright(Sole, WholeBox(Sole), scene.frameSize)
<1> DEFINE f == scene.frameSize
           parts == Sole.parts
<1>1. scene.objects \in Seq(Objects) /\ f \in Nat
  BY ScenesAssumption DEF Objects, Boxes
<1>2. DOMAIN scene.objects = {1} /\ Sole \in Objects
  <2>1. DOMAIN scene.objects = 1 .. 1 /\ \A i \in DOMAIN scene.objects : scene.objects[i] \in Objects
    BY <1>1, SeqDomain DEF Alone
  <2>2. 1 \in DOMAIN scene.objects /\ 1 .. 1 = {1}
    BY <2>1
  <2> QED
    BY <2>1, <2>2 DEF Sole
<1>3. /\ parts # {} /\ IsFiniteSet(parts)
      /\ \A p \in parts : \A axis \in {1, 2} : 0 <= p[axis] /\ p[axis] < p[axis + 2] /\ p[axis + 2] <= f
  BY <1>2, ScenesAssumption DEF Sole
<1>4. parts \in SUBSET Boxes
  BY <1>2 DEF Objects
<1>5. \A p \in parts : /\ 0 <= p[1] /\ p[1] < p[3] /\ p[3] <= f
                       /\ 0 <= p[2] /\ p[2] < p[4] /\ p[4] <= f
  <2>1. 1 + 2 = 3 /\ 2 + 2 = 4
    OBVIOUS
  <2> QED
    BY <1>3, <2>1
<1>6. \A p \in parts : Inside(p, Frame)
  BY <1>1, <1>4, <1>5 DEF Inside, Frame, Boxes
<1>7. Inside(WholeBox(Sole), Frame) /\ WholeBox(Sole) \in Boxes
  <2> HIDE DEF parts
  <2>1. Inside(Enclosing(parts), Frame)
    BY <1>3, <1>4, <1>6, EnclosingInside
  <2>2. Enclosing(parts) \in Boxes
    BY <1>3, <1>4, EnclosingMonotone
  <2> QED
    BY <2>1, <2>2 DEF WholeBox, parts
<1>8. Frame \in Boxes
  BY <1>1 DEF Frame, Boxes
<1>9. ASSUME Cardinality(parts) = 1 PROVE Upright(Sole, WholeBox(Sole), f)
  <2>1. PICK p : parts = {p}
    <3> HIDE DEF parts
    <3> QED
      BY <1>3, <1>9, FS_Singleton
  <2>2. Upright(Sole, p, f)
    BY <1>1, <1>2, <1>4, <1>5, <2>1 DEF Upright
  <2>3. WholeBox(Sole) = p
    BY <2>2, UprightWhole
  <2> QED
    BY <2>2, <2>3
<1> QED
  BY <1>1, <1>2, <1>3, <1>7, <1>8, <1>9

\* The detections gathered are the pieces that the tiles see of the object.
LEMMA GatheredPieces ==
  ASSUME scene \in Scenes, Alone, tiles \in Seq(Squares), found \in Seq(Seq(TileDets)),
         Len(found) = Len(tiles), Sighted
  PROVE  /\ Gathered(found) \in Seq(Dets) /\ Of(Gathered(found), Sole.label, WholeBox(Sole))
         /\ Pieces(Gathered(found), Sole)
         /\ (\A t \in DOMAIN tiles : SeenParts(Sole, tiles[t]) # {} => found[t] # << >>)
              => Reported(Gathered(found), Sole)
<1> DEFINE ds == Gathered(found)
<1>1. DOMAIN found = DOMAIN tiles /\ Len(found) <= Len(tiles)
  BY SeqDomain
<1>2. /\ \A t \in DOMAIN found : found[t] \in Seq(TileDets)
      /\ \A t \in DOMAIN tiles : tiles[t] \in Squares
  BY SeqDomain
<1>3. /\ ds \in Seq(Dets)
      /\ \A t \in DOMAIN found : \A k \in DOMAIN found[t] : \E e \in DOMAIN ds : ds[e] = InFrame(found, t, k)
      /\ \A e \in DOMAIN ds : \E t \in DOMAIN found : \E k \in DOMAIN found[t] : ds[e] = InFrame(found, t, k)
  BY <1>1, GatheredFact
<1> HIDE DEF ds
<1>4. ASSUME NEW t \in DOMAIN found, NEW k \in DOMAIN found[t], NEW d, d = InFrame(found, t, k)
      PROVE  IsPiece(d, Sole, t)
  <2>1. Sights(found[t][k], tiles[t], Sole)
    BY DEF Sighted
  <2> QED
    BY <1>4, <2>1 DEF Sights, IsPiece, InFrame, Piece
<1>5. Pieces(ds, Sole)
  BY <1>1, <1>3, <1>4 DEF Pieces
<1>6. Of(ds, Sole.label, WholeBox(Sole))
  <2>1. ASSUME NEW e \in DOMAIN ds PROVE ds[e].label = Sole.label /\ Inside(ds[e].box, WholeBox(Sole))
    <3>1. PICK t \in DOMAIN tiles : IsPiece(ds[e], Sole, t)
      BY <1>5 DEF Pieces
    <3>2. scene.overshoot = 0 /\ tiles[t] \in Squares /\ SeenParts(Sole, tiles[t]) # {}
      BY <1>2, <3>1 DEF Alone, IsPiece
    <3>3. Sole \in Objects /\ IsFiniteSet(Sole.parts)
      BY SoleFact
    <3>4. Inside(Piece(Sole, tiles[t]), WholeBox(Sole))
      BY <3>2, <3>3, PieceInside
    <3> QED
      BY <3>1, <3>4 DEF IsPiece
  <2> QED
    BY <2>1 DEF Of
<1>7. ASSUME \A t \in DOMAIN tiles : SeenParts(Sole, tiles[t]) # {} => found[t] # << >>
      PROVE  Reported(ds, Sole)
  <2>1. ASSUME NEW t \in DOMAIN tiles, SeenParts(Sole, tiles[t]) # {}
        PROVE  \E e \in DOMAIN ds : IsPiece(ds[e], Sole, t)
    <3>1. 1 \in DOMAIN found[t]
      <4> DEFINE part == found[t]
      <4>1. part \in Seq(TileDets) /\ part # << >>
        BY <1>1, <1>2, <1>7, <2>1
      <4> HIDE DEF part
      <4>2. DOMAIN part = 1 .. Len(part) /\ Len(part) \in Nat /\ Len(part) # 0
        BY <4>1, SeqDomain, EmptySeq
      <4>3. 1 \in DOMAIN part
        BY <4>2
      <4> QED
        BY <4>3 DEF part
    <3>2. PICK e \in DOMAIN ds : ds[e] = InFrame(found, t, 1)
      BY <1>1, <1>3, <3>1
    <3> QED
      BY <1>1, <1>4, <3>1, <3>2
  <2> QED
    BY <2>1 DEF Reported
<1> QED
  BY <1>3, <1>5, <1>6, <1>7 DEF ds

-----------------------------------------------------------------------------
(* The invariant and the properties                                          *)

LEMMA TileInit == Init => IInv
BY DEF Init, IInv, CompleteSurvives

\* The tiles that are accepted are at least one.
LEMMA SegmentKeeps ==
  ASSUME IInv, Segment
  PROVE  IInv'
<1> DEFINE layout == MakeTileLayout(scene.layout, scene.frameSize, scene.tileSize)
<1>1. scene \in Scenes /\ found = << >> /\ stage = "layout"
  BY DEF IInv, Segment
<1>2. scene.layout \in Layouts /\ scene.frameSize \in Nat \ {0} /\ scene.tileSize \in Nat \ {0}
  BY <1>1, ScenesAssumption
<1>3. layout \in Seq(Squares) /\ Len(layout) > 0
  <2>1. layout \in Seq(Squares)
    BY <1>2, LayoutTiles
  <2>2. 1 \in DOMAIN layout
    <3>1. CASE scene.layout = "whole"
      <4>1. layout = <<Tile(0, 0, scene.frameSize)>>
        BY <1>2, <3>1, LayoutTiles
      <4> QED
        BY <4>1
    <3>2. CASE scene.layout # "whole"
      <4>1. \A k \in 1 .. 4 : k \in DOMAIN layout
        BY <1>2, <3>2, LayoutTiles
      <4> HIDE DEF layout
      <4> QED
        BY <4>1
    <3> QED
      BY <3>1, <3>2
  <2> HIDE DEF layout
  <2> QED
    BY <2>1, <2>2, SeqDomain
<1>4. found' = << >> /\ scene' = scene /\ stage' \in {"detect", "refused"}
  BY <1>1 DEF Segment
<1>5. ASSUME stage' = "detect"
      PROVE  /\ tiles' = layout /\ Accepts(scene.layout, scene.frameSize, scene.tileSize)
             /\ \A k \in DOMAIN layout : Splittable(layout[k], scene.frameSize, scene.tileSize)
  BY <1>5 DEF Segment
<1>6. << >> \in Seq(Seq(TileDets)) /\ Len(<< >>) = 0
  OBVIOUS
<1> HIDE DEF layout
<1>7. Len(layout) \in Nat
  BY <1>3, SeqDomain
<1>8. stage' = "detect" => tiles' \in Seq(Squares) /\ found' \in Seq(Seq(TileDets)) /\ Len(found') < Len(tiles')
                           /\ Len(found') <= Len(tiles')
  BY <1>3, <1>4, <1>5, <1>6, <1>7
<1> QED
  BY <1>1, <1>4, <1>5, <1>8 DEF IInv, CompleteSurvives, layout

LEMMA DetectKeeps ==
  ASSUME IInv, DetectTile
  PROVE  IInv'
<1> DEFINE n == Len(found)
           m == Len(tiles)
<1>1. /\ scene \in Scenes /\ stage = "detect"
      /\ tiles \in Seq(Squares) /\ found \in Seq(Seq(TileDets)) /\ n < m
  BY DEF IInv, DetectTile
<1>2. n \in Nat /\ m \in Nat /\ DOMAIN tiles = 1 .. m /\ \A k \in DOMAIN tiles : tiles[k] \in Squares
  <2>1. n \in Nat
    BY <1>1, SeqDomain
  <2>2. m \in Nat /\ DOMAIN tiles = 1 .. m /\ \A k \in DOMAIN tiles : tiles[k] \in Squares
    BY <1>1, SeqDomain
  <2> QED
    BY <2>1, <2>2
<1>3. PICK raw \in RawOutputs(tiles[n + 1]) : found' = Append(found, DecodeTile(raw))
  BY DEF DetectTile
<1>4. tiles[n + 1] \in Squares
  BY <1>1, <1>2
<1> HIDE DEF n, m
<1>5. DecodeTile(raw) \in Seq(TileDets)
  <2>1. raw \in Seq(Raws)
    BY <1>1, <1>3, <1>4, RawFact
  <2> QED
    BY <2>1, DecodeFact
<1>6. found' \in Seq(Seq(TileDets)) /\ Len(found') = n + 1
  <2> DEFINE E == Seq(TileDets)
             new == DecodeTile(raw)
  <2>1. found \in Seq(E) /\ new \in E /\ found' = Append(found, new)
    BY <1>1, <1>3, <1>5
  <2> HIDE DEF E, new
  <2>2. Append(found, new) \in Seq(E) /\ Len(Append(found, new)) = Len(found) + 1
    BY <2>1, AppendProperties
  <2> QED
    BY <2>1, <2>2 DEF n, E
<1>7. UNCHANGED <<scene, tiles>> /\ stage' = IF Len(found') = Len(tiles) THEN "gather" ELSE "detect"
  BY DEF DetectTile
<1>8. Len(found') <= Len(tiles') /\ (stage' = "detect" => Len(found') < Len(tiles'))
  <2>1. Len(tiles') = m
    BY <1>7 DEF m
  <2>2. Len(found') <= m /\ (Len(found') # m => Len(found') < m)
    BY <1>1, <1>2, <1>6
  <2>3. stage' = "detect" => Len(found') # m
    BY <1>7 DEF m
  <2> QED
    BY <2>1, <2>2, <2>3
<1>9. stage' \in {"detect", "gather"}
  BY <1>7
<1> QED
  BY <1>1, <1>6, <1>7, <1>8, <1>9 DEF IInv, CompleteSurvives

LEMMA GatherKeeps ==
  ASSUME IInv, Gather
  PROVE  IInv'
<1>1. /\ scene \in Scenes /\ stage = "gather" /\ tiles \in Seq(Squares)
      /\ found \in Seq(Seq(TileDets)) /\ Len(found) <= Len(tiles)
  BY DEF IInv, Gather, Pass
<1>2. stage' = "fuse" /\ dets' = Gathered(found) /\ UNCHANGED <<scene, tiles, found>>
  BY DEF Gather, Pass
<1>3. /\ dets' \in Seq(Dets)
      /\ \A t \in DOMAIN found : \A k \in DOMAIN found[t] : \E e \in DOMAIN dets' : dets'[e] = InFrame(found, t, k)
  BY <1>1, <1>2, GatheredFact
<1>4. ASSUME NEW t \in DOMAIN found, NEW k \in DOMAIN found[t],
             SeamTruncations(found[t][k].box, tiles[t], scene.frameSize) = {}
      PROVE  \E e \in DOMAIN dets' :
                /\ dets'[e].label = found[t][k].label /\ ~dets'[e].truncated
                /\ dets'[e].box = ToFrame(found[t][k].box, tiles[t]) /\ dets'[e].cuts = {}
  <2>1. PICK e \in DOMAIN dets' : dets'[e] = InFrame(found, t, k)
    BY <1>3
  <2>2. /\ InFrame(found, t, k).label = found[t][k].label /\ ~InFrame(found, t, k).truncated
        /\ InFrame(found, t, k).box = ToFrame(found[t][k].box, tiles[t]) /\ InFrame(found, t, k).cuts = {}
    BY <1>4 DEF InFrame
  <2> QED
    BY <2>1, <2>2
<1>5. CompleteKept'
  BY <1>2, <1>4 DEF CompleteKept
<1> QED
  BY <1>1, <1>2, <1>3, <1>5 DEF IInv, CompleteSurvives

LEMMA FuseStepKeeps ==
  ASSUME IInv, Fuse
  PROVE  IInv'
<1>1. scene \in Scenes /\ stage = "fuse" /\ dets \in Seq(Dets) /\ CompleteKept
  BY DEF IInv, Fuse, Pass
<1>2. stage' = "contain" /\ dets' = FuseSeamFragments(dets, SeamIou) /\ UNCHANGED <<scene, tiles, found>>
  BY DEF Fuse, Pass
<1>3. dets' \in Seq(Dets)
  BY <1>1, <1>2, FuseFact
<1>4. \A i \in DOMAIN dets : dets[i].cuts = {} =>
         \E e \in DOMAIN dets' : dets'[e].box = dets[i].box /\ dets'[e].label = dets[i].label /\ ~dets'[e].truncated
  BY <1>1, <1>2, FuseKeeps
<1>5. ASSUME NEW t \in DOMAIN found, NEW k \in DOMAIN found[t],
             SeamTruncations(found[t][k].box, tiles[t], scene.frameSize) = {}
      PROVE  \E e \in DOMAIN dets' :
                /\ dets'[e].label = found[t][k].label /\ ~dets'[e].truncated
                /\ dets'[e].box = ToFrame(found[t][k].box, tiles[t])
  <2>1. PICK i \in DOMAIN dets : /\ dets[i].label = found[t][k].label
                                 /\ dets[i].box = ToFrame(found[t][k].box, tiles[t]) /\ dets[i].cuts = {}
    BY <1>1, <1>5 DEF CompleteKept
  <2> QED
    BY <1>4, <2>1
<1>6. CompleteKept'
  BY <1>2, <1>5 DEF CompleteKept
<1> QED
  BY <1>1, <1>2, <1>3, <1>6 DEF IInv, CompleteSurvives

LEMMA ContainStepKeeps ==
  ASSUME IInv, Contain
  PROVE  IInv'
<1>1. scene \in Scenes /\ stage = "contain" /\ dets \in Seq(Dets) /\ CompleteKept
  BY DEF IInv, Contain, Pass
<1>2. stage' = "nms" /\ dets' = SuppressContained(dets, IosThreshold) /\ UNCHANGED <<scene, tiles, found>>
  BY DEF Contain, Pass
<1>3. dets' \in Seq(Dets) /\ \A i \in DOMAIN dets : ~dets[i].truncated => \E e \in DOMAIN dets' : dets'[e] = dets[i]
  BY <1>1, <1>2, ContainKeeps
<1>4. ASSUME NEW t \in DOMAIN found, NEW k \in DOMAIN found[t],
             SeamTruncations(found[t][k].box, tiles[t], scene.frameSize) = {}
      PROVE  \E e \in DOMAIN dets' :
                /\ dets'[e].label = found[t][k].label /\ ~dets'[e].truncated
                /\ dets'[e].box = ToFrame(found[t][k].box, tiles[t])
  <2>1. PICK i \in DOMAIN dets : /\ dets[i].label = found[t][k].label /\ ~dets[i].truncated
                                 /\ dets[i].box = ToFrame(found[t][k].box, tiles[t])
    BY <1>1, <1>4 DEF CompleteKept
  <2>2. PICK e \in DOMAIN dets' : dets'[e] = dets[i]
    BY <1>3, <2>1
  <2> QED
    BY <2>1, <2>2
<1>5. CompleteKept'
  BY <1>2, <1>4 DEF CompleteKept
<1> QED
  BY <1>1, <1>2, <1>3, <1>5 DEF IInv, CompleteSurvives

LEMMA NmsStepKeeps ==
  ASSUME IInv, Nms
  PROVE  IInv'
<1>1. scene \in Scenes /\ stage = "nms" /\ dets \in Seq(Dets) /\ CompleteKept
  BY DEF IInv, Nms, Pass
<1>2. stage' = "finish" /\ dets' = PerClassNms(dets, NmsIou) /\ UNCHANGED <<scene, tiles, found>>
  BY DEF Nms, Pass
<1>3. \A i \in DOMAIN dets : ~dets[i].truncated =>
         \E e \in DOMAIN dets' : /\ dets'[e].label = dets[i].label /\ ~dets'[e].truncated
                                 /\ IoU(dets'[e].box, dets[i].box, NmsIou)
  BY <1>1, <1>2, NmsCovers
<1>4. ASSUME NEW t \in DOMAIN found, NEW k \in DOMAIN found[t],
             SeamTruncations(found[t][k].box, tiles[t], scene.frameSize) = {}
      PROVE  \E e \in DOMAIN dets' :
                /\ dets'[e].label = found[t][k].label /\ ~dets'[e].truncated
                /\ IoU(dets'[e].box, ToFrame(found[t][k].box, tiles[t]), NmsIou)
  <2>1. PICK i \in DOMAIN dets : /\ dets[i].label = found[t][k].label /\ ~dets[i].truncated
                                 /\ dets[i].box = ToFrame(found[t][k].box, tiles[t])
    BY <1>1, <1>4 DEF CompleteKept
  <2>2. PICK e \in DOMAIN dets' : /\ dets'[e].label = dets[i].label /\ ~dets'[e].truncated
                                  /\ IoU(dets'[e].box, dets[i].box, NmsIou)
    BY <1>3, <2>1
  <2> QED
    BY <2>1, <2>2
<1>5. CompleteSurvives'
  BY <1>2, <1>4 DEF CompleteSurvives
<1> QED
  BY <1>1, <1>2, <1>5 DEF IInv

LEMMA TileNext == IInv /\ [Next]_vars => IInv'
<1> SUFFICES ASSUME IInv, [Next]_vars PROVE IInv'
  OBVIOUS
<1>1. CASE Finish
  <2>1. stage' = "done" /\ UNCHANGED scene
    BY <1>1 DEF Finish, Pass
  <2> QED
    BY <2>1 DEF IInv, CompleteSurvives
<1>2. CASE UNCHANGED vars
  <2>1. UNCHANGED <<scene, stage, tiles, found, dets>>
    BY <1>2 DEF vars
  <2>2. CompleteKept' <=> CompleteKept
    BY <2>1 DEF CompleteKept
  <2>3. CompleteSurvives' <=> CompleteSurvives
    BY <2>1 DEF CompleteSurvives
  <2> QED
    BY <2>1, <2>2, <2>3 DEF IInv
<1> QED
  BY <1>1, <1>2, SegmentKeeps, DetectKeeps, GatherKeeps, FuseStepKeeps, ContainStepKeeps, NmsStepKeeps
  DEF Next, Over

\* The invariant of a frame on its way through the stages.
THEOREM TileInvariant == Spec => []IInv
BY TileInit, TileNext, PTL DEF Spec

\* A detection that no seam cuts off is never displaced by a fragment (tiled_shard.py:271-273).
THEOREM CompleteOnesSurvive == Spec => []CompleteSurvives
<1>1. IInv => CompleteSurvives
  BY DEF IInv
<1> QED
  BY <1>1, TileInvariant, PTL

\* Fusion leaves one detection for each connected component of the fragments that join.
THEOREM FusionClosed == Spec => FusionIsClosure
<1>1. ASSUME IInv, [Next]_vars PROVE [stage = "fuse" => Closed(Components(dets))]_vars
  <2> SUFFICES ASSUME stage = "fuse", Next PROVE Closed(Components(dets)) \/ UNCHANGED vars
    BY <1>1
  <2>1. CASE Fuse
    <3>1. dets \in Seq(Dets) /\ dets' = FuseSeamFragments(dets, SeamIou)
      BY <1>1, <2>1 DEF IInv, Fuse, Pass
    <3> QED
      BY <3>1, FuseFact DEF Closed
  <2>2. CASE Over
    BY <2>2 DEF Over
  <2> QED
    BY <2>1, <2>2 DEF Next, Segment, DetectTile, Gather, Contain, Nms, Finish, Pass
<1> QED
  BY <1>1, TileInvariant, PTL DEF Spec, FusionIsClosure

\* A pass keeps a detection exactly if nothing better that it keeps suppresses it.
THEOREM SuppressionIsSound == Spec => SuppressionSound
<1> DEFINE A == \E kept \in SUBSET Kept : dets' = Index(dets, kept) /\ Justified(kept)
<1>1. ASSUME dets \in Seq(Dets), NEW over, NEW only \in BOOLEAN,
             dets' = GreedySuppress(dets, over, only),
             \A i, j \in DOMAIN dets :
                dets[j].label = dets[i].label /\ <<j, i>> \in over /\ (only => dets[i].truncated)
                  <=> Suppresses(dets[j], dets[i])
      PROVE  A
  <2>1. PICK kept \in SUBSET DOMAIN dets :
           /\ GreedySuppress(dets, over, only) = Index(dets, kept)
           /\ \A i \in DOMAIN dets : i \in kept <=>
                 \A j \in kept \ {i} : Outranks(dets, j, i) =>
                     ~ (dets[j].label = dets[i].label /\ <<j, i>> \in over /\ (only => dets[i].truncated))
    BY <1>1, SuppressFact
  <2>2. \A i \in kept : \E k \in DOMAIN dets' : dets'[k] = dets[i]
    BY <1>1, <2>1, IndexFact
  <2>3. kept \in SUBSET Kept
    BY <2>2 DEF Kept
  <2>4. Justified(kept)
    BY <1>1, <2>1 DEF Justified
  <2> QED
    BY <1>1, <2>1, <2>3, <2>4
<1>2. ASSUME IInv, Contain PROVE A
  <2> DEFINE over == {p \in (DOMAIN dets) \X (DOMAIN dets) : IoS(dets[p[1]].box, dets[p[2]].box, IosThreshold)}
             only == TRUE
  <2>1. dets \in Seq(Dets) /\ stage = "contain" /\ dets' = SuppressContained(dets, IosThreshold)
    BY <1>2 DEF IInv, Contain, Pass
  <2>2. dets' = GreedySuppress(dets, over, only)
    BY <2>1 DEF SuppressContained
  <2>3. \A i, j \in DOMAIN dets : <<j, i>> \in over <=> IoS(dets[j].box, dets[i].box, IosThreshold)
    OBVIOUS
  <2>4. only \in BOOLEAN /\ only
    OBVIOUS
  <2> HIDE DEF over, only, A
  <2>5. \A i, j \in DOMAIN dets :
           dets[j].label = dets[i].label /\ <<j, i>> \in over /\ (only => dets[i].truncated)
             <=> Suppresses(dets[j], dets[i])
    BY <2>1, <2>3, <2>4 DEF Suppresses
  <2> QED
    BY <1>1, <2>1, <2>2, <2>4, <2>5
<1>3. ASSUME IInv, Nms PROVE A
  <2> DEFINE over == {p \in (DOMAIN dets) \X (DOMAIN dets) : IoU(dets[p[1]].box, dets[p[2]].box, NmsIou)}
             only == FALSE
  <2>1. dets \in Seq(Dets) /\ stage = "nms" /\ dets' = PerClassNms(dets, NmsIou)
    BY <1>3 DEF IInv, Nms, Pass
  <2>2. dets' = GreedySuppress(dets, over, only)
    BY <2>1 DEF PerClassNms
  <2>3. \A i, j \in DOMAIN dets : <<j, i>> \in over <=> IoU(dets[j].box, dets[i].box, NmsIou)
    OBVIOUS
  <2>4. only \in BOOLEAN /\ ~only
    OBVIOUS
  <2> HIDE DEF over, only, A
  <2>5. \A i, j \in DOMAIN dets :
           dets[j].label = dets[i].label /\ <<j, i>> \in over /\ (only => dets[i].truncated)
             <=> Suppresses(dets[j], dets[i])
    BY <2>1, <2>3, <2>4 DEF Suppresses
  <2> QED
    BY <1>1, <2>1, <2>2, <2>4, <2>5
<1> HIDE DEF A
<1>4. ASSUME IInv, [Next]_vars PROVE [stage = "contain" \/ stage = "nms" => A]_vars
  <2> SUFFICES ASSUME stage = "contain" \/ stage = "nms", Next PROVE A \/ UNCHANGED vars
    BY <1>4
  <2>1. Contain \/ Nms \/ Over
    BY DEF Next, Segment, DetectTile, Gather, Fuse, Finish, Pass
  <2> QED
    BY <1>2, <1>3, <1>4, <2>1 DEF Over
<1> QED
  BY <1>4, TileInvariant, PTL DEF Spec, SuppressionSound, A

\* Whatever the sizes of the frame and of the model's input, a layout that is accepted shows
\* every pixel of the frame to some tile and nothing else, and a box around a pixel of a crop
\* is mapped back to just the pixels it is the mean of (tiled_shard.py:103-194).
THEOREM LayoutIsFaithful == Spec => []LayoutFaithful
<1>1. ASSUME IInv PROVE LayoutFaithful
  <2> DEFINE f == scene.frameSize
             t == scene.tileSize
             made == MakeTileLayout(scene.layout, f, t)
  <2> SUFFICES ASSUME stage = "detect"
               PROVE  /\ Cells(Frame) = UNION {Cells(TileBox(tiles[i])) : i \in DOMAIN tiles}
                      /\ \A i \in DOMAIN tiles :
                           LET k == tiles[i].size \div t
                           IN  \A p \in Cells(<<0, 0, t, t>>) :
                                 CropPixel(tiles[i], t, p)
                                   = Cells(ToFrame(<<k * p[1], k * p[2], k * (p[1] + 1), k * (p[2] + 1)>>, tiles[i]))
    BY DEF LayoutFaithful
  <2>1. scene.layout \in Layouts /\ f \in Nat \ {0} /\ t \in Nat \ {0}
    BY <1>1, ScenesAssumption DEF IInv
  <2>2. /\ tiles = made /\ Accepts(scene.layout, f, t)
        /\ \A i \in DOMAIN tiles : Splittable(tiles[i], f, t)
    BY <1>1 DEF IInv
  <2> HIDE DEF f, t
  <2>3. tiles \in Seq(Squares)
    BY <2>1, <2>2, LayoutTiles
  <2>4. \A i \in DOMAIN tiles : tiles[i] \in Squares
    BY <2>3, ElementOfSeq, LenProperties
  <2>5. Cells(Frame) = (0 .. f - 1) \X (0 .. f - 1)
    BY DEF Cells, Frame, f
  <2>6. ASSUME NEW i \in DOMAIN tiles PROVE Cells(TileBox(tiles[i])) \subseteq Cells(Frame)
    <3> DEFINE tile == tiles[i]
    <3>1. tile \in Squares /\ Splittable(tile, f, t)
      BY <2>2, <2>4
    <3> HIDE DEF tile
    <3>2. /\ tile.start[1] \in Int /\ tile.start[2] \in Int /\ tile.size \in Int
          /\ 0 <= tile.start[1] /\ tile.start[1] + tile.size <= f
          /\ 0 <= tile.start[2] /\ tile.start[2] + tile.size <= f
      BY <3>1 DEF Splittable, Squares
    <3>3. Cells(TileBox(tile)) =
            (tile.start[1] .. tile.start[1] + tile.size - 1) \X (tile.start[2] .. tile.start[2] + tile.size - 1)
      BY <3>1, TileCells
    <3>4. /\ tile.start[1] .. tile.start[1] + tile.size - 1 \subseteq 0 .. f - 1
          /\ tile.start[2] .. tile.start[2] + tile.size - 1 \subseteq 0 .. f - 1
      BY <2>1, <3>2
    <3> QED
      BY <2>5, <3>3, <3>4 DEF tile
  <2>7. ASSUME NEW x \in 0 .. f - 1, NEW y \in 0 .. f - 1
        PROVE  \E i \in DOMAIN tiles : <<x, y>> \in Cells(TileBox(tiles[i]))
    BY <2>1, <2>2, LayoutCovers
  <2>8. Cells(Frame) = UNION {Cells(TileBox(tiles[i])) : i \in DOMAIN tiles}
    BY <2>5, <2>6, <2>7
  <2>9. ASSUME NEW i \in DOMAIN tiles, NEW p \in Cells(<<0, 0, t, t>>)
        PROVE  LET k == tiles[i].size \div t
               IN  CropPixel(tiles[i], t, p)
                     = Cells(ToFrame(<<k * p[1], k * p[2], k * (p[1] + 1), k * (p[2] + 1)>>, tiles[i]))
    <3>1. Cells(<<0, 0, t, t>>) = (0 .. t - 1) \X (0 .. t - 1)
      BY DEF Cells
    <3>2. p \in Int \X Int
      BY <2>1, <3>1
    <3> QED
      BY <2>1, <2>4, <3>2, CropAgrees
  <2> QED
    BY <2>8, <2>9
<1> QED
  BY <1>1, TileInvariant, PTL

-----------------------------------------------------------------------------
(* The recovery of an object alone in the frame                              *)

\* The layout that was accepted, and what its tiles reported.
ReportedYet ==
    stage \in {"detect", "gather", "fuse", "contain", "nms", "finish", "done"} =>
        /\ tiles = MakeTileLayout(scene.layout, scene.frameSize, scene.tileSize)
        /\ Accepts(scene.layout, scene.frameSize, scene.tileSize)
        /\ found \in Seq(Seq(TileDets)) /\ Len(found) <= Len(tiles)
        /\ stage # "detect" => Len(found) = Len(tiles)
        /\ Alone => Sighted

\* How far each pass has brought the object: a whole that outranks every fragment, then wholes
\* only, then one of them.
Recovering ==
    Alone =>
        /\ stage = "fuse" => dets = Gathered(found)
        /\ stage \in {"contain", "nms", "finish"} =>
              dets \in Seq(Dets) /\ Of(dets, Sole.label, WholeBox(Sole))
        /\ stage = "contain" /\ Recoverable(Sole) => Ready(dets, WholeBox(Sole))
        /\ stage = "nms" /\ Recoverable(Sole) =>
              DOMAIN dets # {} /\ \A k \in DOMAIN dets : dets[k].box = WholeBox(Sole)
        /\ stage = "finish" /\ Recoverable(Sole) => Len(dets) = 1 /\ dets[1].box = WholeBox(Sole)

RInv == IInv /\ ReportedYet /\ Recovering /\ ObjectRecovered

\* A layout that is accepted has tiles.
LEMMA LayoutReal ==
  ASSUME scene \in Scenes, tiles = MakeTileLayout(scene.layout, scene.frameSize, scene.tileSize)
  PROVE  tiles \in Seq(Squares) /\ 1 \in DOMAIN tiles
<1> DEFINE f == scene.frameSize
           t == scene.tileSize
           layout == scene.layout
           made == MakeTileLayout(layout, f, t)
<1>1. layout \in Layouts /\ f \in Nat \ {0} /\ t \in Nat \ {0} /\ tiles = made
  BY ScenesAssumption
<1> HIDE DEF f, t, layout
<1>2. made \in Seq(Squares)
  BY <1>1, LayoutTiles
<1>3. CASE layout = "whole"
  <2>1. made = <<Tile(0, 0, f)>>
    BY <1>1, <1>3, LayoutTiles
  <2> QED
    BY <1>1, <1>2, <2>1
<1>4. CASE layout # "whole"
  <2>1. \A k \in 1 .. 4 : k \in DOMAIN made
    BY <1>1, <1>4, LayoutTiles
  <2> HIDE DEF made
  <2> QED
    BY <1>1, <1>2, <2>1
<1> QED
  BY <1>3, <1>4

\* What a frame shows and its tiles report does not change once the tiles have reported.
LEMMA SceneKept ==
  ASSUME UNCHANGED <<scene, tiles, found>>
  PROVE  /\ (Alone' <=> Alone) /\ Sole' = Sole /\ (Sighted' <=> Sighted)
         /\ Gathered(found)' = Gathered(found)
         /\ Recoverable(Sole)' <=> Recoverable(Sole)
<1>1. (Alone' <=> Alone) /\ Sole' = Sole
  BY DEF Alone, Sole
<1>2. Sighted' <=> Sighted
  BY <1>1 DEF Sighted, Sights, SeenParts, SeenBox
<1>3. Gathered(found)' = Gathered(found)
  BY DEF Gathered
<1>4. Flush' <=> Flush
  BY DEF Flush
<1>5. TakenForFragment(Sole, Gathered(found))' <=> TakenForFragment(Sole, Gathered(found))
  BY <1>1, <1>3 DEF TakenForFragment
<1>6. Recoverable(Sole)' <=> Recoverable(Sole)
  BY <1>1, <1>4, <1>5 DEF Recoverable
<1> QED
  BY <1>1, <1>2, <1>3, <1>6

LEMMA RecoverInit == Init => RInv
BY TileInit DEF Init, RInv, ReportedYet, Recovering, ObjectRecovered

LEMMA RecoverSegment ==
  ASSUME RInv, Segment
  PROVE  ReportedYet' /\ Recovering' /\ ObjectRecovered'
<1>1. scene \in Scenes /\ found = << >> /\ stage = "layout"
  BY DEF RInv, IInv, Segment
<1>2. found' = << >> /\ scene' = scene /\ stage' \in {"detect", "refused"}
  BY <1>1 DEF Segment
<1>3. IInv'
  BY SegmentKeeps DEF RInv
<1>4. ReportedYet'
  <2> SUFFICES ASSUME stage' = "detect" PROVE ReportedYet'
    BY <1>2 DEF ReportedYet
  <2>1. DOMAIN found' = {}
    BY <1>2
  <2>2. Sighted'
    BY <2>1 DEF Sighted
  <2> QED
    BY <1>3, <2>2 DEF IInv, ReportedYet
<1> QED
  BY <1>2, <1>4 DEF Recovering, ObjectRecovered

\* What a tile reports is what it sees of the object.
LEMMA RecoverDetect ==
  ASSUME RInv, DetectTile
  PROVE  ReportedYet' /\ Recovering' /\ ObjectRecovered'
<1> DEFINE n == Len(found)
           m == Len(tiles)
<1>1. /\ scene \in Scenes /\ stage = "detect"
      /\ tiles \in Seq(Squares) /\ found \in Seq(Seq(TileDets)) /\ n < m
  BY DEF RInv, IInv, DetectTile
<1>2. /\ UNCHANGED <<scene, tiles, dets>>
      /\ stage' = IF Len(found') = Len(tiles) THEN "gather" ELSE "detect"
  BY DEF DetectTile
<1>3. PICK raw \in RawOutputs(tiles[n + 1]) : found' = Append(found, DecodeTile(raw))
  BY DEF DetectTile
<1>4. n \in Nat /\ m \in Nat /\ DOMAIN tiles = 1 .. m /\ DOMAIN found = 1 .. n /\ tiles[n + 1] \in Squares
  <2>1. n \in Nat /\ DOMAIN found = 1 .. n
    BY <1>1, SeqDomain
  <2>2. m \in Nat /\ DOMAIN tiles = 1 .. m /\ \A k \in DOMAIN tiles : tiles[k] \in Squares
    BY <1>1, SeqDomain
  <2> QED
    BY <1>1, <2>1, <2>2
<1> DEFINE new == DecodeTile(raw)
           E == Seq(TileDets)
<1>5. /\ raw \in Seq(Raws)
      /\ \A i \in DOMAIN raw : \E k \in DOMAIN scene.objects : Sights(raw[i], tiles[n + 1], scene.objects[k])
  BY <1>1, <1>3, <1>4, RawFact
<1>6. /\ new \in E
      /\ \A k \in DOMAIN new : \E i \in DOMAIN raw : new[k].box = raw[i].box /\ new[k].label = raw[i].label
  BY <1>5, DecodeFact
<1> HIDE DEF new, n, m
<1>7. /\ found' \in Seq(E) /\ Len(found') = n + 1 /\ DOMAIN found' = 1 .. n + 1
      /\ \A t \in 1 .. n : found'[t] = found[t]
      /\ found'[n + 1] = new
  <2> HIDE DEF E
  <2>1. found \in Seq(E) /\ new \in E /\ found' = Append(found, new)
    BY <1>1, <1>3, <1>6 DEF E, new
  <2> QED
    BY <1>4, <2>1, AppendProperties DEF n
<1>8. Sighted' \/ ~Alone
  <2>0. /\ Sole' = Sole /\ tiles' = tiles
        /\ \A object, tile : SeenBox(object, tile)' = SeenBox(object, tile)
    BY <1>2 DEF Sole, SeenBox
  <2> SUFFICES ASSUME Alone, NEW t \in 1 .. n + 1, NEW k \in DOMAIN found'[t]
               PROVE  Sights(found'[t][k], tiles[t], Sole)
    BY <1>7, <2>0 DEF Sighted, Sights
  <2>1. CASE t = n + 1
    <3>1. DOMAIN scene.objects = {1}
      BY <1>1, SoleFact
    <3>2. PICK i \in DOMAIN raw : new[k].box = raw[i].box /\ new[k].label = raw[i].label
      BY <1>6, <1>7, <2>1
    <3>3. Sights(raw[i], tiles[n + 1], Sole)
      BY <1>5, <3>1 DEF Sole
    <3> QED
      BY <1>7, <2>1, <3>2, <3>3 DEF Sights
  <2>2. CASE t # n + 1
    <3>1. t \in DOMAIN found /\ found'[t] = found[t]
      BY <1>4, <1>7, <2>2
    <3> QED
      BY <1>1, <3>1 DEF RInv, ReportedYet, Sighted
  <2> QED
    BY <2>1, <2>2
<1>9. ReportedYet'
  <2>1. /\ tiles = MakeTileLayout(scene.layout, scene.frameSize, scene.tileSize)
        /\ Accepts(scene.layout, scene.frameSize, scene.tileSize)
    BY <1>1 DEF RInv, IInv
  <2>2. /\ tiles' = MakeTileLayout(scene'.layout, scene'.frameSize, scene'.tileSize)
        /\ Accepts(scene'.layout, scene'.frameSize, scene'.tileSize)
    BY <1>2, <2>1
  <2>3. Len(found') <= m /\ (stage' # "detect" => Len(found') = m) /\ Len(tiles') = m
    <3>1. Len(tiles') = m /\ (stage' # "detect" => Len(found') = m)
      BY <1>2 DEF m
    <3>2. n + 1 <= m
      BY <1>1, <1>4 DEF n, m
    <3> QED
      BY <1>7, <3>1, <3>2
  <2>4. Alone' <=> Alone
    BY <1>2 DEF Alone
  <2> QED
    BY <1>7, <1>8, <2>2, <2>3, <2>4 DEF ReportedYet
<1>10. stage' \in {"detect", "gather"}
  BY <1>2
<1> QED
  BY <1>9, <1>10 DEF Recovering, ObjectRecovered

\* The passes of the merge change neither the layout nor what was reported.
LEMMA ReachedKept ==
  ASSUME RInv, stage \in {"gather", "fuse", "contain", "nms", "finish"},
         UNCHANGED <<scene, tiles, found>>, stage' \in {"fuse", "contain", "nms", "finish", "done"}
  PROVE  ReportedYet'
<1>1. (Alone' <=> Alone) /\ (Sighted' <=> Sighted)
  BY SceneKept
<1>2. /\ tiles = MakeTileLayout(scene.layout, scene.frameSize, scene.tileSize)
      /\ Accepts(scene.layout, scene.frameSize, scene.tileSize)
      /\ found \in Seq(Seq(TileDets)) /\ Len(found) <= Len(tiles)
      /\ Len(found) = Len(tiles)
      /\ Alone => Sighted
  BY DEF RInv, ReportedYet
<1>3. /\ tiles' = MakeTileLayout(scene'.layout, scene'.frameSize, scene'.tileSize)
      /\ Accepts(scene'.layout, scene'.frameSize, scene'.tileSize)
      /\ found' \in Seq(Seq(TileDets)) /\ Len(found') <= Len(tiles')
      /\ Len(found') = Len(tiles')
  BY <1>2
<1> QED
  BY <1>1, <1>2, <1>3 DEF ReportedYet

LEMMA RecoverGather ==
  ASSUME RInv, Gather
  PROVE  ReportedYet' /\ Recovering' /\ ObjectRecovered'
<1>1. stage = "gather" /\ stage' = "fuse" /\ dets' = Gathered(found) /\ UNCHANGED <<scene, tiles, found>>
  BY DEF Gather, Pass
<1>2. ReportedYet'
  BY <1>1, ReachedKept
<1>3. Gathered(found)' = Gathered(found)
  BY <1>1, SceneKept
<1> QED
  BY <1>1, <1>2, <1>3 DEF Recovering, ObjectRecovered

\* Fusion makes a whole of the pieces.
LEMMA RecoverFuse ==
  ASSUME RInv, Fuse
  PROVE  ReportedYet' /\ Recovering' /\ ObjectRecovered'
<1> DEFINE w == WholeBox(Sole)
<1>1. /\ stage = "fuse" /\ stage' = "contain" /\ dets' = FuseSeamFragments(dets, SeamIou)
      /\ UNCHANGED <<scene, tiles, found>>
  BY DEF Fuse, Pass
<1>2. ReportedYet'
  BY <1>1, ReachedKept
<1>3. (Alone' <=> Alone) /\ Sole' = Sole /\ (Recoverable(Sole)' <=> Recoverable(Sole))
  BY <1>1, SceneKept
<1>4. WholeBox(Sole)' = w
  BY <1>3 DEF WholeBox
<1>5. ASSUME Alone
      PROVE  /\ dets' \in Seq(Dets) /\ Of(dets', Sole.label, w)
             /\ Recoverable(Sole) => Ready(dets', w)
  <2>1. /\ scene \in Scenes /\ dets = Gathered(found)
        /\ tiles = MakeTileLayout(scene.layout, scene.frameSize, scene.tileSize)
        /\ Accepts(scene.layout, scene.frameSize, scene.tileSize)
        /\ found \in Seq(Seq(TileDets)) /\ Len(found) = Len(tiles) /\ Sighted
    BY <1>1, <1>5 DEF RInv, IInv, ReportedYet, Recovering
  <2>2. tiles \in Seq(Squares) /\ DOMAIN tiles # {}
    BY <2>1, LayoutReal
  <2>3. /\ dets \in Seq(Dets) /\ Of(dets, Sole.label, w) /\ Pieces(dets, Sole)
        /\ (\A t \in DOMAIN tiles : SeenParts(Sole, tiles[t]) # {} => found[t] # << >>) => Reported(dets, Sole)
    BY <1>5, <2>1, <2>2, GatheredPieces
  <2>4. dets' \in Seq(Dets) /\ Of(dets', Sole.label, w)
    BY <1>1, <2>3, FuseFact, FuseOf
  <2>5. ASSUME Recoverable(Sole) PROVE Ready(dets', w)
    <3>1. Upright(Sole, w, scene.frameSize)
      BY <1>5, <2>1, <2>5, SoleFact DEF Recoverable
    <3>2. Reported(dets, Sole) /\ ~TakenForFragment(Sole, dets)
      BY <2>1, <2>3, <2>5 DEF Recoverable
    <3>3. Shaped
      BY <2>1, <2>5, ShapeFact DEF Recoverable
    <3>4. scene.overshoot = 0
      BY <1>5 DEF Alone
    <3> HIDE DEF w
    <3> QED
      BY <1>1, <2>2, <2>3, <3>1, <3>2, <3>3, <3>4, FusionReady
  <2> QED
    BY <2>4, <2>5
<1>6. Recovering'
  BY <1>1, <1>3, <1>4, <1>5 DEF Recovering
<1> QED
  BY <1>1, <1>2, <1>6 DEF ObjectRecovered

\* Containment drops every fragment of it.
LEMMA RecoverContain ==
  ASSUME RInv, Contain
  PROVE  ReportedYet' /\ Recovering' /\ ObjectRecovered'
<1> DEFINE w == WholeBox(Sole)
<1>1. /\ stage = "contain" /\ stage' = "nms" /\ dets' = SuppressContained(dets, IosThreshold)
      /\ UNCHANGED <<scene, tiles, found>>
  BY DEF Contain, Pass
<1>2. ReportedYet'
  BY <1>1, ReachedKept
<1>3. (Alone' <=> Alone) /\ Sole' = Sole /\ (Recoverable(Sole)' <=> Recoverable(Sole))
  BY <1>1, SceneKept
<1>4. WholeBox(Sole)' = w
  BY <1>3 DEF WholeBox
<1>5. ASSUME Alone
      PROVE  /\ dets' \in Seq(Dets) /\ Of(dets', Sole.label, w)
             /\ Recoverable(Sole) => DOMAIN dets' # {} /\ \A k \in DOMAIN dets' : dets'[k].box = w
  <2>1. /\ scene \in Scenes /\ dets \in Seq(Dets) /\ Of(dets, Sole.label, w)
        /\ Recoverable(Sole) => Ready(dets, w)
    BY <1>1, <1>5 DEF RInv, IInv, Recovering
  <2>2. w \in Boxes
    BY <1>5, <2>1, SoleFact
  <2> HIDE DEF w
  <2> QED
    BY <1>1, <2>1, <2>2, SuppressOf, ContainReady
<1>6. Recovering'
  BY <1>1, <1>3, <1>4, <1>5 DEF Recovering
<1> QED
  BY <1>1, <1>2, <1>6 DEF ObjectRecovered

\* The last pass leaves one of the wholes.
LEMMA RecoverNms ==
  ASSUME RInv, Nms
  PROVE  ReportedYet' /\ Recovering' /\ ObjectRecovered'
<1> DEFINE w == WholeBox(Sole)
<1>1. /\ stage = "nms" /\ stage' = "finish" /\ dets' = PerClassNms(dets, NmsIou)
      /\ UNCHANGED <<scene, tiles, found>>
  BY DEF Nms, Pass
<1>2. ReportedYet'
  BY <1>1, ReachedKept
<1>3. (Alone' <=> Alone) /\ Sole' = Sole /\ (Recoverable(Sole)' <=> Recoverable(Sole))
  BY <1>1, SceneKept
<1>4. WholeBox(Sole)' = w
  BY <1>3 DEF WholeBox
<1>5. ASSUME Alone
      PROVE  /\ dets' \in Seq(Dets) /\ Of(dets', Sole.label, w)
             /\ Recoverable(Sole) => Len(dets') = 1 /\ dets'[1].box = w
  <2>1. /\ scene \in Scenes /\ dets \in Seq(Dets) /\ Of(dets, Sole.label, w)
        /\ Recoverable(Sole) => DOMAIN dets # {} /\ \A k \in DOMAIN dets : dets[k].box = w
    BY <1>1, <1>5 DEF RInv, IInv, Recovering
  <2>2. w \in Boxes
    BY <1>5, <2>1, SoleFact
  <2> HIDE DEF w
  <2> QED
    BY <1>1, <2>1, <2>2, SuppressOf, NmsReady
<1>6. Recovering'
  BY <1>1, <1>3, <1>4, <1>5 DEF Recovering
<1> QED
  BY <1>1, <1>2, <1>6 DEF ObjectRecovered

\* Clipping and the cap leave it alone.
LEMMA RecoverFinish ==
  ASSUME RInv, Finish
  PROVE  ReportedYet' /\ Recovering' /\ ObjectRecovered'
<1> DEFINE w == WholeBox(Sole)
<1>1. stage = "finish" /\ stage' = "done" /\ dets' = Finished(dets) /\ UNCHANGED <<scene, tiles, found>>
  BY DEF Finish, Pass
<1>2. ReportedYet'
  BY <1>1, ReachedKept
<1>3. (Alone' <=> Alone) /\ Sole' = Sole /\ (Recoverable(Sole)' <=> Recoverable(Sole))
  BY <1>1, SceneKept
<1>4. WholeBox(Sole)' = w
  BY <1>3 DEF WholeBox
<1>5. ASSUME Alone
      PROVE  /\ \A k \in DOMAIN dets' : Inside(dets'[k].box, w)
             /\ Recoverable(Sole) => Len(dets') = 1 /\ dets'[1].box = w
  <2>1. /\ scene \in Scenes /\ dets \in Seq(Dets) /\ Of(dets, Sole.label, w)
        /\ Recoverable(Sole) => Len(dets) = 1 /\ dets[1].box = w
    BY <1>1, <1>5 DEF RInv, IInv, Recovering
  <2>2. w \in Boxes /\ Inside(w, Frame) /\ scene.frameSize \in Nat
    BY <1>5, <2>1, SoleFact
  <2> HIDE DEF w
  <2>3. DOMAIN dets = 1 .. Len(dets) /\ \A i \in DOMAIN dets : dets[i] \in Dets
    BY <2>1, SeqDomain
  <2>4. ASSUME NEW i \in DOMAIN dets
        PROVE  ClipBox(dets[i].box) = dets[i].box /\ Area(dets[i].box) > 0 /\ Inside(dets[i].box, w)
    <3> DEFINE b == dets[i].box
    <3>1. b \in RealBoxes /\ Inside(b, w)
      BY <2>1, <2>3 DEF Dets, Of
    <3> HIDE DEF b
    <3>2. 0 <= b[1] /\ 0 <= b[2] /\ b[3] <= scene.frameSize /\ b[4] <= scene.frameSize
      <4>1. b \in Boxes
        BY <3>1 DEF RealBoxes
      <4> QED
        BY <2>2, <3>1, <4>1 DEF Inside, Frame, Boxes
    <3>3. ClipBox(b) = b /\ Area(b) > 0
      BY <2>2, <3>1, <3>2, ClipInside
    <3> QED
      BY <3>1, <3>3 DEF b
  <2>5. \A k \in DOMAIN dets' : \E i \in DOMAIN dets : dets'[k].box = ClipBox(dets[i].box)
    BY <1>1, <2>1, <2>2, FinishFact
  <2>6. \A k \in DOMAIN dets' : Inside(dets'[k].box, w)
    BY <2>4, <2>5
  <2>7. ASSUME Recoverable(Sole) PROVE Len(dets') = 1 /\ dets'[1].box = w
    <3>1. Len(dets) = 1 /\ dets[1].box = w /\ scene.threshold = 0
      BY <2>1, <2>7 DEF Recoverable
    <3>2. 1 \in DOMAIN dets
      BY <2>3, <3>1
    <3>3. ClipBox(dets[1].box) = w /\ Area(ClipBox(dets[1].box)) > 0
      BY <2>4, <3>1, <3>2
    <3> QED
      BY <1>1, <2>1, <2>2, <3>1, <3>3, FinishFact
  <2> QED
    BY <2>6, <2>7
<1>6. ObjectRecovered'
  BY <1>1, <1>3, <1>4, <1>5 DEF ObjectRecovered, Alone, Sole
<1> QED
  BY <1>1, <1>2, <1>6 DEF Recovering

LEMMA RecoverNext == RInv /\ [Next]_vars => RInv'
<1> SUFFICES ASSUME RInv, [Next]_vars PROVE RInv'
  OBVIOUS
<1>1. IInv'
  BY TileNext DEF RInv
<1>2. CASE UNCHANGED vars
  <2>1. UNCHANGED <<scene, stage, tiles, found, dets>>
    BY <1>2 DEF vars
  <2>2. /\ (Alone' <=> Alone) /\ Sole' = Sole /\ (Sighted' <=> Sighted)
        /\ Gathered(found)' = Gathered(found) /\ (Recoverable(Sole)' <=> Recoverable(Sole))
    BY <2>1, SceneKept
  <2>3. WholeBox(Sole)' = WholeBox(Sole)
    BY <2>2 DEF WholeBox
  <2>4. ReportedYet'
    BY <2>1, <2>2 DEF RInv, ReportedYet
  <2>5. Recovering'
    BY <2>1, <2>2, <2>3 DEF RInv, Recovering
  <2>6. ObjectRecovered'
    BY <2>1, <2>2, <2>3 DEF RInv, ObjectRecovered, Sole
  <2> QED
    BY <1>1, <2>4, <2>5, <2>6 DEF RInv
<1> QED
  BY <1>1, <1>2, RecoverSegment, RecoverDetect, RecoverGather, RecoverFuse, RecoverContain, RecoverNms,
     RecoverFinish
  DEF Next, Over, RInv

\* An object alone in the frame, upright and reported by every tile that sees it, comes out of its
\* pieces as one detection with its own box, unless that is taken for a fragment; and
\* no detection reaches beyond an object alone in the frame (merge_tile_detections, :435-518).
THEOREM ObjectIsRecovered == Spec => []ObjectRecovered
<1>1. RInv => ObjectRecovered
  BY DEF RInv
<1> QED
  BY <1>1, RecoverInit, RecoverNext, PTL DEF Spec
=============================================================================
