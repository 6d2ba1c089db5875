--------------------------- MODULE Pictures_proofs ---------------------------
(***************************************************************************)
(* What the motion engine computes on one picture, for every size and      *)
(* every content: the rotation of a captured picture, and the filters of a *)
(* motion picture.                                                         *)
(***************************************************************************)
EXTENDS Rotation, Despeckle, FiniteSetTheorems, WellFoundedInduction, TLAPS

-----------------------------------------------------------------------------
(* Numbers *)

\* What a row and a column give, and what they are found from again.
LEMMA RowBelow ==
  ASSUME NEW w \in Nat, NEW y \in Nat, NEW z \in Nat, y < z
  PROVE  y * w + w <= z * w
<1>1. PICK d \in Nat : z = y + 1 + d
  <2>1. z - y - 1 \in Nat /\ z = y + 1 + (z - y - 1)
    OBVIOUS
  <2> QED BY <2>1
<1>2. z * w = y * w + w + d * w
  BY <1>1
<1>3. d * w \in Nat
  OBVIOUS
<1>4. y * w \in Nat /\ z * w \in Nat
  OBVIOUS
<1> QED BY <1>2, <1>3, <1>4

LEMMA InRows ==
  ASSUME NEW w \in Nat, NEW h \in Nat, NEW x \in 0..(w - 1), NEW y \in 0..(h - 1)
  PROVE  y * w + x \in 0..(w * h - 1)
<1>1. y * w + w <= h * w
  BY RowBelow
<1>2. h * w = w * h /\ y * w \in Nat /\ w * h \in Nat
  OBVIOUS
<1> QED BY <1>1, <1>2

LEMMA SameRow ==
  ASSUME NEW w \in Nat, NEW x \in 0..(w - 1), NEW y \in Nat,
         NEW a \in 0..(w - 1), NEW b \in Nat, y * w + x = b * w + a
  PROVE  y = b /\ x = a
<1>1. y * w \in Nat /\ b * w \in Nat
  OBVIOUS
<1>2. ~(y < b)
  <2> SUFFICES ASSUME y < b PROVE FALSE
    OBVIOUS
  <2>1. y * w + w <= b * w
    BY RowBelow
  <2> QED BY <2>1, <1>1
<1>3. ~(b < y)
  <2> SUFFICES ASSUME b < y PROVE FALSE
    OBVIOUS
  <2>1. b * w + w <= y * w
    BY RowBelow
  <2> QED BY <2>1, <1>1
<1>4. y = b
  BY <1>2, <1>3
<1> QED BY <1>1, <1>4

LEMMA RowAndColumn ==
  ASSUME NEW w \in Nat, NEW x \in 0..(w - 1), NEW y \in Nat
  PROVE  (y * w + x) % w = x /\ (y * w + x) \div w = y
<1> DEFINE i == y * w + x
           a == i % w
           b == i \div w
<1>1. i \in Nat /\ w > 0
  OBVIOUS
<1>2. a \in 0..(w - 1) /\ b \in Nat /\ i = b * w + a
  <2> HIDE DEF i
  <2>1. a \in 0..(w - 1)
    BY <1>1
  <2>2. i = w * b + a
    BY <1>1
  <2>3. b \in Int
    BY <1>1
  <2>4. b >= 0
    BY <1>1
  <2>5. w * b = b * w
    BY <2>3
  <2> QED BY <2>1, <2>2, <2>3, <2>4, <2>5
<1> HIDE DEF a, b
<1>3. y * w + x = b * w + a
  BY <1>2
<1>4. y = b /\ x = a
  BY <1>2, <1>3, SameRow
<1> QED BY <1>4 DEF a, b, i

LEMMA RowOf ==
  ASSUME NEW w \in Nat, w > 0, NEW i \in Nat
  PROVE  i = w * (i \div w) + (i % w)
OBVIOUS

LEMMA MinExists ==
  ASSUME NEW S, S \subseteq Nat, S # {}
  PROVE  \E c \in S : \A d \in S : c <= d
<1> DEFINE T == {0 .. c : c \in S}
<1>1. T \subseteq FiniteSubsetsOf(Nat) /\ T # {}
  <2>1. \A c \in S : c \in Nat /\ IsFiniteSet(0 .. c) /\ (0 .. c) \subseteq Nat
    BY FS_Interval
  <2> QED BY <2>1 DEF FiniteSubsetsOf
<1>2. PICK x \in T : \A y \in T : <<y, x>> \notin StrictSubsetOrdering(Nat)
  BY <1>1, FS_StrictSubsetOrderingWellFounded, WFMin
<1>3. PICK c \in S : x = 0 .. c
  OBVIOUS
<1>4. \A d \in S : c <= d
  <2> SUFFICES ASSUME NEW d \in S, d < c PROVE FALSE
    OBVIOUS
  <2>1. 0 .. d \subseteq Nat /\ 0 .. c \subseteq Nat /\ 0 .. d \subseteq 0 .. c /\ 0 .. d # 0 .. c
    OBVIOUS
  <2>2. <<0 .. d, 0 .. c>> \in StrictSubsetOrdering(Nat)
    BY <2>1 DEF StrictSubsetOrdering
  <2> QED BY <1>2, <1>3, <2>2
<1> QED BY <1>4

\* Two functions on an interval are the same when the first values are, and each value
\* that comes after the same value.
FirstSame(f, g, m, n) == m <= n => f[m] = g[m]
NextSame(f, g, m, n) == \A x \in m..n : x # m /\ f[x - 1] = g[x - 1] => f[x] = g[x]
AllSame(f, g, m, n) == \A x \in m..n : f[x] = g[x]
LEMMA SameFromTheFirst ==
  ASSUME NEW m \in Nat, NEW n \in Int, NEW f, NEW g,
         FirstSame(f, g, m, n), NextSame(f, g, m, n)
  PROVE  AllSame(f, g, m, n)
<1> DEFINE S == {x \in m..n : f[x] # g[x]}
<1>1. SUFFICES ASSUME S # {} PROVE FALSE
  BY DEF AllSame
<1>2. PICK c \in S : \A d \in S : c <= d
  <2>1. S \subseteq Nat
    OBVIOUS
  <2> HIDE DEF S
  <2> QED BY <1>1, <2>1, MinExists
<1>3. c # m /\ c \in m..n /\ c - 1 \in m..n
  BY DEF FirstSame
<1>4. c - 1 \notin S
  BY <1>2, <1>3
<1> QED BY <1>3, <1>4 DEF NextSame

-----------------------------------------------------------------------------
(* Rotation: the planes of a picture *)

Size(w, h) == w \in Nat /\ h \in Nat /\ w % 2 = 0 /\ h % 2 = 0 /\ (w * h) % 32 = 0
\* The palettes that are turned.
Turning == {YUV420P, GREY}
Holds(p, i) == i \in p.start..(p.start + p.w * p.h - 1)
\* The same bytes, with width and height exchanged.
Across(p) == Plane(p.start, p.h, p.w)

\* The sizes of the planes, with n for the 32nd part of the picture.
LEMMA PlaneSizes ==
  ASSUME NEW w, NEW h, Size(w, h)
  PROVE  \E n \in Nat : /\ w * h = 32 * n /\ h * w = 32 * n
                        /\ w \div 2 \in Nat /\ h \div 2 \in Nat
                        /\ (w \div 2) * (h \div 2) = 8 * n
                        /\ (h \div 2) * (w \div 2) = 8 * n
<1>1. PICK a \in Nat : w = 2 * a
  <2>1. w \div 2 \in Nat /\ w = 2 * (w \div 2)
    BY DEF Size
  <2> QED BY <2>1
<1>2. PICK b \in Nat : h = 2 * b
  <2>1. h \div 2 \in Nat /\ h = 2 * (h \div 2)
    BY DEF Size
  <2> QED BY <2>1
<1>3. w \div 2 = a /\ h \div 2 = b
  BY <1>1, <1>2
<1>4. a * b \in Nat /\ b * a = a * b
  OBVIOUS
<1>5. w * h = 4 * (a * b) /\ h * w = 4 * (a * b)
  BY <1>1, <1>2
<1>6. PICK n \in Nat : a * b = 8 * n
  <2>1. PICK c \in Nat : c = a * b
    BY <1>4
  <2>2. (4 * c) % 32 = 0
    BY <1>5, <2>1 DEF Size
  <2>3. c \div 8 \in Nat /\ c = 8 * (c \div 8)
    BY ONLY <2>2, c \in Nat
  <2> QED BY <2>1, <2>3
<1> QED BY <1>3, <1>4, <1>5, <1>6

\* The planes lie in the block one after the other, each a multiple of two quads.
LEMMA PlanesLie ==
  ASSUME NEW w, NEW h, Size(w, h), NEW palette \in Turning,
         NEW p \in Planes(palette, w, h)
  PROVE  /\ p = Plane(p.start, p.w, p.h)
         /\ p.start \in Nat /\ p.w \in Nat /\ p.h \in Nat /\ p.w * p.h \in Nat
         /\ (p.w * p.h) % 8 = 0
         /\ p.start + p.w * p.h <= BlockSize(palette, w * h)
<1>1. PICK n \in Nat : /\ w * h = 32 * n /\ h * w = 32 * n
                      /\ w \div 2 \in Nat /\ h \div 2 \in Nat
                      /\ (w \div 2) * (h \div 2) = 8 * n
                      /\ (h \div 2) * (w \div 2) = 8 * n
  BY PlaneSizes
<1>2. YUV420P # GREY
  BY DEF YUV420P, GREY
<1>3. CASE p = Plane(0, w, h)
  <2>1. p.start = 0 /\ p.w = w /\ p.h = h
    BY <1>3 DEF Plane
  <2>2. w \in Nat /\ h \in Nat
    BY DEF Size
  <2>3. 32 * n <= BlockSize(palette, 32 * n) /\ (32 * n) % 8 = 0
    BY DEF BlockSize
  <2> QED BY <2>1, <2>2, <2>3, <1>1, <1>3
<1>4. CASE palette = YUV420P /\ p = Plane(w * h, w \div 2, h \div 2)
  <2>1. p.start = 32 * n /\ p.w = w \div 2 /\ p.h = h \div 2
    BY <1>1, <1>4 DEF Plane
  <2>2. 32 * n + 8 * n <= BlockSize(palette, 32 * n) /\ (8 * n) % 8 = 0
    BY <1>4 DEF BlockSize
  <2>3. p = Plane(p.start, p.w, p.h)
    BY <1>4, <1>1, <2>1
  <2>4. p.w * p.h = 8 * n
    BY <2>1, <1>1
  <2> QED BY <2>1, <2>2, <2>3, <2>4, <1>1
<1>5. CASE palette = YUV420P /\ p = Plane(w * h + (w * h) \div 4, w \div 2, h \div 2)
  <2>1. w * h + (w * h) \div 4 = 40 * n
    BY <1>1
  <2>2. p.start = 40 * n /\ p.w = w \div 2 /\ p.h = h \div 2
    BY <2>1, <1>5 DEF Plane
  <2>3. 40 * n + 8 * n <= BlockSize(palette, 32 * n) /\ (8 * n) % 8 = 0
    BY <1>5 DEF BlockSize
  <2>4. p = Plane(p.start, p.w, p.h)
    BY <1>5, <2>1, <2>2
  <2>5. p.w * p.h = 8 * n
    BY <2>2, <1>1
  <2> QED BY <2>2, <2>3, <2>4, <2>5, <1>1
<1> QED BY <1>2, <1>3, <1>4, <1>5 DEF Planes, Turning

LEMMA PlanesApart ==
  ASSUME NEW w, NEW h, Size(w, h), NEW palette \in Turning,
         NEW p \in Planes(palette, w, h), NEW q \in Planes(palette, w, h),
         NEW i \in Int, Holds(p, i), Holds(q, i)
  PROVE  p = q
<1>1. PICK n \in Nat : /\ w * h = 32 * n /\ h * w = 32 * n
                      /\ w \div 2 \in Nat /\ h \div 2 \in Nat
                      /\ (w \div 2) * (h \div 2) = 8 * n
                      /\ (h \div 2) * (w \div 2) = 8 * n
  BY PlaneSizes
<1> DEFINE P1 == Plane(0, w, h)
           P2 == Plane(w * h, w \div 2, h \div 2)
           P3 == Plane(w * h + (w * h) \div 4, w \div 2, h \div 2)
<1>2. p \in {P1, P2, P3} /\ q \in {P1, P2, P3}
  BY DEF Planes
<1>3. P1.start = 0 /\ P1.w * P1.h = 32 * n
  BY <1>1 DEF Plane
<1>4. P2.start = 32 * n /\ P2.w * P2.h = 8 * n
  BY <1>1 DEF Plane
<1>5. P3.start = 40 * n /\ P3.w * P3.h = 8 * n
  <2>1. w * h + (w * h) \div 4 = 40 * n
    BY <1>1
  <2> QED BY <2>1, <1>1 DEF Plane
<1> HIDE DEF P1, P2, P3
<1>6. /\ Holds(P1, i) => i < 32 * n
      /\ Holds(P2, i) => i >= 32 * n /\ i < 40 * n
      /\ Holds(P3, i) => i >= 40 * n
  BY <1>3, <1>4, <1>5 DEF Holds
<1>7. 32 * n \in Nat /\ 40 * n \in Nat /\ 32 * n <= 40 * n
  OBVIOUS
<1> QED BY <1>2, <1>6, <1>7

\* A picture turned sideways has the same planes, lying across.
LEMMA PlanesAcross ==
  ASSUME NEW w, NEW h, Size(w, h), NEW palette \in Turning,
         NEW p \in Planes(palette, h, w)
  PROVE  Across(p) \in Planes(palette, w, h)
<1>1. h * w = w * h
  BY DEF Size
<1>2. CASE p = Plane(0, h, w)
  BY <1>2 DEF Planes, Across, Plane
<1>3. CASE palette = YUV420P /\ p = Plane(h * w, h \div 2, w \div 2)
  BY <1>1, <1>3 DEF Planes, Across, Plane
<1>4. CASE palette = YUV420P /\ p = Plane(h * w + (h * w) \div 4, h \div 2, w \div 2)
  BY <1>1, <1>4 DEF Planes, Across, Plane
<1> QED BY <1>2, <1>3, <1>4 DEF Planes

-----------------------------------------------------------------------------
(* Rotation: one pixel *)

Identity(palette, w, h) == [i \in 0..(BlockSize(palette, w * h) - 1) |-> i]
\* A plane: where it starts, and its width and height.
PlaneType(p) == /\ p = Plane(p.start, p.w, p.h)
                /\ p.start \in Nat /\ p.w \in Nat /\ p.h \in Nat /\ p.w * p.h \in Nat
                /\ (p.w * p.h) % 8 = 0
\* The block has its own place in each byte of the plane.
Untouched(block, p) == \A k \in 0..(p.w * p.h - 1) : block[p.start + k] = p.start + k

\* rot90cw writes column y of the plane, from the bottom up, as row y.
LEMMA TurnedRight ==
  ASSUME NEW p, NEW block, PlaneType(p), Untouched(block, p),
         NEW x \in 0..(p.h - 1), NEW y \in 0..(p.w - 1)
  PROVE  /\ y * p.h + x \in 0..(p.w * p.h - 1)
         /\ rot90cw(block, p)[y * p.h + x] = p.start + (p.h - 1 - x) * p.w + y
<1> DEFINE k == y * p.h + x
           b == p.h - 1 - x
<1>1. p.w \in Nat /\ p.h \in Nat /\ p.start \in Nat /\ x \in Nat /\ y \in Nat
  BY DEF PlaneType
<1>2. k \in 0..(p.h * p.w - 1)
  BY <1>1, InRows
<1>3. p.h * p.w = p.w * p.h
  BY <1>1
<1>4. k % p.h = x /\ k \div p.h = y
  BY <1>1, RowAndColumn
<1>5. b \in 0..(p.h - 1)
  BY <1>1
<1>6. b * p.w + y \in 0..(p.w * p.h - 1)
  BY <1>1, <1>5, InRows
<1>7. block[p.start + (b * p.w + y)] = p.start + (b * p.w + y)
  BY <1>6 DEF Untouched
<1>8. b * p.w \in Int
  BY <1>1, <1>5
<1>9. p.start + (b * p.w + y) = p.start + b * p.w + y
  BY <1>1, <1>8
<1>10. k \in 0..(p.w * p.h - 1)
  BY <1>2, <1>3
<1>11. rot90cw(block, p)[k] = block[p.start + (p.h - 1 - (k % p.h)) * p.w + (k \div p.h)]
  <2> HIDE DEF k
  <2> QED BY <1>10 DEF rot90cw
<1>12. rot90cw(block, p)[k] = block[p.start + b * p.w + y]
  <2> HIDE DEF k
  <2> QED BY <1>11, <1>4
<1> QED BY <1>7, <1>9, <1>10, <1>12

\* rot90ccw writes the same columns from the last to the first, from the top down.
LEMMA TurnedLeft ==
  ASSUME NEW p, NEW block, PlaneType(p), Untouched(block, p),
         NEW x \in 0..(p.h - 1), NEW y \in 0..(p.w - 1)
  PROVE  rot90ccw(block, p)[y * p.h + x] = p.start + x * p.w + (p.w - 1 - y)
<1> DEFINE k == y * p.h + x
           a == p.h - 1 - x
           b == p.w - 1 - y
<1>1. p.w \in Nat /\ p.h \in Nat /\ x \in Nat /\ y \in Nat
  BY DEF PlaneType
<1>2. a \in 0..(p.h - 1) /\ b \in 0..(p.w - 1)
  BY <1>1
<1>3. k \in 0..(p.w * p.h - 1)
  BY TurnedRight
<1>4. p.w * p.h - 1 - k = b * p.h + a
  <2>1. b * p.h = p.w * p.h - p.h - y * p.h
    BY <1>1
  <2>2. y * p.h \in Int /\ p.w * p.h \in Int
    BY <1>1
  <2> QED BY <2>1, <2>2, <1>1
<1>5. rot90cw(block, p)[b * p.h + a] = p.start + (p.h - 1 - a) * p.w + b
  BY <1>2, TurnedRight
<1>6. p.h - 1 - a = x
  BY <1>1
<1>7. rot90ccw(block, p)[k] = rot90cw(block, p)[p.w * p.h - 1 - k]
  <2> HIDE DEF k
  <2> QED BY <1>3 DEF rot90ccw
<1> QED BY <1>4, <1>5, <1>6, <1>7

\* With an even number of quads the exchange of quads, each turned over, reverses the
\* plane: no quad stays in the middle.
LEMMA Reversed ==
  ASSUME NEW p, NEW block, PlaneType(p), Untouched(block, p),
         NEW x \in 0..(p.w - 1), NEW y \in 0..(p.h - 1)
  PROVE  /\ y * p.w + x \in 0..(p.w * p.h - 1)
         /\ reverse_inplace_quad(block, p)[y * p.w + x] = p.start + (p.h - 1 - y) * p.w + (p.w - 1 - x)
<1> DEFINE k == y * p.w + x
           n == p.w * p.h
           quads == n \div 4
<1>1. p.w \in Nat /\ p.h \in Nat /\ p.start \in Nat /\ x \in Nat /\ y \in Nat /\ n \in Nat /\ n % 8 = 0
  BY DEF PlaneType
<1>2. k \in 0..(n - 1)
  BY <1>1, InRows
<1>3. (p.h - 1 - y) * p.w + (p.w - 1 - x) = n - 1 - k
  <2>1. (p.h - 1 - y) * p.w = p.w * p.h - p.w - y * p.w
    BY <1>1
  <2>2. y * p.w \in Int /\ p.w * p.h \in Int
    BY <1>1
  <2> QED BY <2>1, <2>2, <1>1
<1> HIDE DEF k, n
<1>4. 2 * (k \div 4) # quads - 1
  BY <1>1, <1>2
<1>5. SwappedByte(quads, k) = n - 1 - k
  BY <1>1, <1>2 DEF SwappedByte
<1>6. n - 1 - k \in 0..(n - 1)
  BY <1>1, <1>2
<1>7. reverse_inplace_quad(block, p)[k] =
        block[p.start + (IF 2 * (k \div 4) = quads - 1 THEN k ELSE SwappedByte(quads, k))]
  BY <1>2 DEF reverse_inplace_quad, n
<1>8. reverse_inplace_quad(block, p)[k] = block[p.start + (n - 1 - k)]
  BY <1>4, <1>5, <1>7
<1>9. block[p.start + (n - 1 - k)] = p.start + (n - 1 - k)
  BY <1>6 DEF Untouched, n
<1>10. (p.h - 1 - y) * p.w \in Int
  BY <1>1
<1>11. p.start + (p.h - 1 - y) * p.w + (p.w - 1 - x) = p.start + (n - 1 - k)
  BY <1>1, <1>3, <1>10
<1> QED BY <1>2, <1>8, <1>9, <1>11 DEF k, n

-----------------------------------------------------------------------------
(* Rotation: the picture *)

RotateType ==
  [state : {"loaded", "ready"}, degrees : Int, palette : Palettes,
   width : Nat, height : Nat, cap_width : Nat, cap_height : Nat]

\* The picture is as captured until it is turned, and rotate_init leaves one of the
\* turns and the width and height that belong to it.
RotateInv ==
  /\ rotate \in RotateType /\ rotated \in BOOLEAN
  /\ Size(rotate.cap_width, rotate.cap_height)
  /\ ~rotated => map = Identity(rotate.palette, rotate.cap_width, rotate.cap_height)
  /\ rotated => rotate.state = "ready"
  /\ (rotate.state = "ready" /\ rotate.palette \in Turning) =>
       /\ rotate.degrees < 0 \/ rotate.degrees \in {0, 90, 180, 270}
       /\ rotate.width = (IF Sideways(rotate.degrees) THEN rotate.cap_height ELSE rotate.cap_width)
       /\ rotate.height = (IF Sideways(rotate.degrees) THEN rotate.cap_width ELSE rotate.cap_height)

\* What is no multiple of 90 becomes 0; the others stay within one turn.
LEMMA DegreesAreTurns ==
  ASSUME NEW deg \in Int
  PROVE  Degrees(deg) \in Int /\ (Degrees(deg) < 0 \/ Degrees(deg) \in {0, 90, 180, 270})
<1>1. CASE deg >= 0
  BY <1>1 DEF Degrees, Remainder
<1>2. CASE deg < 0
  <2>1. -deg \in Nat /\ (-deg) % 90 >= 0 /\ (-deg) % 360 \in 0..359
    BY <1>2
  <2>2. Degrees(deg) = -((-deg) % 360)
    BY <1>2, <2>1 DEF Degrees, Remainder
  <2> QED BY <2>1, <2>2
<1> QED BY <1>1, <1>2

LEMMA RotateStarts ==
  ASSUME RotateInit PROVE RotateInv /\ Turned
<1>1. PICK size \in CaptureSizes, deg \in RotateDegs, palette \in Palettes :
        /\ rotate = [state |-> "loaded", degrees |-> deg, palette |-> palette,
                     width |-> size[1], height |-> size[2], cap_width |-> size[1], cap_height |-> size[2]]
        /\ map = [i \in 0..(BlockSize(palette, size[1] * size[2]) - 1) |-> i]
  BY DEF RotateInit
<1>2. ~rotated
  BY DEF RotateInit
<1>3. size \in Nat \X Nat /\ deg \in Int /\ Size(size[1], size[2])
  BY RotationAssumption DEF Size
<1>4. size[1] \in Nat /\ size[2] \in Nat
  BY <1>3
<1>5. rotate \in RotateType
  BY <1>1, <1>3, <1>4 DEF RotateType
<1>6. Size(rotate.cap_width, rotate.cap_height)
  BY <1>1, <1>3, <1>4 DEF Size
<1>7. map = Identity(rotate.palette, rotate.cap_width, rotate.cap_height)
  BY <1>1 DEF Identity
<1>8. rotate.state # "ready"
  BY <1>1
<1> QED BY <1>2, <1>5, <1>6, <1>7, <1>8 DEF RotateInv, Turned, RotateInit

LEMMA ChoosesTurn ==
  ASSUME RotateInv, rotate_init PROVE RotateInv' /\ Turned'
<1> DEFINE deg == Degrees(rotate.degrees)
<1>1. /\ rotate' = [rotate EXCEPT !.state = "ready",
                      !.degrees = IF rotate.palette \in {YUV420P, GREY} THEN deg ELSE 0,
                      !.width = IF Sideways(deg) THEN rotate.cap_height ELSE rotate.cap_width,
                      !.height = IF Sideways(deg) THEN rotate.cap_width ELSE rotate.cap_height]
      /\ rotate.state = "loaded" /\ map' = map /\ rotated' = rotated
  BY DEF rotate_init
<1>2. rotate \in RotateType
  BY DEF RotateInv
<1>3. deg \in Int /\ (deg < 0 \/ deg \in {0, 90, 180, 270})
  BY <1>2, DegreesAreTurns DEF RotateType
<1> HIDE DEF deg
<1>4. /\ rotate'.state = "ready" /\ rotate'.palette = rotate.palette
      /\ rotate'.cap_width = rotate.cap_width /\ rotate'.cap_height = rotate.cap_height
      /\ rotate'.degrees = (IF rotate.palette \in {YUV420P, GREY} THEN deg ELSE 0)
      /\ rotate'.width = (IF Sideways(deg) THEN rotate.cap_height ELSE rotate.cap_width)
      /\ rotate'.height = (IF Sideways(deg) THEN rotate.cap_width ELSE rotate.cap_height)
  BY <1>1, <1>2 DEF RotateType
<1>5. rotate' \in RotateType
  <2>1. ASSUME NEW d \in Int, NEW a \in Nat, NEW b \in Nat
        PROVE  [rotate EXCEPT !.state = "ready", !.degrees = d, !.width = a, !.height = b] \in RotateType
    BY <1>2 DEF RotateType
  <2>2. rotate.cap_width \in Nat /\ rotate.cap_height \in Nat
    BY <1>2 DEF RotateType
  <2>3. /\ (IF rotate.palette \in {YUV420P, GREY} THEN deg ELSE 0) \in Int
        /\ (IF Sideways(deg) THEN rotate.cap_height ELSE rotate.cap_width) \in Nat
        /\ (IF Sideways(deg) THEN rotate.cap_width ELSE rotate.cap_height) \in Nat
    BY <1>3, <2>2
  <2> QED BY <1>1, <2>1, <2>3
<1>6. ~rotated /\ ~rotated'
  BY <1>1 DEF RotateInv
<1>7. map' = Identity(rotate'.palette, rotate'.cap_width, rotate'.cap_height)
  BY <1>1, <1>4, <1>6 DEF RotateInv
<1>8. Size(rotate'.cap_width, rotate'.cap_height)
  BY <1>4 DEF RotateInv
<1>9. rotate'.palette \in Turning =>
        /\ rotate'.degrees < 0 \/ rotate'.degrees \in {0, 90, 180, 270}
        /\ rotate'.width = (IF Sideways(rotate'.degrees) THEN rotate'.cap_height ELSE rotate'.cap_width)
        /\ rotate'.height = (IF Sideways(rotate'.degrees) THEN rotate'.cap_width ELSE rotate'.cap_height)
  BY <1>3, <1>4 DEF Turning
<1>10. RotateInv'
  BY <1>1, <1>5, <1>6, <1>7, <1>8, <1>9 DEF RotateInv
<1>11. Turned'
  BY <1>6 DEF Turned
<1> QED BY <1>10, <1>11

\* Each byte of a plane of the turned picture is the one its plane's turn gives.
LEMMA TurnsPlanes ==
  ASSUME RotateInv, rotate_map, rotate.degrees \in {90, 180, 270}, rotate.palette \in Turning,
         NEW p \in Planes(rotate.palette, rotate.cap_width, rotate.cap_height),
         NEW k \in 0..(p.w * p.h - 1)
  PROVE  PlaneType(p) /\ Untouched(map, p) /\ map'[p.start + k] = Turn(map, p)[k]
<1> DEFINE planes == Planes(rotate.palette, rotate.cap_width, rotate.cap_height)
           size == BlockSize(rotate.palette, rotate.cap_width * rotate.cap_height)
           plane(i) == CHOOSE q \in planes : i \in q.start..(q.start + q.w * q.h - 1)
           turned == [q \in planes |-> Turn(map, q)]
<1>1. Size(rotate.cap_width, rotate.cap_height) /\ rotate \in RotateType
  BY DEF RotateInv
<1>2. PlaneType(p) /\ p.start + p.w * p.h <= size
  BY <1>1, PlanesLie DEF PlaneType
<1>3. map = [i \in 0..(size - 1) |-> i]
  BY DEF RotateInv, rotate_map, Identity
<1>4. size \in Int
  <2>1. rotate.cap_width * rotate.cap_height \in Nat
    BY <1>1 DEF Size
  <2> QED BY <2>1 DEF BlockSize
<1>5. \A j \in 0..(p.w * p.h - 1) : p.start + j \in 0..(size - 1)
  <2> HIDE DEF size
  <2> QED BY <1>2, <1>4 DEF PlaneType
<1>6. Untouched(map, p)
  BY <1>3, <1>5 DEF Untouched
<1>7. \A q \in planes : Holds(q, p.start + k) <=> q = p
  <2>1. Holds(p, p.start + k) /\ p.start + k \in Int
    BY <1>2 DEF Holds, PlaneType
  <2> QED BY <2>1, <1>1, PlanesApart
<1>8. PICK i : i = p.start + k
  OBVIOUS
<1>9. plane(i) = p
  <2>1. (CHOOSE q \in planes : Holds(q, i)) = p
    <3> HIDE DEF planes
    <3> QED BY <1>7, <1>8 DEF planes
  <2> QED BY <2>1 DEF Holds
<1>10. map'[i] = turned[p][i - p.start]
  <2>1. map' = [j \in DOMAIN map |-> turned[plane(j)][j - plane(j).start]]
    BY DEF rotate_map
  <2>2. i \in DOMAIN map
    BY <1>3, <1>5, <1>8
  <2> HIDE DEF planes, plane, turned
  <2>3. map'[i] = turned[plane(i)][i - plane(i).start]
    BY <2>1, <2>2
  <2> QED BY <2>3, <1>9
<1>11. i - p.start = k
  BY <1>2, <1>8 DEF PlaneType
<1>12. turned[p] = Turn(map, p)
  OBVIOUS
<1> HIDE DEF planes, size, turned
<1> QED BY <1>2, <1>6, <1>8, <1>10, <1>11, <1>12

\* A picture that is not turned still has each byte in its place.
LEMMA StaysTurned ==
  ASSUME RotateInv, rotate_map, rotate.degrees = 0, rotate.palette \in Turning
  PROVE  Turned'
<1>1. rotate' = rotate /\ map' = map
  BY DEF rotate_map
<1>2. SUFFICES ASSUME NEW p \in Planes(rotate.palette, rotate.width, rotate.height),
                      NEW x \in 0..(p.w - 1), NEW y \in 0..(p.h - 1)
               PROVE  map[p.start + y * p.w + x] = p.start + y * p.w + x
  <2>1. rotate'.degrees = 0 /\ ~Sideways(0)
    BY <1>1 DEF Sideways
  <2>2. \A p : \A x, y : Source(0, p, x, y)[1] = x /\ Source(0, p, x, y)[2] = y
    BY DEF Source
  <2> QED BY <1>1, <2>1, <2>2 DEF Turned
<1>3. rotate.width = rotate.cap_width /\ rotate.height = rotate.cap_height
  BY DEF RotateInv, rotate_map, Sideways
<1>4. Size(rotate.cap_width, rotate.cap_height)
  BY DEF RotateInv
<1>5. PlaneType(p) /\ p.start + p.w * p.h <= BlockSize(rotate.palette, rotate.cap_width * rotate.cap_height)
  BY <1>3, <1>4, PlanesLie DEF PlaneType
<1>6. y * p.w + x \in 0..(p.w * p.h - 1)
  BY <1>5, InRows DEF PlaneType
<1>7. rotate.cap_width * rotate.cap_height \in Nat
  BY <1>4 DEF Size
<1>8. y * p.w \in Int /\ x \in Int
  BY <1>5 DEF PlaneType
<1>9. p.start + y * p.w + x \in 0..(BlockSize(rotate.palette, rotate.cap_width * rotate.cap_height) - 1)
  <2>1. BlockSize(rotate.palette, rotate.cap_width * rotate.cap_height) \in Int
    BY <1>7 DEF BlockSize
  <2> QED BY <2>1, <1>5, <1>6, <1>8 DEF PlaneType
<1> QED BY <1>9 DEF RotateInv, rotate_map, Identity

\* rotate_map moves each byte of each plane where the turn brings its pixel.
LEMMA Turns ==
  ASSUME RotateInv, rotate_map, rotate.degrees \in {90, 180, 270}, rotate.palette \in Turning
  PROVE  Turned'
<1> DEFINE deg == rotate.degrees
           width(p) == IF Sideways(deg) THEN p.h ELSE p.w
<1>1. rotate' = rotate /\ rotate.state = "ready"
  BY DEF rotate_map
<1>2. SUFFICES ASSUME NEW p \in Planes(rotate.palette, rotate.width, rotate.height),
                      NEW x \in 0..(p.w - 1), NEW y \in 0..(p.h - 1)
               PROVE  map'[p.start + y * p.w + x] =
                        p.start + Source(deg, p, x, y)[2] * width(p) + Source(deg, p, x, y)[1]
  BY <1>1 DEF Turned
<1>3. Size(rotate.cap_width, rotate.cap_height) /\ Size(rotate.cap_height, rotate.cap_width)
  BY DEF RotateInv, Size
<1>4. CASE deg \in {90, 270}
  <2>1. rotate.width = rotate.cap_height /\ rotate.height = rotate.cap_width
    BY <1>1, <1>4 DEF RotateInv, Sideways
  <2>2. PICK q : q = Across(p)
    OBVIOUS
  <2>3. q \in Planes(rotate.palette, rotate.cap_width, rotate.cap_height)
    BY <1>3, <2>1, <2>2, PlanesAcross
  <2>4. q.start = p.start /\ q.w = p.h /\ q.h = p.w /\ width(p) = p.h
    BY <1>4, <2>2 DEF Across, Plane, Sideways
  <2>5. x \in 0..(q.h - 1) /\ y \in 0..(q.w - 1)
    BY <2>4
  <2>6. PlaneType(q) /\ Untouched(map, q)
    <3>1. PlaneType(q)
      BY <1>3, <2>3, PlanesLie DEF PlaneType
    <3>2. q.w * q.h - 1 >= 0
      <4>1. y * q.h + x \in 0..(q.h * q.w - 1)
        BY <2>5, <3>1, InRows DEF PlaneType
      <4> QED BY <4>1, <3>1 DEF PlaneType
    <3>3. 0 \in 0..(q.w * q.h - 1)
      BY <3>1, <3>2 DEF PlaneType
    <3> QED BY <2>3, <3>3, TurnsPlanes
  <2>7. y * q.h + x \in 0..(q.w * q.h - 1)
    BY <2>5, <2>6, TurnedRight
  <2>8. map'[q.start + (y * q.h + x)] = Turn(map, q)[y * q.h + x]
    BY <2>3, <2>7, TurnsPlanes
  <2>9. q.start + (y * q.h + x) = p.start + y * p.w + x
    BY <2>4, <2>5, <2>6 DEF PlaneType
  <2>10. CASE deg = 90
    <3>1. Turn(map, q)[y * q.h + x] = q.start + (q.h - 1 - x) * q.w + y
      <4>1. Turn(map, q) = rot90cw(map, q)
        BY <2>10 DEF Turn
      <4> QED BY <4>1, <2>5, <2>6, TurnedRight
    <3>2. Source(deg, p, x, y) = <<y, p.w - 1 - x>>
      BY <2>10 DEF Source
    <3> QED BY <2>4, <2>8, <2>9, <3>1, <3>2
  <2>11. CASE deg = 270
    <3>1. Turn(map, q)[y * q.h + x] = q.start + x * q.w + (q.w - 1 - y)
      <4>1. Turn(map, q) = rot90ccw(map, q)
        BY <2>11 DEF Turn
      <4> QED BY <4>1, <2>5, <2>6, TurnedLeft
    <3>2. Source(deg, p, x, y) = <<p.h - 1 - y, x>>
      BY <2>11 DEF Source
    <3> QED BY <2>4, <2>8, <2>9, <3>1, <3>2
  <2> QED BY <1>4, <2>10, <2>11
<1>5. CASE deg = 180
  <2>1. rotate.width = rotate.cap_width /\ rotate.height = rotate.cap_height /\ width(p) = p.w
    BY <1>1, <1>5 DEF RotateInv, Sideways
  <2>2. PlaneType(p)
    BY <1>3, <2>1, PlanesLie DEF PlaneType
  <2>3. y * p.w + x \in 0..(p.w * p.h - 1)
    BY <2>2, InRows DEF PlaneType
  <2>4. Untouched(map, p) /\ map'[p.start + (y * p.w + x)] = Turn(map, p)[y * p.w + x]
    BY <2>1, <2>3, TurnsPlanes
  <2>5. Turn(map, p) = reverse_inplace_quad(map, p)
    BY <1>5 DEF Turn
  <2>6. Turn(map, p)[y * p.w + x] = p.start + (p.h - 1 - y) * p.w + (p.w - 1 - x)
    BY <2>2, <2>4, <2>5, Reversed
  <2>7. p.start + (y * p.w + x) = p.start + y * p.w + x
    BY <2>2 DEF PlaneType
  <2>8. Source(deg, p, x, y) = <<p.w - 1 - x, p.h - 1 - y>>
    BY <1>5 DEF Source
  <2> QED BY <2>1, <2>4, <2>6, <2>7, <2>8
<1> QED BY <1>4, <1>5

\* The picture that motion goes on with is the camera's picture turned by the configured
\* degrees, pixel by pixel, for every size and palette that motion accepts (rotate_init
\* and rotate_map).
THEOREM PicturesAreTurned == RotationSpec => []Turned
<1>1. RotateInit => RotateInv /\ Turned
  BY RotateStarts
<1>2. RotateInv /\ Turned /\ [RotateNext]_rotateVars => RotateInv' /\ Turned'
  <2> SUFFICES ASSUME RotateInv, Turned, [RotateNext]_rotateVars PROVE RotateInv' /\ Turned'
    OBVIOUS
  <2>1. CASE rotate_init
    BY <2>1, ChoosesTurn
  <2>2. CASE rotate_map
    <3>1. RotateInv'
      BY <2>2 DEF RotateInv, rotate_map
    <3>2. CASE rotate.degrees < 0 \/ rotate.palette = "other"
      BY <2>2, <3>2 DEF Turned, rotate_map, RotateInv, RotateType
    <3>3. CASE rotate.degrees = 0 /\ rotate.palette \in Turning
      BY <2>2, <3>1, <3>3, StaysTurned
    <3>4. CASE rotate.degrees \in {90, 180, 270} /\ rotate.palette \in Turning
      BY <2>2, <3>1, <3>4, Turns
    <3>5. rotate.palette \in Palettes /\ rotate.degrees \in Int /\ rotate.state = "ready"
      BY <2>2 DEF RotateInv, RotateType, rotate_map
    <3> QED BY <3>1, <3>2, <3>3, <3>4, <3>5 DEF Palettes, RotateInv, Turning
  <2>3. CASE UNCHANGED rotateVars
    BY <2>3 DEF rotateVars, RotateInv, Turned
  <2> QED BY <2>1, <2>2, <2>3 DEF RotateNext
<1> QED BY <1>1, <1>2, PTL DEF RotationSpec

-----------------------------------------------------------------------------
(* Despeckle: the greatest value of a set *)

Greatest(m, S) == m \in S /\ \A z \in S : z <= m

LEMMA MaxIs ==
  ASSUME NEW S, S \subseteq Nat, NEW m, Greatest(m, S)
  PROVE  Max(S) = m
<1>1. m \in S /\ \A z \in S : m >= z
  BY DEF Greatest
<1>2. Max(S) \in S /\ \A z \in S : Max(S) >= z
  BY <1>1, Zenon DEF Max
<1>3. m \in Nat /\ Max(S) \in Nat /\ m >= Max(S) /\ Max(S) >= m
  BY <1>1, <1>2
<1> HIDE DEF Max
<1> QED BY <1>3

LEMMA MaxOfTwo ==
  ASSUME NEW a \in Nat, NEW b \in Nat
  PROVE  Max({a, b}) \in Nat /\ Greatest(Max({a, b}), {a, b})
<1>1. PICK m \in {a, b} : Greatest(m, {a, b})
  BY DEF Greatest
<1> QED BY <1>1, MaxIs

LEMMA MaxOfThree ==
  ASSUME NEW a \in Nat, NEW b \in Nat, NEW c \in Nat
  PROVE  Max({a, b, c}) \in Nat /\ Greatest(Max({a, b, c}), {a, b, c})
<1>1. PICK m \in {a, b, c} : Greatest(m, {a, b, c})
  BY DEF Greatest
<1> QED BY <1>1, MaxIs

-----------------------------------------------------------------------------
(* Despeckle: the pixels around a pixel *)

IsPicture(p) == p \in [w : Nat, h : Nat, px : [Cells(p) -> Nat]]
Pixel(p, y, x) == Row(p, y, x, 0)
InColumn(p, y, x) == {Pixel(p, y - 1, x), Pixel(p, y, x), Pixel(p, y + 1, x)}
InPlus(p, y, x) == {Pixel(p, y - 1, x), Pixel(p, y, x - 1), Pixel(p, y, x), Pixel(p, y, x + 1), Pixel(p, y + 1, x)}

LEMMA PixelType ==
  ASSUME NEW p, IsPicture(p), NEW y \in Int, NEW x \in 0..(p.w - 1)
  PROVE  Pixel(p, y, x) \in Nat
<1>1. p.w \in Nat /\ p.h \in Nat /\ p.px \in [Cells(p) -> Nat]
  BY DEF IsPicture
<1>2. CASE y \in 0..(p.h - 1)
  <2>1. y * p.w + x \in Cells(p)
    BY <1>1, <1>2, InRows DEF Cells
  <2> QED BY <1>1, <1>2, <2>1 DEF Pixel, Row
<1>3. CASE y \notin 0..(p.h - 1)
  BY <1>3 DEF Pixel, Row
<1> QED BY <1>2, <1>3

LEMMA ColumnIs ==
  ASSUME NEW p, IsPicture(p), NEW y \in Int, NEW x \in 0..(p.w - 1)
  PROVE  Column(p, y, x) \in Nat /\ Greatest(Column(p, y, x), InColumn(p, y, x))
<1>1. {Row(p, y + d, x, 0) : d \in -1..1} = InColumn(p, y, x)
  <2>1. -1..1 = {-1, 0, 1}
    OBVIOUS
  <2>2. y + -1 = y - 1 /\ y + 0 = y
    OBVIOUS
  <2>3. {Row(p, y + d, x, 0) : d \in {-1, 0, 1}} = {Row(p, y + -1, x, 0), Row(p, y + 0, x, 0), Row(p, y + 1, x, 0)}
    BY Zenon
  <2>4. {Row(p, y + d, x, 0) : d \in {-1, 0, 1}} = {Row(p, y - 1, x, 0), Row(p, y, x, 0), Row(p, y + 1, x, 0)}
    BY <2>2, <2>3
  <2> QED BY ONLY <2>1, <2>4, Zenon DEF InColumn, Pixel
<1>2. Pixel(p, y - 1, x) \in Nat /\ Pixel(p, y, x) \in Nat /\ Pixel(p, y + 1, x) \in Nat
  BY PixelType
<1> QED BY <1>1, <1>2, MaxOfThree DEF Column, InColumn

\* The least and the greatest value of the shapes around a pixel that is not at the
\* edge: the 3x3 box consists of three columns.
LEMMA AroundBox ==
  ASSUME NEW p, IsPicture(p), NEW c \in Cells(p), ~Edge(p, c)
  PROVE  Around(p, c, Box, 0) = InColumn(p, Y(p, c), X(p, c) - 1) \cup InColumn(p, Y(p, c), X(p, c))
                                  \cup InColumn(p, Y(p, c), X(p, c) + 1)
<1>1. Around(p, c, Box, 0) = {Pixel(p, Y(p, c) + d[2], X(p, c) + d[1]) : d \in Box}
  BY DEF Around, Pixel
<1>2. PICK x, y : x = X(p, c) /\ y = Y(p, c)
  OBVIOUS
<1>3. x \in Int /\ y \in Int
  BY <1>2 DEF IsPicture, Cells, X, Y
<1>4. Box = {<<-1, -1>>, <<-1, 0>>, <<-1, 1>>, <<0, -1>>, <<0, 0>>, <<0, 1>>, <<1, -1>>, <<1, 0>>, <<1, 1>>}
  <2>1. -1..1 = {-1, 0, 1}
    OBVIOUS
  <2> QED BY <2>1 DEF Box
<1>5. /\ x + -1 = x - 1 /\ x + 0 = x /\ y + -1 = y - 1 /\ y + 0 = y
  BY <1>3
<1>6. {Pixel(p, y + d[2], x + d[1]) : d \in Box} =
        {Pixel(p, y + -1, x + -1), Pixel(p, y + 0, x + -1), Pixel(p, y + 1, x + -1),
         Pixel(p, y + -1, x + 0), Pixel(p, y + 0, x + 0), Pixel(p, y + 1, x + 0),
         Pixel(p, y + -1, x + 1), Pixel(p, y + 0, x + 1), Pixel(p, y + 1, x + 1)}
  BY ONLY <1>4
<1>7. {Pixel(p, y + d[2], x + d[1]) : d \in Box} =
        {Pixel(p, y - 1, x - 1), Pixel(p, y, x - 1), Pixel(p, y + 1, x - 1),
         Pixel(p, y - 1, x), Pixel(p, y, x), Pixel(p, y + 1, x),
         Pixel(p, y - 1, x + 1), Pixel(p, y, x + 1), Pixel(p, y + 1, x + 1)}
  BY ONLY <1>5, <1>6
<1>8. {Pixel(p, y + d[2], x + d[1]) : d \in Box} = InColumn(p, y, x - 1) \cup InColumn(p, y, x) \cup InColumn(p, y, x + 1)
  BY ONLY <1>7 DEF InColumn
<1> QED BY <1>1, <1>2, <1>8

LEMMA AroundPlus ==
  ASSUME NEW p, IsPicture(p), NEW c \in Cells(p), ~Edge(p, c)
  PROVE  Around(p, c, Plus, 0) = InPlus(p, Y(p, c), X(p, c))
<1>1. Around(p, c, Plus, 0) = {Pixel(p, Y(p, c) + d[2], X(p, c) + d[1]) : d \in Plus}
  BY DEF Around, Pixel
<1>2. PICK x, y : x = X(p, c) /\ y = Y(p, c)
  OBVIOUS
<1>3. x \in Int /\ y \in Int
  BY <1>2 DEF IsPicture, Cells, X, Y
<1>4. Plus = {<<-1, 0>>, <<0, -1>>, <<0, 0>>, <<0, 1>>, <<1, 0>>}
  <2>1. -1..1 = {-1, 0, 1}
    OBVIOUS
  <2> QED BY <2>1 DEF Plus, Box
<1>5. /\ x + -1 = x - 1 /\ x + 0 = x /\ y + -1 = y - 1 /\ y + 0 = y
  BY <1>3
<1>6. {Pixel(p, y + d[2], x + d[1]) : d \in Plus} =
        {Pixel(p, y + 0, x + -1), Pixel(p, y + -1, x + 0), Pixel(p, y + 0, x + 0),
         Pixel(p, y + 1, x + 0), Pixel(p, y + 0, x + 1)}
  BY ONLY <1>4
<1>7. {Pixel(p, y + d[2], x + d[1]) : d \in Plus} =
        {Pixel(p, y, x - 1), Pixel(p, y - 1, x), Pixel(p, y, x), Pixel(p, y + 1, x), Pixel(p, y, x + 1)}
  BY ONLY <1>5, <1>6
<1>8. {Pixel(p, y + d[2], x + d[1]) : d \in Plus} = InPlus(p, y, x)
  BY ONLY <1>7 DEF InPlus
<1> QED BY <1>1, <1>2, <1>8

\* Where a pixel lies that is not at the edge.
LEMMA InsideIs ==
  ASSUME NEW p, IsPicture(p), NEW c \in Cells(p)
  PROVE  /\ p.w \in Nat /\ p.h \in Nat /\ p.w > 0
         /\ Y(p, c) \in 0..(p.h - 1) /\ X(p, c) \in 0..(p.w - 1)
         /\ ~Edge(p, c) => X(p, c) \in 1..(p.w - 2)
         /\ Pixel(p, Y(p, c), X(p, c)) = p.px[c]
<1>1. p.w \in Nat /\ p.h \in Nat /\ c \in 0..(p.w * p.h - 1)
  BY DEF IsPicture, Cells
<1>2. p.w > 0
  <2> SUFFICES ASSUME p.w = 0 PROVE FALSE
    BY <1>1
  <2>1. p.w * p.h = 0
    BY <1>1
  <2> QED BY <1>1, <2>1
<1>3. X(p, c) \in 0..(p.w - 1) /\ Y(p, c) \in Int /\ Y(p, c) >= 0
  BY <1>1, <1>2 DEF X, Y
<1>4. c = p.w * (c \div p.w) + (c % p.w)
  <2>1. c \in Nat
    BY <1>1
  <2> QED BY <2>1, <1>1, <1>2, RowOf, Zenon
<1>5. p.w * (c \div p.w) = (c \div p.w) * p.w
  BY <1>1, <1>3 DEF Y
<1>6. c = Y(p, c) * p.w + X(p, c)
  BY <1>4, <1>5 DEF X, Y
<1>7. Y(p, c) < p.h
  <2> SUFFICES ASSUME Y(p, c) >= p.h PROVE FALSE
    BY <1>1, <1>3
  <2>1. PICK d \in Nat : Y(p, c) = p.h + d
    <3>1. Y(p, c) - p.h \in Nat /\ Y(p, c) = p.h + (Y(p, c) - p.h)
      BY <1>1, <1>3
    <3> QED BY <3>1
  <2>2. Y(p, c) * p.w = p.w * p.h + d * p.w
    BY <1>1, <2>1
  <2>3. d * p.w \in Nat /\ p.w * p.h \in Nat
    BY <1>1
  <2> QED BY <1>1, <1>3, <1>6, <2>2, <2>3
<1>8. Pixel(p, Y(p, c), X(p, c)) = p.px[c]
  <2>1. Y(p, c) \in 0..(p.h - 1)
    BY <1>1, <1>3, <1>7
  <2> QED BY <1>6, <2>1 DEF Pixel, Row
<1> QED BY <1>1, <1>2, <1>3, <1>7, <1>8 DEF Edge

-----------------------------------------------------------------------------
(* Despeckle: the sliding window of dilate9 *)

\* A column of the row, with a column of zeros before the first.
Column0(p, y, x) == IF x = -1 THEN 0 ELSE Column(p, y, x)
Columns(p, y, x) == {Column0(p, y, x - 2), Column0(p, y, x - 1), Column0(p, y, x)}
\* The window has each of the last three columns at its place, and blob the greatest.
Window9(p, y, x) ==
  [window |-> [i \in 1..3 |-> Column0(p, y, x - ((x + 1 - i) % 3))], blob |-> Max(Columns(p, y, x))]

LEMMA ColumnsAre ==
  ASSUME NEW p, IsPicture(p), NEW y \in Int, NEW x \in 1..(p.w - 1)
  PROVE  /\ Column0(p, y, x - 2) \in Nat /\ Column0(p, y, x - 1) \in Nat /\ Column0(p, y, x) \in Nat
         /\ Max(Columns(p, y, x)) \in Nat /\ Greatest(Max(Columns(p, y, x)), Columns(p, y, x))
<1>1. p.w \in Nat
  BY DEF IsPicture
<1>2. \A z \in -1..(p.w - 1) : Column0(p, y, z) \in Nat
  <2> SUFFICES ASSUME NEW z \in -1..(p.w - 1) PROVE Column0(p, y, z) \in Nat
    OBVIOUS
  <2>1. CASE z = -1
    BY <2>1 DEF Column0
  <2>2. CASE z \in 0..(p.w - 1)
    BY <2>2, ColumnIs DEF Column0
  <2> QED BY <1>1, <2>1, <2>2
<1>3. x - 2 \in -1..(p.w - 1) /\ x - 1 \in -1..(p.w - 1) /\ x \in -1..(p.w - 1)
  BY <1>1
<1>4. Column0(p, y, x - 2) \in Nat /\ Column0(p, y, x - 1) \in Nat /\ Column0(p, y, x) \in Nat
  BY <1>2, <1>3
<1> QED BY <1>4, MaxOfThree DEF Columns

LEMMA FirstWindow ==
  ASSUME NEW p, IsPicture(p), NEW y \in Int, p.w - 1 >= 1
  PROVE  First9(p, y) = Window9(p, y, 1)
<1> DEFINE a == Column(p, y, 0)
           b == Column(p, y, 1)
<1>1. p.w \in Nat
  BY DEF IsPicture
<1>2. Column0(p, y, -1) = 0 /\ Column0(p, y, 0) = a /\ Column0(p, y, 1) = b
  BY DEF Column0
<1>3. a \in Nat /\ b \in Nat
  BY <1>1, ColumnIs
<1> HIDE DEF a, b
<1>4. [i \in 1..3 |-> Column0(p, y, 1 - ((1 + 1 - i) % 3))] = <<a, b, 0>>
  <2>1. \A i \in 1..3 : 1 - ((1 + 1 - i) % 3) = IF i = 1 THEN 0 ELSE IF i = 2 THEN 1 ELSE -1
    OBVIOUS
  <2> QED BY <1>2, <2>1
<1>5. Columns(p, y, 1) = {0, a, b}
  <2>1. 1 - 2 = -1 /\ 1 - 1 = 0
    OBVIOUS
  <2> QED BY <1>2, <2>1 DEF Columns
<1>6. Max({0, a, b}) = Max({a, b})
  <2>1. Max({a, b}) \in Nat /\ Greatest(Max({a, b}), {a, b})
    BY <1>3, MaxOfTwo
  <2>2. Greatest(Max({a, b}), {0, a, b})
    BY <2>1 DEF Greatest
  <2>3. {0, a, b} \subseteq Nat
    BY <1>3
  <2> QED BY <2>2, <2>3, MaxIs
<1>7. First9(p, y) = [window |-> <<a, b, 0>>, blob |-> Max({a, b})]
  BY DEF First9, a, b
<1> QED BY <1>4, <1>5, <1>6, <1>7 DEF Window9

LEMMA NextWindow ==
  ASSUME NEW p, IsPicture(p), NEW y \in Int, NEW x \in 2..(p.w - 1)
  PROVE  Next9(p, y, Window9(p, y, x - 1), x) = Window9(p, y, x)
<1> DEFINE C(z) == Column0(p, y, z)
           last == Window9(p, y, x - 1)
           window == [last.window EXCEPT ![(x % 3) + 1] = Column(p, y, x)]
           new == [i \in 1..3 |-> C(x - ((x + 1 - i) % 3))]
<1>1. p.w \in Nat
  BY DEF IsPicture
<1>2. Column(p, y, x) = C(x)
  BY DEF Column0
<1>3. last.window = [i \in 1..3 |-> C(x - 1 - ((x - 1 + 1 - i) % 3))] /\ last.blob = Max(Columns(p, y, x - 1))
  BY DEF Window9
<1>4. window = new
  <2>1. DOMAIN last.window = 1..3
    BY <1>3
  <2>2. \A i \in 1..3 : i = (x % 3) + 1 => x - ((x + 1 - i) % 3) = x
    OBVIOUS
  <2>3. \A i \in 1..3 : i # (x % 3) + 1 => x - 1 - ((x - 1 + 1 - i) % 3) = x - ((x + 1 - i) % 3)
    OBVIOUS
  <2>4. \A i \in 1..3 : last.window[i] = C(x - 1 - ((x - 1 + 1 - i) % 3))
    BY <1>3
  <2> HIDE DEF last, C
  <2>5. \A i \in 1..3 : window[i] = new[i]
    BY <1>2, <2>1, <2>2, <2>3, <2>4
  <2>6. DOMAIN window = 1..3 /\ DOMAIN new = 1..3
    BY <2>1
  <2>7. window = [i \in 1..3 |-> window[i]] /\ new = [i \in 1..3 |-> new[i]]
    BY <2>6
  <2> HIDE DEF window, new
  <2> QED BY <2>5, <2>7
<1>5. Range(new) = Columns(p, y, x)
  <2>1. \A i \in 1..3 : x - ((x + 1 - i) % 3) \in {x - 2, x - 1, x}
    OBVIOUS
  <2>2. \A i \in 1..3 : new[i] \in Columns(p, y, x)
    <3> SUFFICES ASSUME NEW i \in 1..3 PROVE new[i] \in Columns(p, y, x)
      OBVIOUS
    <3>1. new[i] = C(x - ((x + 1 - i) % 3))
      OBVIOUS
    <3>2. x - ((x + 1 - i) % 3) \in {x - 2, x - 1, x}
      BY <2>1
    <3> HIDE DEF new
    <3> QED BY <3>1, <3>2 DEF Columns
  <2>3. \A z \in {x - 2, x - 1, x} : \E i \in 1..3 : x - ((x + 1 - i) % 3) = z
    <3> SUFFICES ASSUME NEW z \in {x - 2, x - 1, x}
                 PROVE  \E i \in 1..3 : x - ((x + 1 - i) % 3) = z
      OBVIOUS
    <3>1. (z % 3) + 1 \in 1..3 /\ x - ((x + 1 - ((z % 3) + 1)) % 3) = z
      OBVIOUS
    <3> QED BY <3>1
  <2>4. \A z \in {x - 2, x - 1, x} : \E i \in 1..3 : new[i] = C(z)
    <3> SUFFICES ASSUME NEW z \in {x - 2, x - 1, x} PROVE \E i \in 1..3 : new[i] = C(z)
      OBVIOUS
    <3>1. PICK i \in 1..3 : x - ((x + 1 - i) % 3) = z
      BY <2>3
    <3>2. new[i] = C(x - ((x + 1 - i) % 3))
      OBVIOUS
    <3> HIDE DEF new
    <3> QED BY <3>1, <3>2
  <2>5. DOMAIN new = 1..3
    OBVIOUS
  <2> HIDE DEF new
  <2> QED BY <2>2, <2>4, <2>5 DEF Range, Columns
<1>6. Blob(C(x), last.blob, new) = Max(Columns(p, y, x))
  <2>1. /\ C(x - 2) \in Nat /\ C(x - 1) \in Nat /\ C(x) \in Nat
        /\ Greatest(Max(Columns(p, y, x)), Columns(p, y, x))
    BY ColumnsAre
  <2>2. Max(Columns(p, y, x - 1)) \in Nat /\ Greatest(Max(Columns(p, y, x - 1)), Columns(p, y, x - 1))
    <3>1. x - 1 \in 1..(p.w - 1)
      BY <1>1
    <3> QED BY <3>1, ColumnsAre
  <2>3. CASE C(x) >= last.blob
    <3>1. C(x - 1) \in Columns(p, y, x - 1) /\ C(x - 2) \in Columns(p, y, x - 1)
      <4>1. x - 1 - 1 = x - 2
        OBVIOUS
      <4> QED BY <4>1 DEF Columns
    <3>2. C(x - 1) <= C(x) /\ C(x - 2) <= C(x)
      <4>1. C(x - 1) <= Max(Columns(p, y, x - 1)) /\ C(x - 2) <= Max(Columns(p, y, x - 1))
        BY <2>2, <3>1 DEF Greatest
      <4>2. C(x) >= Max(Columns(p, y, x - 1))
        BY <1>3, <2>3
      <4> HIDE DEF C
      <4> QED BY <2>1, <2>2, <4>1, <4>2
    <3>3. Greatest(C(x), Columns(p, y, x)) /\ Columns(p, y, x) \subseteq Nat
      BY <2>1, <3>2 DEF Greatest, Columns
    <3>4. Max(Columns(p, y, x)) = C(x)
      BY <3>3, MaxIs
    <3> QED BY <2>3, <3>4 DEF Blob
  <2>4. CASE ~(C(x) >= last.blob)
    BY <1>5, <2>4 DEF Blob
  <2> QED BY <2>3, <2>4
<1>7. Next9(p, y, last, x) = [window |-> window, blob |-> Blob(C(x), last.blob, window)]
  BY <1>2 DEF Next9
<1> HIDE DEF window, new, last
<1> QED BY <1>4, <1>6, <1>7 DEF Window9, last, new

\* dilate9 gives each pixel the greatest value of the three columns around it.
LEMMA Slides ==
  ASSUME NEW p, IsPicture(p), NEW y \in Int, NEW x \in 1..(p.w - 2)
  PROVE  Slide9(p, y)[x] = Max(Columns(p, y, x + 1))
<1> DEFINE s == Windows9(p, y)
           f == [z \in 1..(p.w - 1) |-> Window9(p, y, z)]
<1>1. p.w \in Nat
  BY DEF IsPicture
<1>2. f = [z \in 1..(p.w - 1) |-> IF z = 1 THEN First9(p, y) ELSE Next9(p, y, f[z - 1], z)]
  <2> SUFFICES ASSUME NEW z \in 1..(p.w - 1)
               PROVE  Window9(p, y, z) = IF z = 1 THEN First9(p, y) ELSE Next9(p, y, f[z - 1], z)
    BY Zenon
  <2>1. CASE z = 1
    BY <1>1, <2>1, FirstWindow
  <2>2. CASE z # 1
    <3>1. z \in 2..(p.w - 1) /\ z - 1 \in 1..(p.w - 1)
      BY <1>1, <2>2
    <3>2. f[z - 1] = Window9(p, y, z - 1)
      BY <3>1
    <3> HIDE DEF f
    <3> QED BY <2>2, <3>1, <3>2, NextWindow
  <2> QED BY <2>1, <2>2
<1>3. s = CHOOSE t : t = [z \in 1..(p.w - 1) |-> IF z = 1 THEN First9(p, y) ELSE Next9(p, y, t[z - 1], z)]
  BY DEF Windows9
<1> HIDE DEF s
<1>4. s = [z \in 1..(p.w - 1) |-> IF z = 1 THEN First9(p, y) ELSE Next9(p, y, s[z - 1], z)]
  <2> HIDE DEF f
  <2> QED BY <1>2, <1>3, Zenon
<1>5. \A z \in 1..(p.w - 1) : s[z] = f[z]
  <2>1. 1 <= p.w - 1 => s[1] = f[1]
    <3> SUFFICES ASSUME 1 \in 1..(p.w - 1) PROVE s[1] = f[1]
      BY <1>1
    <3> HIDE DEF f
    <3>1. s[1] = First9(p, y)
      BY <1>4
    <3>2. f[1] = First9(p, y)
      BY <1>2
    <3> QED BY <3>1, <3>2
  <2>2. \A z \in 1..(p.w - 1) : z # 1 /\ s[z - 1] = f[z - 1] => s[z] = f[z]
    <3> SUFFICES ASSUME NEW z \in 1..(p.w - 1), z # 1, s[z - 1] = f[z - 1] PROVE s[z] = f[z]
      OBVIOUS
    <3> HIDE DEF f
    <3>2. s[z] = Next9(p, y, s[z - 1], z)
      BY <1>4
    <3>3. f[z] = Next9(p, y, f[z - 1], z)
      BY <1>2
    <3> QED BY <3>2, <3>3
  <2> HIDE DEF f
  <2>3. FirstSame(s, f, 1, p.w - 1) /\ NextSame(s, f, 1, p.w - 1)
    BY <2>1, <2>2 DEF FirstSame, NextSame
  <2>4. 1 \in Nat /\ p.w - 1 \in Int
    BY <1>1
  <2>5. AllSame(s, f, 1, p.w - 1)
    BY <2>3, <2>4, SameFromTheFirst, Zenon
  <2> QED BY <2>5 DEF AllSame
<1>6. x + 1 \in 1..(p.w - 1)
  BY <1>1
<1>7. Slide9(p, y)[x] = s[x + 1].blob
  BY DEF Slide9, s
<1>8. s[x + 1] = Window9(p, y, x + 1)
  BY <1>5, <1>6
<1> QED BY <1>7, <1>8 DEF Window9

-----------------------------------------------------------------------------
(* Despeckle: the shared maximum of dilate5 *)

\* The greatest value of the shape, and of its middle and right, which the next shape
\* has too.
Shape5(p, y, x) ==
  [blob |-> IF x = 0 THEN 1 ELSE Max(InPlus(p, y, x)), mem |-> Max({Pixel(p, y, x), Pixel(p, y, x + 1)})]

LEMMA PlusIs ==
  ASSUME NEW p, IsPicture(p), NEW y \in Int, NEW x \in 1..(p.w - 2)
  PROVE  /\ Pixel(p, y - 1, x) \in Nat /\ Pixel(p, y, x - 1) \in Nat /\ Pixel(p, y, x) \in Nat
         /\ Pixel(p, y, x + 1) \in Nat /\ Pixel(p, y + 1, x) \in Nat
         /\ Max(InPlus(p, y, x)) \in Nat /\ Greatest(Max(InPlus(p, y, x)), InPlus(p, y, x))
<1>1. p.w \in Nat
  BY DEF IsPicture
<1>2. x - 1 \in 0..(p.w - 1) /\ x \in 0..(p.w - 1) /\ x + 1 \in 0..(p.w - 1) /\ y - 1 \in Int /\ y + 1 \in Int
  BY <1>1
<1>3. PICK a, b, c, d, e : a = Pixel(p, y - 1, x) /\ b = Pixel(p, y, x - 1) /\ c = Pixel(p, y, x)
                        /\ d = Pixel(p, y, x + 1) /\ e = Pixel(p, y + 1, x)
  OBVIOUS
<1>4. a \in Nat /\ b \in Nat /\ c \in Nat /\ d \in Nat /\ e \in Nat
  BY <1>2, <1>3, PixelType
<1>5. InPlus(p, y, x) = {a, b, c, d, e}
  BY <1>3 DEF InPlus
<1>6. PICK m \in {a, b, c, d, e} : Greatest(m, {a, b, c, d, e})
  <2>1. PICK m1 \in {a, b} : m1 >= a /\ m1 >= b
    BY <1>4
  <2>2. PICK m2 \in {m1, c} : m2 >= m1 /\ m2 >= c
    BY <1>4
  <2>3. PICK m3 \in {m2, d} : m3 >= m2 /\ m3 >= d
    BY <1>4
  <2>4. PICK m4 \in {m3, e} : m4 >= m3 /\ m4 >= e
    BY <1>4
  <2>5. m4 \in {a, b, c, d, e} /\ \A z \in {a, b, c, d, e} : z <= m4
    BY <1>4, <2>1, <2>2, <2>3, <2>4
  <2> QED BY <2>5 DEF Greatest
<1>7. Max({a, b, c, d, e}) = m /\ m \in Nat
  BY <1>4, <1>6, MaxIs
<1> QED BY <1>3, <1>4, <1>5, <1>6, <1>7

LEMMA NextShape ==
  ASSUME NEW p, IsPicture(p), NEW y \in Int, NEW x \in 1..(p.w - 2)
  PROVE  Next5(p, y, Shape5(p, y, x - 1), x) = Shape5(p, y, x)
<1>1. p.w \in Nat
  BY DEF IsPicture
<1>2. PICK a, b, c, d, e : a = Pixel(p, y - 1, x) /\ b = Pixel(p, y, x - 1) /\ c = Pixel(p, y, x)
                        /\ d = Pixel(p, y, x + 1) /\ e = Pixel(p, y + 1, x)
  OBVIOUS
<1>3. a \in Nat /\ b \in Nat /\ c \in Nat /\ d \in Nat /\ e \in Nat
  BY <1>2, PlusIs
<1> DEFINE last == Shape5(p, y, x - 1)
           latest == Max({a, d, e})
           m == Max(InPlus(p, y, x))
<1>4. InPlus(p, y, x) = {a, b, c, d, e} /\ InPlus(p, y, x) \subseteq Nat
  BY <1>2, <1>3 DEF InPlus
<1>5. latest \in Nat /\ Greatest(latest, {a, d, e})
  BY <1>3, MaxOfThree
<1>6. last.mem = Max({b, c}) /\ last.blob = (IF x - 1 = 0 THEN 1 ELSE Max(InPlus(p, y, x - 1)))
  <2>1. x - 1 + 1 = x
    OBVIOUS
  <2> QED BY <1>2, <2>1 DEF Shape5
<1>7. Shape5(p, y, x) = [blob |-> m, mem |-> Max({c, d})]
  BY <1>2 DEF Shape5
<1>8. Next5(p, y, last, x) = IF last.blob = 0 THEN [blob |-> latest, mem |-> d]
                             ELSE [blob |-> Max({last.mem, latest}), mem |-> Max({c, d})]
  <2> HIDE DEF last
  <2>1. Row(p, y - 1, x, 0) = a /\ Row(p, y, x, 0) = c /\ Row(p, y, x + 1, 0) = d /\ Row(p, y + 1, x, 0) = e
    BY <1>2 DEF Pixel
  <2> QED BY <2>1, Zenon DEF Next5
<1> HIDE DEF last, latest
<1>9. ASSUME last.blob = 0 PROVE Next5(p, y, last, x) = Shape5(p, y, x)
  <2>1. x - 1 \in 1..(p.w - 2)
    BY <1>1, <1>6, <1>9
  <2>2. Max(InPlus(p, y, x - 1)) = 0
    BY <1>6, <1>9, <2>1
  <2>3. \A z \in InPlus(p, y, x - 1) : z <= 0
    BY <2>1, <2>2, PlusIs DEF Greatest
  <2>4. b \in InPlus(p, y, x - 1) /\ c \in InPlus(p, y, x - 1)
    <3>1. x - 1 + 1 = x
      OBVIOUS
    <3> QED BY <1>2, <3>1 DEF InPlus
  <2>5. b = 0 /\ c = 0
    BY <1>3, <2>3, <2>4
  <2>6. Greatest(latest, {a, b, c, d, e})
    BY <1>3, <1>5, <2>5 DEF Greatest
  <2>7. m = latest
    BY <1>4, <2>6, MaxIs
  <2>8. Max({c, d}) = d
    <3>1. Greatest(d, {c, d}) /\ {c, d} \subseteq Nat
      BY <1>3, <2>5 DEF Greatest
    <3> QED BY <3>1, MaxIs
  <2> HIDE DEF m
  <2> QED BY <1>7, <1>8, <1>9, <2>7, <2>8
<1>10. ASSUME last.blob # 0 PROVE Next5(p, y, last, x) = Shape5(p, y, x)
  <2>1. last.mem \in Nat /\ Greatest(last.mem, {b, c})
    BY <1>3, <1>6, MaxOfTwo
  <2>2. Max({last.mem, latest}) \in Nat /\ Greatest(Max({last.mem, latest}), {last.mem, latest})
    BY <1>5, <2>1, MaxOfTwo
  <2>3. PICK n : n = Max({last.mem, latest})
    OBVIOUS
  <2>4. n \in Nat /\ n \in {last.mem, latest} /\ last.mem <= n /\ latest <= n
    BY <2>2, <2>3 DEF Greatest
  <2>5. n \in {a, b, c, d, e} /\ a <= n /\ b <= n /\ c <= n /\ d <= n /\ e <= n
    BY <1>3, <1>5, <2>1, <2>4 DEF Greatest
  <2>6. Greatest(n, {a, b, c, d, e})
    BY <2>5 DEF Greatest
  <2>7. m = n
    BY <1>4, <2>6, MaxIs
  <2> HIDE DEF m
  <2> QED BY <1>7, <1>8, <1>10, <2>3, <2>7
<1> QED BY <1>9, <1>10 DEF last

\* dilate5 gives each pixel the greatest value of the plus shape around it.
LEMMA Shares ==
  ASSUME NEW p, IsPicture(p), NEW y \in Int, NEW x \in 1..(p.w - 2)
  PROVE  Slide5(p, y)[x] = Max(InPlus(p, y, x))
<1> DEFINE s == Shapes5(p, y)
           f == [z \in 0..(p.w - 2) |-> Shape5(p, y, z)]
<1>1. p.w \in Nat
  BY DEF IsPicture
<1>2. First5(p, y) = Shape5(p, y, 0)
  <2>1. 0 + 1 = 1
    OBVIOUS
  <2> QED BY <2>1 DEF First5, Shape5, Pixel
<1>3. f = [z \in 0..(p.w - 2) |-> IF z = 0 THEN First5(p, y) ELSE Next5(p, y, f[z - 1], z)]
  <2> SUFFICES ASSUME NEW z \in 0..(p.w - 2)
               PROVE  Shape5(p, y, z) = IF z = 0 THEN First5(p, y) ELSE Next5(p, y, f[z - 1], z)
    BY Zenon
  <2>1. CASE z = 0
    BY <1>2, <2>1
  <2>2. CASE z # 0
    <3>1. z \in 1..(p.w - 2) /\ z - 1 \in 0..(p.w - 2)
      BY <1>1, <2>2
    <3>2. f[z - 1] = Shape5(p, y, z - 1)
      BY <3>1
    <3> HIDE DEF f
    <3> QED BY <2>2, <3>1, <3>2, NextShape
  <2> QED BY <2>1, <2>2
<1>4. s = CHOOSE t : t = [z \in 0..(p.w - 2) |-> IF z = 0 THEN First5(p, y) ELSE Next5(p, y, t[z - 1], z)]
  BY DEF Shapes5
<1> HIDE DEF s
<1>5. s = [z \in 0..(p.w - 2) |-> IF z = 0 THEN First5(p, y) ELSE Next5(p, y, s[z - 1], z)]
  <2> HIDE DEF f
  <2> QED BY <1>3, <1>4, Zenon
<1>6. \A z \in 0..(p.w - 2) : s[z] = f[z]
  <2>1. 0 <= p.w - 2 => s[0] = f[0]
    <3> SUFFICES ASSUME 0 \in 0..(p.w - 2) PROVE s[0] = f[0]
      BY <1>1
    <3> HIDE DEF f
    <3>1. s[0] = First5(p, y)
      BY <1>5
    <3>2. f[0] = First5(p, y)
      BY <1>3
    <3> QED BY <3>1, <3>2
  <2>2. \A z \in 0..(p.w - 2) : z # 0 /\ s[z - 1] = f[z - 1] => s[z] = f[z]
    <3> SUFFICES ASSUME NEW z \in 0..(p.w - 2), z # 0, s[z - 1] = f[z - 1] PROVE s[z] = f[z]
      OBVIOUS
    <3> HIDE DEF f
    <3>2. s[z] = Next5(p, y, s[z - 1], z)
      BY <1>5
    <3>3. f[z] = Next5(p, y, f[z - 1], z)
      BY <1>3
    <3> QED BY <3>2, <3>3
  <2> HIDE DEF f
  <2>3. FirstSame(s, f, 0, p.w - 2) /\ NextSame(s, f, 0, p.w - 2)
    BY <2>1, <2>2 DEF FirstSame, NextSame
  <2>4. 0 \in Nat /\ p.w - 2 \in Int
    BY <1>1
  <2>5. AllSame(s, f, 0, p.w - 2)
    BY <2>3, <2>4, SameFromTheFirst, Zenon
  <2> QED BY <2>5 DEF AllSame
<1>7. x \in 0..(p.w - 2) /\ x # 0
  BY <1>1
<1>8. Slide5(p, y)[x] = s[x].blob
  BY DEF Slide5, s
<1>9. s[x] = Shape5(p, y, x)
  BY <1>6, <1>7
<1> QED BY <1>7, <1>8, <1>9 DEF Shape5

-----------------------------------------------------------------------------
(* Despeckle: one filter *)

\* The filter f leaves picture q and the number sum of picture p.
Leaves(p, q, sum, shape, Pixels(_, _, _)) ==
  /\ IsPicture(q) /\ q.w = p.w /\ q.h = p.h
  /\ \A c \in Cells(p) : q.px[c] = Pixels(p, shape, c)
  /\ sum = Cardinality(Moving(q))

\* A picture with other pixels.
LEMMA Repainted ==
  ASSUME NEW p, IsPicture(p), NEW px \in [Cells(p) -> Nat], NEW q, q = [p EXCEPT !.px = px]
  PROVE  IsPicture(q) /\ q.w = p.w /\ q.h = p.h /\ q.px = px /\ Cells(q) = Cells(p)
<1>1. p \in [w : Nat, h : Nat, px : [Cells(p) -> Nat]]
  BY DEF IsPicture
<1>2. q.w = p.w /\ q.h = p.h /\ q.px = px
  BY <1>1
<1>3. Cells(q) = Cells(p)
  BY <1>2 DEF Cells
<1>4. q \in [w : Nat, h : Nat, px : [Cells(p) -> Nat]]
  BY <1>1
<1> QED BY <1>2, <1>3, <1>4 DEF IsPicture

LEMMA PixelAround ==
  ASSUME NEW p, IsPicture(p), NEW c \in Cells(p), NEW shape \in {Box, Plus}
  PROVE  p.px[c] \in Around(p, c, shape, 0)
<1>1. <<0, 0>> \in shape
  <2>1. 0 \in -1..1
    OBVIOUS
  <2> QED BY <2>1 DEF Box, Plus
<1>2. Y(p, c) + 0 = Y(p, c) /\ X(p, c) + 0 = X(p, c)
  BY InsideIs
<1>3. Row(p, Y(p, c) + <<0, 0>>[2], X(p, c) + <<0, 0>>[1], 0) = p.px[c]
  BY <1>2, InsideIs DEF Pixel
<1> QED BY <1>1, <1>3 DEF Around

LEMMA Erodes ==
  ASSUME NEW p, IsPicture(p), NEW shape \in {Box, Plus}
  PROVE  Leaves(p, erode(p, shape, 0).picture, erode(p, shape, 0).sum, shape, Eroded)
<1> DEFINE survivors == {c \in Cells(p) : Survives(p, c, shape, 0)}
           px == [c \in Cells(p) |-> IF Edge(p, c) THEN 0 ELSE IF c \in survivors THEN p.px[c] ELSE 0]
           q == [p EXCEPT !.px = px]
<1>1. erode(p, shape, 0).picture = q /\ erode(p, shape, 0).sum = Cardinality(survivors)
  BY DEF erode, Filtered
<1>2. \A c \in Cells(p) : p.px[c] \in Nat
  BY DEF IsPicture
<1>3. px \in [Cells(p) -> Nat]
  BY <1>2
<1>4. \A c \in Cells(p) : Survives(p, c, shape, 0) <=>
         ~Edge(p, c) /\ ~\E d \in shape : Row(p, Y(p, c) + d[2], X(p, c) + d[1], 0) = 0
  BY DEF Survives, Around
<1>5. \A c \in Cells(p) : px[c] = Eroded(p, shape, c)
  BY <1>4 DEF Eroded
<1>6. \A c \in Cells(p) : Survives(p, c, shape, 0) => p.px[c] # 0
  BY PixelAround DEF Survives
<1>7. \A c \in Cells(p) : px[c] # 0 <=> c \in survivors
  BY <1>6 DEF Survives
<1> HIDE DEF px
<1>8. IsPicture(q) /\ q.w = p.w /\ q.h = p.h /\ q.px = px /\ Cells(q) = Cells(p)
  BY <1>3, Repainted
<1> HIDE DEF q
<1>9. Moving(q) = survivors
  BY <1>7, <1>8 DEF Moving
<1> QED BY <1>1, <1>5, <1>8, <1>9 DEF Leaves

LEMMA Dilates ==
  ASSUME NEW p, IsPicture(p), NEW shape \in {Box, Plus}, NEW blobs,
         \A c \in Cells(p) : ~Edge(p, c) =>
           /\ blobs[Y(p, c)][X(p, c)] \in Nat
           /\ Greatest(blobs[Y(p, c)][X(p, c)], Around(p, c, shape, 0))
           /\ blobs[Y(p, c)][X(p, c)] = Max(Around(p, c, shape, 0))
  PROVE  Leaves(p, dilate(p, blobs).picture, dilate(p, blobs).sum, shape, Dilated)
<1> DEFINE blob(c) == blobs[Y(p, c)][X(p, c)]
           px == [c \in Cells(p) |-> IF Edge(p, c) THEN 0 ELSE IF blob(c) # 0 THEN blob(c) ELSE p.px[c]]
           q == [p EXCEPT !.px = px]
           blobbed == {c \in Cells(p) : ~Edge(p, c) /\ blob(c) # 0}
<1>1. dilate(p, blobs).picture = q /\ dilate(p, blobs).sum = Cardinality(blobbed)
  BY DEF dilate, CountBlobs, Filtered
<1>2. \A c \in Cells(p) : p.px[c] \in Nat
  BY DEF IsPicture
<1>3. px \in [Cells(p) -> Nat]
  BY <1>2
<1>4. \A c \in Cells(p) : ~Edge(p, c) => p.px[c] <= blob(c)
  BY PixelAround DEF Greatest
<1>5. \A c \in Cells(p) : ~Edge(p, c) => px[c] = blob(c)
  BY <1>2, <1>4
<1>6. \A c \in Cells(p) : Edge(p, c) => px[c] = 0
  OBVIOUS
<1>7. \A c \in Cells(p) : px[c] = Dilated(p, shape, c)
  <2> HIDE DEF px
  <2> QED BY <1>5, <1>6 DEF Dilated
<1> HIDE DEF px
<1>8. IsPicture(q) /\ q.w = p.w /\ q.h = p.h /\ q.px = px /\ Cells(q) = Cells(p)
  BY <1>3, Repainted
<1> HIDE DEF q
<1>9. Moving(q) = blobbed
  BY <1>5, <1>6, <1>8 DEF Moving
<1> QED BY <1>1, <1>7, <1>8, <1>9 DEF Leaves

LEMMA DilatesBox ==
  ASSUME NEW p, IsPicture(p), NEW blobs, blobs = [y \in 0..(p.h - 1) |-> Slide9(p, y)]
  PROVE  Leaves(p, dilate(p, blobs).picture, dilate(p, blobs).sum, Box, Dilated)
<1>1. SUFFICES ASSUME NEW c \in Cells(p), ~Edge(p, c)
               PROVE  /\ blobs[Y(p, c)][X(p, c)] \in Nat
                      /\ Greatest(blobs[Y(p, c)][X(p, c)], Around(p, c, Box, 0))
                      /\ blobs[Y(p, c)][X(p, c)] = Max(Around(p, c, Box, 0))
  BY Dilates
<1>2. PICK x, y : x = X(p, c) /\ y = Y(p, c)
  OBVIOUS
<1>3. x \in 1..(p.w - 2) /\ y \in 0..(p.h - 1) /\ p.w \in Nat /\ p.h \in Nat
  BY <1>1, <1>2, InsideIs
<1>4. blobs[y][x] = Max(Columns(p, y, x + 1))
  <2>1. blobs[y] = Slide9(p, y)
    BY <1>3
  <2>2. y \in Int
    BY <1>3
  <2> QED BY <1>3, <2>1, <2>2, Slides
<1>5. Columns(p, y, x + 1) = {Column(p, y, x - 1), Column(p, y, x), Column(p, y, x + 1)}
  <2>1. (x + 1) - 2 = x - 1 /\ (x + 1) - 1 = x /\ x - 1 # -1 /\ x # -1 /\ x + 1 # -1
    BY <1>3
  <2>2. /\ Column0(p, y, x - 1) = Column(p, y, x - 1) /\ Column0(p, y, x) = Column(p, y, x)
        /\ Column0(p, y, x + 1) = Column(p, y, x + 1)
    BY <2>1 DEF Column0
  <2>3. Columns(p, y, x + 1) = {Column0(p, y, (x + 1) - 2), Column0(p, y, (x + 1) - 1), Column0(p, y, x + 1)}
    BY DEF Columns
  <2> QED BY ONLY <2>1, <2>2, <2>3
<1>6. PICK m : m = Max(Columns(p, y, x + 1))
  OBVIOUS
<1>7. m \in Nat /\ Greatest(m, Columns(p, y, x + 1))
  <2>1. x + 1 \in 1..(p.w - 1) /\ y \in Int
    BY <1>3
  <2> QED BY <1>6, <2>1, ColumnsAre
<1>8. /\ \A z \in {x - 1, x, x + 1} : Column(p, y, z) \in Nat /\ Greatest(Column(p, y, z), InColumn(p, y, z))
      /\ \A z \in {x - 1, x, x + 1} : InColumn(p, y, z) \subseteq Nat
  <2>1. \A z \in {x - 1, x, x + 1} : z \in 0..(p.w - 1)
    BY <1>3
  <2>2. y \in Int /\ y - 1 \in Int /\ y + 1 \in Int
    BY <1>3
  <2>3. \A z \in {x - 1, x, x + 1} : Column(p, y, z) \in Nat /\ Greatest(Column(p, y, z), InColumn(p, y, z))
    BY <2>1, <2>2, ColumnIs
  <2>4. \A z \in {x - 1, x, x + 1} : InColumn(p, y, z) \subseteq Nat
    BY <2>1, <2>2, PixelType DEF InColumn
  <2> QED BY <2>3, <2>4
<1>9. PICK S : S = InColumn(p, y, x - 1) \cup InColumn(p, y, x) \cup InColumn(p, y, x + 1)
  OBVIOUS
<1>10. Greatest(m, S) /\ S \subseteq Nat
  <2>1. \A z \in {x - 1, x, x + 1} : Column(p, y, z) \in InColumn(p, y, z) /\ \A a \in InColumn(p, y, z) : a <= Column(p, y, z)
    BY <1>8 DEF Greatest
  <2>2. m \in {Column(p, y, x - 1), Column(p, y, x), Column(p, y, x + 1)}
    BY <1>5, <1>7 DEF Greatest
  <2>3. \A z \in {x - 1, x, x + 1} : Column(p, y, z) <= m
    BY <1>5, <1>7 DEF Greatest
  <2>4. m \in S
    BY <1>9, <2>1, <2>2
  <2>5. S \subseteq Nat
    BY <1>8, <1>9
  <2>6. \A a \in S : \E z \in {x - 1, x, x + 1} : a \in InColumn(p, y, z)
    BY <1>9
  <2>7. \A a \in S : a <= m
    <3> SUFFICES ASSUME NEW a \in S PROVE a <= m
      OBVIOUS
    <3>1. PICK z \in {x - 1, x, x + 1} : a \in InColumn(p, y, z)
      BY <2>6
    <3>2. a <= Column(p, y, z) /\ Column(p, y, z) <= m
      BY <2>1, <2>3, <3>1
    <3>3. a \in Nat /\ Column(p, y, z) \in Nat /\ m \in Nat
      BY <1>7, <1>8, <2>5
    <3> QED BY <3>2, <3>3
  <2> QED BY <2>4, <2>5, <2>7 DEF Greatest
<1>11. Max(S) = m
  BY <1>10, MaxIs
<1>12. Around(p, c, Box, 0) = S
  BY <1>1, <1>2, <1>9, AroundBox
<1> QED BY <1>2, <1>4, <1>6, <1>7, <1>10, <1>11, <1>12

LEMMA DilatesPlus ==
  ASSUME NEW p, IsPicture(p), NEW blobs, blobs = [y \in 0..(p.h - 1) |-> Slide5(p, y)]
  PROVE  Leaves(p, dilate(p, blobs).picture, dilate(p, blobs).sum, Plus, Dilated)
<1>1. SUFFICES ASSUME NEW c \in Cells(p), ~Edge(p, c)
               PROVE  /\ blobs[Y(p, c)][X(p, c)] \in Nat
                      /\ Greatest(blobs[Y(p, c)][X(p, c)], Around(p, c, Plus, 0))
                      /\ blobs[Y(p, c)][X(p, c)] = Max(Around(p, c, Plus, 0))
  BY Dilates
<1>2. PICK x, y : x = X(p, c) /\ y = Y(p, c)
  OBVIOUS
<1>3. x \in 1..(p.w - 2) /\ y \in 0..(p.h - 1) /\ y \in Int
  BY <1>1, <1>2, InsideIs
<1>4. blobs[y][x] = Max(InPlus(p, y, x))
  <2>1. blobs[y] = Slide5(p, y)
    BY <1>3
  <2> QED BY <1>3, <2>1, Shares
<1>5. Max(InPlus(p, y, x)) \in Nat /\ Greatest(Max(InPlus(p, y, x)), InPlus(p, y, x))
  BY <1>3, PlusIs
<1>6. Around(p, c, Plus, 0) = InPlus(p, y, x)
  BY <1>1, <1>2, AroundPlus
<1> QED BY <1>2, <1>4, <1>5, <1>6

-----------------------------------------------------------------------------
(* Despeckle: the filters *)

DespeckleInv ==
  /\ IsPicture(picture) /\ todo \in Seq(Letters)
  /\ todo # <<>> => "diffs" \in DOMAIN filtered

LEMMA Applies ==
  ASSUME DespeckleInv, alg_despeckle
  PROVE  /\ DespeckleInv'
         /\ \A c \in Cells(picture) : picture'.px[c] = Reference(Head(todo), picture, c)
         /\ filtered'.diffs = Cardinality(Moving(picture'))
<1> DEFINE f == Head(todo)
           r == Apply(f)
<1>1. f \in {"E", "e", "D", "d"} /\ Tail(todo) \in Seq(Letters)
  BY DEF DespeckleInv, alg_despeckle, Letters
<1>2. picture' = r.picture /\ filtered' = [filtered EXCEPT !.diffs = r.sum]
      /\ todo' = (IF Stops(f, r.sum) THEN <<>> ELSE Tail(todo))
  BY DEF alg_despeckle
<1>3. IsPicture(picture) /\ "diffs" \in DOMAIN filtered
  BY DEF DespeckleInv, alg_despeckle
<1>4. todo' \in Seq(Letters)
  <2>1. <<>> \in Seq(Letters)
    OBVIOUS
  <2> QED BY <1>1, <1>2, <2>1
<1>5. filtered'.diffs = r.sum /\ "diffs" \in DOMAIN filtered'
  BY <1>2, <1>3
<1> HIDE DEF f
<1>6. /\ IsPicture(r.picture)
      /\ \A c \in Cells(picture) : r.picture.px[c] = Reference(f, picture, c)
      /\ r.sum = Cardinality(Moving(r.picture))
  <2>1. CASE f = "E"
    <3>1. r = erode(picture, Box, 0) /\ \A c \in Cells(picture) : Reference(f, picture, c) = Eroded(picture, Box, c)
      BY <2>1 DEF Apply, Reference
    <3>2. Leaves(picture, r.picture, r.sum, Box, Eroded)
      BY <1>3, <3>1, Erodes
    <3> QED BY <3>1, <3>2 DEF Leaves
  <2>2. CASE f = "e"
    <3>1. r = erode(picture, Plus, 0) /\ \A c \in Cells(picture) : Reference(f, picture, c) = Eroded(picture, Plus, c)
      BY <2>2 DEF Apply, Reference
    <3>2. Leaves(picture, r.picture, r.sum, Plus, Eroded)
      BY <1>3, <3>1, Erodes
    <3> QED BY <3>1, <3>2 DEF Leaves
  <2>3. CASE f = "D"
    <3>1. r = dilate(picture, [y \in 0..(picture.h - 1) |-> Slide9(picture, y)])
          /\ \A c \in Cells(picture) : Reference(f, picture, c) = Dilated(picture, Box, c)
      BY <2>3 DEF Apply, Reference
    <3>2. Leaves(picture, r.picture, r.sum, Box, Dilated)
      BY <1>3, <3>1, DilatesBox
    <3> QED BY <3>1, <3>2 DEF Leaves
  <2>4. CASE f = "d"
    <3>1. r = dilate(picture, [y \in 0..(picture.h - 1) |-> Slide5(picture, y)])
          /\ \A c \in Cells(picture) : Reference(f, picture, c) = Dilated(picture, Plus, c)
      BY <2>4 DEF Apply, Reference
    <3>2. Leaves(picture, r.picture, r.sum, Plus, Dilated)
      BY <1>3, <3>1, DilatesPlus
    <3> QED BY <3>1, <3>2 DEF Leaves
  <2> QED BY <1>1, <2>1, <2>2, <2>3, <2>4
<1> HIDE DEF r
<1>7. DespeckleInv'
  <2>1. IsPicture(picture')
    BY <1>2, <1>6
  <2>2. IsPicture(picture)' <=> IsPicture(picture')
    BY DEF IsPicture, Cells
  <2> QED BY <1>4, <1>5, <2>1, <2>2 DEF DespeckleInv
<1>8. Moving(picture') = Moving(r.picture)
  BY <1>2
<1> QED BY <1>2, <1>5, <1>6, <1>7, <1>8 DEF f

\* Whatever pictures and lists of filters: each filter leaves what its definition says.
THEOREM FiltersAreTheirDefinitions == DespeckleSpec => Despeckled
<1>1. FilterInit => DespeckleInv
  <2> SUFFICES ASSUME FilterInit PROVE DespeckleInv
    OBVIOUS
  <2>1. IsPicture(picture) /\ todo \in Seq(Letters)
    BY DespeckleAssumption DEF FilterInit, IsPicture
  <2>2. "diffs" \in DOMAIN filtered
    BY DEF FilterInit
  <2> QED BY <2>1, <2>2 DEF DespeckleInv
<1>2. DespeckleInv /\ [alg_despeckle \/ AfterFilters]_filterVars => DespeckleInv'
  <2> SUFFICES ASSUME DespeckleInv, [alg_despeckle \/ AfterFilters]_filterVars PROVE DespeckleInv'
    OBVIOUS
  <2>1. CASE alg_despeckle
    BY <2>1, Applies
  <2>2. CASE AfterFilters
    BY <2>2 DEF AfterFilters, DespeckleInv, IsPicture, Cells
  <2>3. CASE UNCHANGED filterVars
    BY <2>3 DEF filterVars, DespeckleInv, IsPicture, Cells
  <2> QED BY <2>1, <2>2, <2>3
<1>3. DespeckleInv /\ [alg_despeckle \/ AfterFilters]_filterVars =>
        [alg_despeckle => /\ \A c \in Cells(picture) : picture'.px[c] = Reference(Head(todo), picture, c)
                          /\ filtered'.diffs = Cardinality(Moving(picture'))]_filterVars
  BY Applies
<1> QED BY <1>1, <1>2, <1>3, PTL DEF DespeckleSpec, Despeckled
=============================================================================
