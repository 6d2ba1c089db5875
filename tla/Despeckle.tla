------------------------------ MODULE Despeckle ------------------------------
(***************************************************************************)
(* The filters of despeckle_filter that the motion engine runs one after   *)
(* the other on one motion picture, alg.c.  What comes after them, the     *)
(* labelling and the place of the motion, is ImageFilters.                 *)
(*                                                                         *)
(* A picture is its width, its height and its pixels in a row, as in       *)
(* memory.  The filters work on saved rows of the picture, so that each    *)
(* pixel comes from the picture before.                                    *)
(***************************************************************************)
EXTENDS Integers, SequencesExt, FiniteSetsExt

CONSTANTS
  Pictures,     \* pictures that alg_diff leaves: [w, h, px], 0 for no motion
  FilterLists,  \* despeckle_filter, as sequences of letters
  Thresholds    \* cnt->threshold, for the labelling

VARIABLES
  picture,      \* imgs.out
  todo,         \* the filters that are left
  filtered,     \* diffs, labels, labelsize_max, threshold, and whether a label was cut short
  located       \* location, once it is known

filterVars == <<picture, todo, filtered, located>>

-----------------------------------------------------------------------------
Cells(p) == 0..(p.w * p.h - 1)
X(p, c) == c % p.w
Y(p, c) == c \div p.w
Edge(p, c) == X(p, c) \in {0, p.w - 1}
\* A row of the picture, or one of padding above and below it.
Row(p, y, x, pad) == IF y \in 0..(p.h - 1) THEN p.px[y * p.w + x] ELSE pad

Box == (-1..1) \X (-1..1)
Plus == {d \in Box : d[1] = 0 \/ d[2] = 0}
Around(p, c, shape, pad) == {Row(p, Y(p, c) + d[2], X(p, c) + d[1], pad) : d \in shape}

Moving(p) == {c \in Cells(p) : p.px[c] # 0}

-----------------------------------------------------------------------------
(* erode9, erode5, dilate9, dilate5: the picture, and what they return *)

Filtered(p, px, sum) == [picture |-> [p EXCEPT !.px = px], sum |-> sum]

Survives(p, c, shape, flag) == ~Edge(p, c) /\ 0 \notin Around(p, c, shape, flag)
erode(p, shape, flag) ==
  LET survivors == {c \in Cells(p) : Survives(p, c, shape, flag)}
  IN Filtered(p, [c \in Cells(p) |-> IF Edge(p, c) THEN flag
                                     ELSE IF c \in survivors THEN p.px[c] ELSE 0],
              Cardinality(survivors))

\* dilate9 keeps the greatest value of three columns in a window, and of the window.
Column(p, y, x) == Max({Row(p, y + d, x, 0) : d \in -1..1})
\* (Fault: a value that has left the window stays the greatest.)
BlobKept(latest, blob, window) == IF latest >= blob THEN latest ELSE blob
Blob(latest, blob, window) == IF latest >= blob THEN latest ELSE Max(Range(window))
First9(p, y) == [window |-> <<Column(p, y, 0), Column(p, y, 1), 0>>,
                 blob |-> Max({Column(p, y, 0), Column(p, y, 1)})]
Next9(p, y, last, x) ==
  LET latest == Column(p, y, x)
      window == [last.window EXCEPT ![(x % 3) + 1] = latest]
  IN [window |-> window, blob |-> Blob(latest, last.blob, window)]
Windows9(p, y) ==
  LET s[x \in 1..(p.w - 1)] == IF x = 1 THEN First9(p, y) ELSE Next9(p, y, s[x - 1], x)
  IN s
Slide9(p, y) == LET s == Windows9(p, y) IN [x \in 1..(p.w - 2) |-> s[x + 1].blob]

\* dilate5 keeps the greatest value that two shapes side by side share.
First5(p, y) == [blob |-> 1, mem |-> Max({Row(p, y, 0, 0), Row(p, y, 1, 0)})]
Next5(p, y, last, x) ==
  LET right == Row(p, y, x + 1, 0)
      latest == Max({Row(p, y - 1, x, 0), right, Row(p, y + 1, x, 0)})
  IN IF last.blob = 0 THEN [blob |-> latest, mem |-> right]
     ELSE [blob |-> Max({last.mem, latest}), mem |-> Max({Row(p, y, x, 0), right})]
Shapes5(p, y) ==
  LET s[x \in 0..(p.w - 2)] == IF x = 0 THEN First5(p, y) ELSE Next5(p, y, s[x - 1], x)
  IN s
Slide5(p, y) == LET s == Shapes5(p, y) IN [x \in 1..(p.w - 2) |-> s[x].blob]

\* A pixel without motion around it is left as it is.
CountBlobs(p, blobs) == Cardinality({c \in Cells(p) : ~Edge(p, c) /\ blobs[Y(p, c)][X(p, c)] # 0})
dilate(p, blobs) ==
  LET blob(c) == blobs[Y(p, c)][X(p, c)]
  IN Filtered(p, [c \in Cells(p) |-> IF Edge(p, c) THEN 0
                                     ELSE IF blob(c) # 0 THEN blob(c) ELSE p.px[c]],
              CountBlobs(p, blobs))

-----------------------------------------------------------------------------
(* alg_despeckle: one filter a step, from the first *)

\* What despeckle_filter says; letters that mean nothing are passed over.
Letters == {"E", "e", "D", "d", "l"}
ASSUME DespeckleAssumption ==
  /\ \A p \in Pictures : p \in [w : Nat, h : Nat, px : [Cells(p) -> Nat]]
  /\ FilterLists \subseteq Seq(Letters)

FilterInit ==
  /\ picture \in Pictures /\ todo \in FilterLists /\ located = <<>>
  /\ \E t \in Thresholds :
       filtered = [diffs |-> Cardinality(Moving(picture)), labels |-> <<>>, sizeMax |-> 0,
                   full |-> FALSE, threshold |-> t]

Apply(f) ==
  CASE f = "E" -> erode(picture, Box, 0)
    [] f = "e" -> erode(picture, Plus, 0)
    [] f = "D" -> dilate(picture, [y \in 0..(picture.h - 1) |-> Slide9(picture, y)])
    [] f = "d" -> dilate(picture, [y \in 0..(picture.h - 1) |-> Slide5(picture, y)])
\* Nothing is filtered after an erosion that leaves nothing.
Stops(f, sum) == f \in {"E", "e"} /\ sum = 0
alg_despeckle ==
  /\ todo # <<>> /\ Head(todo) # "l" /\ UNCHANGED located
  /\ LET r == Apply(Head(todo)) IN
     /\ picture' = r.picture
     /\ filtered' = [filtered EXCEPT !.diffs = r.sum]
     /\ todo' = IF Stops(Head(todo), r.sum) THEN <<>> ELSE Tail(todo)
\* What comes after the filters leaves the picture as it is, and nothing is filtered after it.
AfterFilters ==
  /\ todo # <<>> => Head(todo) = "l"
  /\ todo' = <<>> /\ UNCHANGED picture

DespeckleSpec == FilterInit /\ [][alg_despeckle \/ AfterFilters]_filterVars

-----------------------------------------------------------------------------
(* Property *)

\* Each filter of alg_despeckle leaves what its definition says, although it works on
\* saved rows, a sliding window and a shared maximum: an erosion keeps the pixels that
\* have motion all around, a dilation gives each pixel the greatest value around it,
\* the border is cleared, and diffs is the number of pixels that are left.
Eroded(p, shape, c) ==
  IF Edge(p, c) \/ \E d \in shape : Row(p, Y(p, c) + d[2], X(p, c) + d[1], 0) = 0 THEN 0 ELSE p.px[c]
Dilated(p, shape, c) == IF Edge(p, c) THEN 0 ELSE Max(Around(p, c, shape, 0))
Reference(f, p, c) ==
  CASE f = "E" -> Eroded(p, Box, c)  [] f = "e" -> Eroded(p, Plus, c)
    [] f = "D" -> Dilated(p, Box, c) [] f = "d" -> Dilated(p, Plus, c)
Despeckled ==
  [][alg_despeckle => /\ \A c \in Cells(picture) : picture'.px[c] = Reference(Head(todo), picture, c)
                      /\ filtered'.diffs = Cardinality(Moving(picture'))]_filterVars
=============================================================================
