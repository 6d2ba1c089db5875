---------------------------- MODULE ImageFilters ----------------------------
(***************************************************************************)
(* What the motion engine does to one motion picture, alg.c: after the     *)
(* filters of Despeckle, the labelling of what is left, and the place and  *)
(* size of the motion.                                                     *)
(***************************************************************************)
EXTENDS Despeckle

CONSTANT MaxSegments  \* MAXS, the depth of the stack (10000)
ASSUME LabelAssumption == MaxSegments \in Nat /\ MaxSegments >= 2

-----------------------------------------------------------------------------
(* alg_labeling *)

\* What iflood works on: the labels, its stack, and whether PUSH dropped a segment.
Flooding(l, full) == [labels |-> l, stack |-> <<>>, full |-> full]
Segment(y, xl, xr, dy) == [y |-> y, xl |-> xl, xr |-> xr, dy |-> dy]
\* PUSH drops a segment whose next line is outside the picture, and without a word
\* one for which there is no room.
Push(p, f, s) ==
  IF s.y + s.dy \notin 0..(p.h - 1) THEN f
  ELSE IF Len(f.stack) < MaxSegments THEN [f EXCEPT !.stack = <<s>> \o @]
  ELSE [f EXCEPT !.full = TRUE]

\* (Fault: a line that goes further than its parent to the right is not looked back from.)
NoLeak(p, f, y, from, to, dy) == f
LeakRight(p, f, y, from, to, dy) ==
  IF from <= to THEN Push(p, f, Segment(y, from, to, -dy)) ELSE f

Open(p, l, y, x, old) == x \in 0..(p.w - 1) /\ p.px[y * p.w + x] # 0 /\ l[y * p.w + x] = old
RunRight(p, l, y, x, old) == Min({e \in x..p.w : ~Open(p, l, y, e, old)})
RunLeft(p, l, y, x, old) == Max({e \in -1..x : ~Open(p, l, y, e, old)})
Fill(p, l, y, from, to, new) == [c \in DOMAIN l |-> IF Y(p, c) = y /\ X(p, c) \in from..to THEN new ELSE l[c]]

RECURSIVE Line(_, _, _, _, _, _, _), Flood(_, _, _, _)
\* A run of line y from left on: filled, and its neighbours pushed.
FillRun(p, f, y, left, from, s, new, old) ==
  LET end    == RunRight(p, f.labels, y, from, old)
      filled == [f EXCEPT !.labels = Fill(p, @, y, left, end - 1, new)]
      more   == Push(p, filled, Segment(y, left, end - 1, s.dy))
  IN Line(p, LeakRight(p, more, y, s.xr + 1, end - 1, s.dy), y, end + 1, s, new, old)
\* The rest of the line under segment s, from x on.
Line(p, f, y, x, s, new, old) ==
  LET next == {z \in x..s.xr : Open(p, f.labels, y, z, old)}
  IN IF next = {} THEN Flood(p, f, new, old)
     ELSE FillRun(p, f, y, Min(next), Min(next), s, new, old)
\* One segment is popped, and the line next to it explored.
Flood(p, f, new, old) ==
  IF f.stack = <<>> THEN f
  ELSE LET s    == Head(f.stack)
           rest == [f EXCEPT !.stack = Tail(@)]
           y    == s.y + s.dy
           left == RunLeft(p, f.labels, y, s.xl, old) + 1
           back == IF left < s.xl THEN Push(p, rest, Segment(y, left, s.xl - 1, -s.dy)) ELSE rest
       IN IF left > s.xl THEN Line(p, rest, y, s.xl + 1, s, new, old)
          ELSE FillRun(p, back, y, left, s.xl, s, new, old)
iflood(p, f, c, new, old) ==
  LET x == X(p, c)
      y == Y(p, c)
  IN Flood(p, Push(p, Push(p, f, Segment(y, x, x, 1)), Segment(y + 1, x, x, -1)), new, old)

Above == 32768
LabelSize(l, n) == Cardinality({c \in DOMAIN l : l[c] = n})
\* One pixel of the scan: what has no label yet is flooded, and flooded again with a
\* marked label when it is larger than the threshold.
Scan(p, threshold, acc, c) ==
  IF p.px[c] = 0 THEN [acc EXCEPT !.labels[c] = 1]
  ELSE IF acc.labels[c] > 0 THEN acc
  ELSE LET once == iflood(p, Flooding(acc.labels, acc.full), c, acc.next, 0)
           big  == LabelSize(once.labels, acc.next) > threshold
           last == IF big THEN iflood(p, once, c, acc.next + Above, acc.next) ELSE once
           size == LabelSize(last.labels, IF big THEN acc.next + Above ELSE acc.next)
       IN [labels |-> last.labels, full |-> last.full,
           next |-> acc.next + 1,
           group |-> IF big THEN acc.group + size ELSE acc.group,
           sizeMax |-> Max({acc.sizeMax, size})]
\* The last line and the last column are not scanned.
Scanned(p) == SelectSeq([i \in 1..(p.w * p.h) |-> i - 1], LAMBDA c : X(p, c) < p.w - 1 /\ Y(p, c) < p.h - 1)
alg_labeling(p, threshold) ==
  FoldLeft(LAMBDA acc, c : Scan(p, threshold, acc, c),
           [labels |-> [c \in Cells(p) |-> 0], full |-> FALSE, next |-> 2, group |-> 0, sizeMax |-> 0], Scanned(p))

-----------------------------------------------------------------------------
(* The steps after the filters *)

\* Labelling is the last filter.
Label ==
  /\ AfterFilters /\ todo # <<>> /\ UNCHANGED located
  /\ LET r == alg_labeling(picture, filtered.threshold) IN
     filtered' = [filtered EXCEPT !.diffs = r.group, !.labels = r.labels,
                                  !.sizeMax = r.sizeMax, !.full = r.full]

\* The pixels that alg_locate_center_size counts.
Marked(l) == {c \in DOMAIN l : l[c] >= Above}
Counted == IF filtered.sizeMax > 0 THEN Marked(filtered.labels) ELSE Moving(picture)

Clamp(v, last) == IF v > last THEN last ELSE IF v < 0 THEN 0 ELSE v
Around2(c, dist, last, before) ==
  LET lo == Clamp(c - dist * before, last)
      hi == Clamp(c + dist * 2, last)
  IN <<lo + (lo % 2), hi - (hi % 2)>>
\* The centre, and the mean distances from it on both sides, to even pixels.
Centre(p, cells) ==
  LET n == Cardinality(cells)
      mean(f(_, _)) == MapThenSumSet(LAMBDA c : f(p, c), cells) \div n
      dist(f(_, _)) == MapThenSumSet(LAMBDA c : IF f(p, c) > mean(f) THEN f(p, c) - mean(f)
                                                ELSE mean(f) - f(p, c), cells) \div n
  IN [x |-> mean(X), xs |-> Around2(mean(X), dist(X), p.w - 1, 2),
      ys |-> Around2(mean(Y), dist(Y), p.h - 1, 3)]
alg_locate_center_size ==
  /\ AfterFilters /\ todo = <<>> /\ located = <<>> /\ filtered.diffs > filtered.threshold
  /\ UNCHANGED filtered
  /\ LET at == Centre(picture, Counted)
     IN located' = <<[x |-> at.x, y |-> (at.ys[1] + at.ys[2]) \div 2, xs |-> at.xs, ys |-> at.ys]>>

FilterNext == alg_despeckle \/ Label \/ alg_locate_center_size

-----------------------------------------------------------------------------
(* Property *)

\* As long as the stack of the flood has room, labelling finds the connected areas of
\* the picture: pixels have the same label iff they are connected, an area is marked
\* iff it is larger than the threshold, and the marked areas are what counts as motion.
\* Only what lies in the last line or column alone has no label: the scan does not go
\* there.  When PUSH dropped a segment (alg.c:442) an area may be several labels, but
\* each pixel that is scanned has one, no label is in two areas, and what counts as
\* motion is what is marked.
RECURSIVE Grown(_, _)
Grown(p, area) ==
  LET more == area \cup {c \in Moving(p) : \E a \in area :
                 \/ X(p, a) = X(p, c) /\ Y(p, a) - Y(p, c) \in {1, -1}
                 \/ Y(p, a) = Y(p, c) /\ X(p, a) - X(p, c) \in {1, -1}}
  IN IF more = area THEN area ELSE Grown(p, more)
Areas(p) == {Grown(p, {c}) : c \in Moving(p)}
LabelsAreAreas ==
  LET l == filtered.labels
      reached == {a \in Areas(picture) : a \cap Range(Scanned(picture)) # {}}
      large == {a \in reached : Cardinality(a) > filtered.threshold}
      same(c) == {b \in DOMAIN l : l[b] % Above = l[c] % Above}
  IN l # <<>> =>
       /\ \A a \in reached : \A c \in a :
            IF filtered.full THEN /\ l[c] # 0 => same(c) \subseteq a
                                  /\ c \in Range(Scanned(picture)) => l[c] # 0
                             ELSE a = {b \in DOMAIN l : l[b] = l[c]} /\ l[c] # 0
       /\ \A a \in Areas(picture) \ reached : \A c \in a : l[c] = 0
       /\ ~filtered.full => Marked(l) = UNION large
       /\ filtered.diffs = Cardinality(Marked(l))
=============================================================================
