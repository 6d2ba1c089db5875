------------------------------ MODULE Rotation ------------------------------
(***************************************************************************)
(* The rotation of captured pictures by multiples of 90 degrees, rotate.c: *)
(* rotate_init chooses the rotation and exchanges width and height, and    *)
(* rotate_map turns the planes of each picture in place.  A picture is one *)
(* block of bytes, Y, then U and V with half the width and height.         *)
(***************************************************************************)
EXTENDS Integers, SequencesExt

CONSTANTS
  CaptureSizes,  \* width and height of the camera's pictures
  RotateDegs     \* conf.rotate_deg

\* The sizes of the configuration are multiples of 8 (video_common.c:665 and 671). A
\* driver may adjust them (video2.c:418), so only what the turning needs is assumed: the
\* smaller planes are half as wide and high, and an even number of four byte words.

ASSUME RotationAssumption ==
  /\ CaptureSizes \subseteq Nat \X Nat
  /\ \A size \in CaptureSizes :
       size[1] % 2 = 0 /\ size[2] % 2 = 0 /\ (size[1] * size[2]) % 32 = 0
  /\ RotateDegs \subseteq Int

VARIABLES
  rotate,        \* rotate_data, and width, height and type of imgs
  map,           \* the block of the picture, from 0
  rotated        \* rotate_map has been called

rotateVars == <<rotate, map, rotated>>

-----------------------------------------------------------------------------
YUV420P == "yuv420p"
GREY == "grey"
Palettes == {YUV420P, GREY, "other"}

BlockSize(palette, wh) == IF palette = YUV420P THEN (wh * 3) \div 2 ELSE wh
Plane(start, w, h) == [start |-> start, w |-> w, h |-> h]
Planes(palette, w, h) ==
  {Plane(0, w, h)} \cup
  (IF palette # YUV420P THEN {}
   ELSE {Plane(w * h, w \div 2, h \div 2), Plane(w * h + (w * h) \div 4, w \div 2, h \div 2)})

RotateInit ==
  /\ \E size \in CaptureSizes, deg \in RotateDegs, palette \in Palettes :
       /\ rotate = [state |-> "loaded", degrees |-> deg, palette |-> palette,
                    width |-> size[1], height |-> size[2], cap_width |-> size[1], cap_height |-> size[2]]
       /\ map = [i \in 0..(BlockSize(palette, size[1] * size[2]) - 1) |-> i]
  /\ rotated = FALSE

\* What is no multiple of 90 is no rotation; C's remainder keeps the sign.
Remainder(a, b) == IF a >= 0 THEN a % b ELSE -((-a) % b)
Degrees(deg) == IF Remainder(deg, 90) > 0 THEN 0 ELSE Remainder(deg, 360)
Sideways(deg) == deg \in {90, 270}
\* Width and height are exchanged before the palette is looked at.
rotate_init ==
  /\ rotate.state = "loaded" /\ UNCHANGED <<map, rotated>>
  /\ LET deg == Degrees(rotate.degrees) IN
     rotate' = [rotate EXCEPT !.state = "ready",
                  !.degrees = IF rotate.palette \in {YUV420P, GREY} THEN deg ELSE 0,
                  !.width = IF Sideways(deg) THEN rotate.cap_height ELSE rotate.cap_width,
                  !.height = IF Sideways(deg) THEN rotate.cap_width ELSE rotate.cap_height]

\* The columns of the plane from the left, each from the bottom up.
rot90cw(block, p) ==
  [k \in 0..(p.w * p.h - 1) |-> block[p.start + (p.h - 1 - (k % p.h)) * p.w + (k \div p.h)]]
\* The same columns, written from the end of the plane backwards.
rot90ccw(block, p) == [k \in 0..(p.w * p.h - 1) |-> rot90cw(block, p)[p.w * p.h - 1 - k]]

\* The quad that byte k of the plane is exchanged with, and the byte in it.
\* (Fault: quads are exchanged, the bytes in them are not.)
MovedByte(quads, k) == 4 * (quads - 1 - (k \div 4)) + (k % 4)
SwappedByte(quads, k) == 4 * (quads - 1 - (k \div 4)) + 3 - (k % 4)
reverse_inplace_quad(block, p) ==
  LET quads == (p.w * p.h) \div 4
  IN [k \in 0..(p.w * p.h - 1) |->
        block[p.start + (IF 2 * (k \div 4) = quads - 1 THEN k ELSE SwappedByte(quads, k))]]

Turn(block, p) ==
  CASE rotate.degrees = 90  -> rot90cw(block, p)
    [] rotate.degrees = 180 -> reverse_inplace_quad(block, p)
    [] rotate.degrees = 270 -> rot90ccw(block, p)
\* A picture that is to be turned; other degrees are refused.
rotate_map ==
  /\ rotate.state = "ready" /\ ~rotated /\ rotated' = TRUE /\ UNCHANGED rotate
  /\ IF rotate.degrees \notin {90, 180, 270} THEN UNCHANGED map
     ELSE LET planes == Planes(rotate.palette, rotate.cap_width, rotate.cap_height)
              turned == [p \in planes |-> Turn(map, p)]
              plane(i) == CHOOSE p \in planes : i \in p.start..(p.start + p.w * p.h - 1)
          IN map' = [i \in DOMAIN map |-> turned[plane(i)][i - plane(i).start]]

RotateNext == rotate_init \/ rotate_map

RotationSpec == RotateInit /\ [][RotateNext]_rotateVars

-----------------------------------------------------------------------------
(* Property *)

\* rotate_map turns the picture and does nothing else to it: each pixel of each plane
\* of the new width and height comes from the pixel that a turn by the configured
\* degrees brings there.
Source(deg, p, x, y) ==
  CASE deg = 0   -> <<x, y>>
    [] deg = 90  -> <<y, p.w - 1 - x>>
    [] deg = 180 -> <<p.w - 1 - x, p.h - 1 - y>>
    [] deg = 270 -> <<p.h - 1 - y, x>>
Turned ==
  (rotated /\ rotate.degrees >= 0 /\ rotate.palette # "other") =>
    \A p \in Planes(rotate.palette, rotate.width, rotate.height) :
      \A x \in 0..(p.w - 1), y \in 0..(p.h - 1) :
        LET at    == Source(rotate.degrees, p, x, y)
            width == IF Sideways(rotate.degrees) THEN p.h ELSE p.w
        IN map[p.start + y * p.w + x] = p.start + at[2] * width + at[1]
=============================================================================
