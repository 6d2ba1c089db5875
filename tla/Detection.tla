----------------------------- MODULE Detection ------------------------------
(***************************************************************************)
(* How the motion engine tells motion from the scene, picture by picture:  *)
(* the detection and tuning sections of motion_loop and the functions of   *)
(* alg.c that they call.  Of one pixel the engine keeps what it expects    *)
(* (ref), how long something else has been there (dyn), the motion picture *)
(* (out) and the smart mask, which learns where there is motion anyway.    *)
(*                                                                         *)
(* The pictures after the start-up pictures are modelled, without filters, *)
(* fixed mask, threshold_tune and pauses, at a steady rate, with event_gap *)
(* 0 and minimum_motion_frames 1: an event is a run of motion pictures.    *)
(***************************************************************************)
EXTENDS ImageFilters

CONSTANTS
  Width, Height,
  Scenes,          \* pictures the camera may see, as pixels
  Options,         \* settings of noise, noise_tune, smart_mask_speed and lightswitch,
                   \* and lastrate, the pictures captured in a second
  MaxChanges,      \* conf.max_changes, which is the threshold
  MaxScenes        \* bound on the changes of the scene

VARIABLES
  conf,            \* the options, and whether char has a sign in this build
  scene,           \* image_virgin
  clock,           \* lastrate, shots, rate_limit, and the section of the loop
  detection,       \* what cnt and cnt->imgs keep from picture to picture;
                   \* final is the set of pixels where smartmask_final is 0
  changed          \* how often the scene has changed

detectVars == <<conf, scene, clock, detection, changed>>

-----------------------------------------------------------------------------
Pixels == 0..(Width * Height - 1)
All(v) == [i \in Pixels |-> v]
Distance(a, b) == IF a > b THEN a - b ELSE b - a

\* Pictures between two tunings of the smart mask.
MaskRatio(lastrate) == 5 * lastrate * (11 - conf.smart_mask_speed)

DetectInit ==
  /\ \E o \in Options, c \in BOOLEAN :
       /\ clock = [lastrate |-> o.lastrate, shots |-> 0, rate_limit |-> 0, section |-> "detection"]
       /\ conf = [noise |-> o.noise, noise_tune |-> o.noise_tune,
                  smart_mask_speed |-> o.smart_mask_speed,
                  lightswitch |-> o.lightswitch, charSigned |-> c]
  /\ scene \in Scenes
  /\ detection = [ref |-> scene, dyn |-> All(0), out |-> All(0), diffs |-> 0, motion |-> FALSE,
                  detecting |-> FALSE, moved |-> 0, noise |-> conf.noise,
                  mask |-> All(0), buffer |-> All(0), final |-> {},
                  count |-> MaskRatio(clock.lastrate)]
  /\ changed = 0

-----------------------------------------------------------------------------
(* alg_diff *)

\* The difference as alg_diff_fast takes it, from a char.
FastDifference(a, b) ==
  LET byte == (a - b) % 256
  IN IF conf.charSigned /\ byte > 127 THEN 256 - byte ELSE byte
\* Of pictures as small as these every pixel is looked at.
alg_diff_fast(d, s) == Cardinality({i \in Pixels : FastDifference(d.ref[i], s[i]) > d.noise}) > MaxChanges \div 2

Differs(d, s) == {i \in Pixels : Distance(d.ref[i], s[i]) > d.noise}
\* What differs under the smart mask is not motion; outside an event it feeds the mask.
alg_diff_standard(d, s) ==
  LET smart == conf.smart_mask_speed > 0
      moving == {i \in Differs(d, s) : smart => i \notin d.final}
  IN [d EXCEPT !.out = [i \in Pixels |-> IF i \in moving THEN s[i] ELSE 0],
               !.buffer = [i \in Pixels |-> IF smart /\ ~d.detecting /\ i \in Differs(d, s)
                                            THEN @[i] + 5 ELSE @[i]],
               !.diffs = Cardinality(moving)]
\* When the fast look finds nothing, out stays as it was.
alg_diff(d, s) == IF alg_diff_fast(d, s) THEN alg_diff_standard(d, s) ELSE [d EXCEPT !.diffs = 0]

ResetReference(d, s) == [d EXCEPT !.ref = s, !.dyn = All(0)]
alg_lightswitch(d) == d.diffs > (Width * Height * conf.lightswitch) \div 100
Lightswitch(d, s) ==
  IF conf.lightswitch > 1 /\ alg_lightswitch(d)
  THEN ResetReference([d EXCEPT !.moved = Max({@, 5}), !.diffs = 0], s) ELSE d

Detect(d, s) == Lightswitch(IF d.detecting THEN alg_diff_standard(d, s) ELSE alg_diff(d, s), s)

-----------------------------------------------------------------------------
(* alg_tune_smartmask *)

Byte(v) == v % 256
\* (Fault: the mask does not decay.)
KeptMask(m) == m
Decayed(m) == IF m > 0 THEN m - 1 ELSE 0
Masked(m, diff) == IF diff = 0 THEN m ELSE IF m <= diff + 80 THEN Byte(m + diff) ELSE 80

\* Erosion with the flag 255, for pixels that are 0: they spread, but not to the edges.
Spread(zeros, shape) ==
  {i \in Pixels : i % Width \notin {0, Width - 1} /\
     \E z \in zeros : <<(z % Width) - (i % Width), (z \div Width) - (i \div Width)>> \in shape}
alg_tune_smartmask(d, lastrate) ==
  LET sensitivity == lastrate * (11 - conf.smart_mask_speed)
      mask == [i \in Pixels |-> Masked(Decayed(d.mask[i]), d.buffer[i] \div sensitivity)]
  IN [d EXCEPT !.mask = mask, !.buffer = [i \in Pixels |-> @[i] % sensitivity], !.count = MaskRatio(lastrate),
               !.final = Spread(Spread({i \in Pixels : mask[i] > 20}, Box), Plus)]
TuneMask(d, lastrate) ==
  IF conf.smart_mask_speed = 0 \/ d.detecting THEN d
  ELSE IF d.count = 1 THEN alg_tune_smartmask(d, lastrate) ELSE [d EXCEPT !.count = @ - 1]

\* A camera that moves, or is dazzled, sees no motion.
Settle(d) == IF d.moved > 0 THEN [d EXCEPT !.moved = @ - 1, !.diffs = 0] ELSE d

-----------------------------------------------------------------------------
(* alg_noise_tune and alg_update_reference_frame *)

alg_noise_tune(d, s) ==
  LET seen == {i \in Pixels : i \notin d.final}
      sum == MapThenSumSet(LAMBDA i : Distance(d.ref[i], s[i]) + 1, seen)
      per == IF Cardinality(seen) > 3 THEN sum \div (Cardinality(seen) \div 3) ELSE sum
  IN [d EXCEPT !.noise = 4 + (@ + per) \div 2]
\* Once in a second, when nothing moves.
TuneNoise(d, s, shots) ==
  IF conf.noise_tune /\ shots = 0 /\ ~d.detecting /\ d.diffs <= MaxChanges THEN alg_noise_tune(d, s) ELSE d
SetNoise(d) == IF conf.noise_tune THEN d ELSE [d EXCEPT !.noise = conf.noise]

\* Pictures until a thing that does not move belongs to the scene.
AcceptTimer(lastrate) == IF lastrate > 5 THEN (lastrate * 10) \div (lastrate \div 3) ELSE lastrate * 10
\* Reference and timer of one pixel.
Reference1(d, v, i, timer) ==
  IF Distance(d.ref[i], v) <= (d.noise * 20) \div 100 \/ i \in d.final THEN <<v, 0>>
  ELSE IF d.dyn[i] = 0 THEN <<d.ref[i], 1>>
  ELSE IF d.dyn[i] > timer THEN <<v, 0>>
  ELSE IF d.out[i] # 0 THEN <<d.ref[i], d.dyn[i] + 1>>
  ELSE <<(d.ref[i] + v) \div 2, 0>>
alg_update_reference_frame(d, s, lastrate) ==
  LET to == [i \in Pixels |-> Reference1(d, s[i], i, AcceptTimer(lastrate))]
  IN [d EXCEPT !.ref = [i \in Pixels |-> to[i][1]], !.dyn = [i \in Pixels |-> to[i][2]]]

\* The motion flag decides on the event.  A picture that is not processed has the
\* differences and the flag of the one before.
Flag(d, old) ==
  LET motion == old \/ d.diffs > MaxChanges IN [d EXCEPT !.motion = motion, !.detecting = motion]

-----------------------------------------------------------------------------
(* One picture of motion_loop *)

\* Detection is limited to three pictures a second.
Processed == clock.rate_limit + 1 >= clock.lastrate \div 3
Tick == [clock EXCEPT !.shots = IF @ = clock.lastrate - 1 THEN 0 ELSE @ + 1,
                      !.rate_limit = IF Processed THEN 0 ELSE @ + 1]

\* The detection section, with the next picture.
See(s) ==
  /\ clock.section = "detection" /\ clock' = [Tick EXCEPT !.section = "tuning"]
  /\ detection' = TuneMask(IF Processed THEN Detect(detection, s) ELSE detection, clock.lastrate)
  /\ scene' = s /\ UNCHANGED conf
\* The tuning section, and what the picture means for the event.
Learn ==
  /\ clock.section = "tuning" /\ clock' = [clock EXCEPT !.section = "detection"]
  /\ LET process == clock.rate_limit = 0
         tuned == TuneNoise(Settle(detection), scene, clock.shots)
     IN detection' = Flag(IF process THEN alg_update_reference_frame(SetNoise(tuned), scene, clock.lastrate)
                          ELSE tuned, ~process /\ detection.motion)
  /\ UNCHANGED <<conf, scene, changed>>

SameScene == See(scene) /\ UNCHANGED changed
NewScene ==
  /\ changed < MaxScenes /\ changed' = changed + 1
  /\ \E s \in Scenes \ {scene} : See(s)

DetectNext == SameScene \/ NewScene \/ Learn

-----------------------------------------------------------------------------
(* Properties *)

\* A scene that stays as it is, is learned: in the end the reference differs from it by
\* no more than a fifth of the noise level (and one, which averaging cannot remove),
\* nothing is excluded from detection by the smart mask, and there is no event.  This
\* is so for things that have come and stay, whatever remains in out and in the mask.
Learned ==
  /\ \A i \in Pixels : Distance(detection.ref[i], scene[i]) <= Max({1, (detection.noise * 20) \div 100})
  /\ detection.final = {} /\ ~detection.detecting
SceneIsLearned == <>[]Learned
=============================================================================
