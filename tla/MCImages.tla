------------------------------ MODULE MCImages ------------------------------
(***************************************************************************)
(* What the motion engine computes on pictures, each part on its own: the  *)
(* filters and labels of one picture, the rotation, and the detection over *)
(* many pictures.  A behaviour runs one of them.                           *)
(***************************************************************************)
EXTENDS Detection, Rotation

VARIABLE runs

vars == <<filterVars, rotateVars, detectVars, runs>>

\* All pictures of a size, with 0 for no motion.
Every(w, h, values) == {[w |-> w, h |-> h, px |-> px] : px \in [0..(w * h - 1) -> values]}
\* Combs of up to four teeth: a stack of three segments cannot hold them all.
OnComb(teeth, x, y) == y = 0 \/ (x \in DOMAIN teeth /\ y <= teeth[x])
Combs == {[w |-> 8, h |-> 4, px |-> [c \in 0..31 |-> IF OnComb(teeth, c % 8, c \div 8) THEN 7 ELSE 0]] :
            teeth \in [{0, 2, 4, 6} -> 0..3]}
MCPictures == Every(4, 3, {0, 7}) \cup Every(4, 2, {0, 3, 7}) \cup Every(6, 1, {0, 3, 7}) \cup Combs
MCFilterLists == {<<"E", "e", "D", "d", "l">>, <<"d", "D", "l">>, <<"e", "D">>, <<"l">>}
MCCaptureSizes == {<<8, 8>>, <<24, 8>>, <<10, 16>>}
MCRotateDegs == {0, 90, 180, 270, 45, 450, -90}
\* A wall, something bright or black on it, and another view.
MCScenes == {[i \in 0..2 |-> s[i + 1]] :
               s \in {<<100, 100, 100>>, <<100, 200, 100>>, <<100, 0, 120>>, <<0, 255, 255>>}}

MCOption(tune, speed, light, rate) ==
  [noise |-> 32, noise_tune |-> tune, smart_mask_speed |-> speed, lightswitch |-> light, lastrate |-> rate]
MCOptions == {MCOption(FALSE, 0, 0, 6), MCOption(TRUE, 0, 80, 1), MCOption(FALSE, 10, 0, 1)}

\* A part that does not run has one state.
Init ==
  /\ runs \in {"filters", "rotation", "detection"}
  /\ DetectInit
  /\ runs # "detection" => conf.smart_mask_speed = 10 /\ ~conf.charSigned /\ scene = [i \in 0..2 |-> 100]
  /\ IF runs = "rotation" THEN RotateInit ELSE rotate = [state |-> "off"] /\ map = <<>> /\ rotated = FALSE
  /\ IF runs = "filters" THEN FilterInit
     ELSE /\ picture = [w |-> 0, h |-> 0, px |-> <<>>] /\ todo = <<>> /\ located = <<>>
          /\ filtered = [diffs |-> 0, labels |-> <<>>, sizeMax |-> 0, full |-> FALSE, threshold |-> 0]

Next == /\ UNCHANGED runs
        /\ \/ runs = "filters" /\ FilterNext /\ UNCHANGED <<rotateVars, detectVars>>
           \/ runs = "rotation" /\ RotateNext /\ UNCHANGED <<filterVars, detectVars>>
           \/ runs = "detection" /\ DetectNext /\ UNCHANGED <<filterVars, rotateVars>>

Spec == /\ Init /\ [][Next]_vars
        /\ WF_detectVars(runs = "detection" /\ SameScene)
        /\ WF_detectVars(runs = "detection" /\ Learn)
=============================================================================
