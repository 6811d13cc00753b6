------------------------------- MODULE Bounds -------------------------------
(***************************************************************************)
(* The helpers of packages/shared that keep what a page asks for in range, *)
(* and the two places that use them: the mouse look of Dashboard.tsx and   *)
(* setLook() and setHotbar() of MinecraftBotManager.ts.                    *)
(*                                                                         *)
(* A finite number is counted in tenths (Scale); NaN and the infinities    *)
(* are whatever is not an integer.                                         *)
(***************************************************************************)
EXTENDS Integers

Scale == 10

FullTurn == 360 * Scale
HalfTurn == 180 * Scale
RightAngle == 90 * Scale

(* clamp() *)
Clamp(v, low, high) ==
  IF v \notin Int \/ v < low THEN low ELSE IF v > high THEN high ELSE v

ClampPitch(p) == Clamp(p, -RightAngle, RightAngle)

(* The operator % of JavaScript: the sign of the dividend. *)
Remainder(a, n) == IF a >= 0 THEN a % n ELSE -((-a) % n)

ClampYaw(y) ==
  IF y \notin Int THEN 0
  ELSE LET v == Remainder(y, FullTurn)
       IN  IF v > HalfTurn THEN v - FullTurn
           ELSE IF v < -HalfTurn THEN v + FullTurn
           ELSE v

(* normalizeHotbarSlot() *)
HotbarSlot(slot) == IF slot \notin Int THEN 0 ELSE Clamp(slot \div Scale, 0, 8)

(* What onMouseMove sends when the mouse turns the view that the last      *)
(* snapshot shows.                                                         *)
MouseLook(shown, turn) ==
  [yaw |-> ClampYaw(shown.yaw - turn.yaw), pitch |-> ClampPitch(shown.pitch - turn.pitch)]

(* What setLook() asks of the bot and shows. *)
SetLook(look) == [yaw |-> ClampYaw(look.yaw), pitch |-> ClampPitch(look.pitch)]
=============================================================================
