----------------------------- MODULE MCStageGate -----------------------------
(* Plans of two stages for StageGate: a short one with an item of each stage, *)
(* and one with two items of the first stage.                                 *)
EXTENDS StageGate

ShortStageOf == <<1, 2>>
ShortDayOf == <<0, 1>>
ShortEndOf == <<1, 1>>

LongStageOf == <<1, 1, 2>>
LongDayOf == <<0, 1, 2>>
LongEndOf == <<1, 2>>
=============================================================================
