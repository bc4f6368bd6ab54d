-------------------------- MODULE MCGrDrawOpAtlas --------------------------
(* Five glyphs in three texts, and room for four of them or for fewer. *)
EXTENDS GrDrawOpAtlas, TLC
CONSTANTS A, B, C, D, E, AB, CD, JustE

MCGlyphsOf == AB :> <<A, B>> @@ CD :> <<C, D>> @@ JustE :> <<E>>
=============================================================================
