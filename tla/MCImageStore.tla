--------------------------- MODULE MCImageStore ---------------------------
(* A bank of two sectors and four pages; records of one, two and four pages, *)
(* so that one fits the first sector, one fills it and one needs both.       *)
EXTENDS ImageStore, TLC

CONSTANTS empty, short, long, w1

MCRings == {empty, short, long}
MCWindows == {w1}
MCSectorOf == <<1, 1, 2, 2>>
MCPageCount == empty :> 1 @@ short :> 2 @@ long :> 4
=============================================================================
