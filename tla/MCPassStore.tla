----------------------------- MODULE MCPassStore -----------------------------
(* PassStore with room for two passes. *)
EXTENDS PassStore

MCNums   == 0..MAXPASS
MCMore   == 0..MAXPASS+1
MCColors == {-2, 258}
==============================================================================
