--------------------------- MODULE MCLogPipeline ---------------------------
EXTENDS LogPipeline

(***************************************************************************)
(* A line that is not UTF-8, and "Done" where it is not the server's own:  *)
(* of another thread, spoken by a player, and in a line without a frame.   *)
(***************************************************************************)
Done == Log("Server thread", "Done (time)!")

MCChatter == {
  [Log("Server thread", "other") EXCEPT !.utf8 = FALSE],
  [Done EXCEPT !.thread = "other"],
  [Done EXCEPT !.spoken = TRUE],
  [Done EXCEPT !.framed = FALSE] }
=============================================================================
