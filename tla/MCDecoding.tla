----------------------------- MODULE MCDecoding ------------------------------
(***************************************************************************)
(* BeamSearch for TLC.  A window of three units takes three passes; a beam *)
(* needs three rounds to end before its limit, and gets them in a window   *)
(* that takes one pass; the two long requests overwrite slots of the cache.*)
(***************************************************************************)
EXTENDS BeamSearch

Window(with_beam, modes, tokens, end) ==
  {[beam |-> with_beam, notimestamps |-> without, max_new_tokens |-> tokens, window_end |-> end] :
     without \in modes}

MCRequests ==
  UNION {Window(FALSE, BOOLEAN, 3, 3), Window(FALSE, BOOLEAN, 5, 0),
         Window(TRUE, BOOLEAN, 2, 2), Window(TRUE, BOOLEAN, 3, 0),
         Window(TRUE, BOOLEAN, 0, 2), Window(TRUE, {TRUE}, 4, 0)}
===============================================================================
