---------------------------- MODULE MCIndexCache ----------------------------
(* Small instances of IndexCache. *)
EXTENDS IndexCache, TLC

CONSTANTS x1, x2, x3

(* Pack 2 is there at the start.  1 sorts before it and has one of its     *)
(* chunks and a new one, 3 is what prune may repack of it.                 *)
Overlap  == (1 :> {x1, x3}) @@ (2 :> {x1, x2})
Repack   == Overlap @@ (3 :> {x2})

(* With readers that are killed, prune repacks nothing. *)
NoRepackKilled == Faults => 3 \notin packs

CopyAll  == (1 :> {x1}) @@ (2 :> {x1}) @@ (3 :> {x2})
=============================================================================
