------------------------------ MODULE FileFetch ------------------------------
(***************************************************************************)
(* What PeerDownload::download (bt/src/peer_download.rs) promises its      *)
(* caller, with the channels, the tasks and the peers left out: verified   *)
(* pieces are gathered one by one, none of them twice; the output path is  *)
(* not touched before the last of them is there; it then holds part of     *)
(* the data until all of it is written.                                    *)
(***************************************************************************)
EXTENDS Integers

CONSTANT PieceCount

Piece == 0 .. PieceCount - 1

VARIABLES
  got,   \* the pieces whose verified bytes were gathered
  out    \* the output path: "untouched", then "partial", then "whole"

vars == <<got, out>>

TypeOK ==
  /\ got \subseteq Piece
  /\ out \in {"untouched", "partial", "whole"}

Init ==
  /\ got = {}
  /\ out = "untouched"

Gather(p) ==
  /\ out = "untouched"
  /\ p \notin got
  /\ got' = got \cup {p}
  /\ UNCHANGED out

Truncate ==
  /\ out = "untouched"
  /\ got = Piece
  /\ out' = "partial"
  /\ UNCHANGED got

Complete ==
  /\ out = "partial"
  /\ out' = "whole"
  /\ UNCHANGED got

Next ==
  \/ \E p \in Piece : Gather(p)
  \/ Truncate
  \/ Complete

Spec == Init /\ [][Next]_vars
=============================================================================
