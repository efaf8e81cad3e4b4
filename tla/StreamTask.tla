----------------------------- MODULE StreamTask -----------------------------
(***************************************************************************)
(* What the download relies on of one stream: it connects or it does not,  *)
(* then it turns one request at a time into the bytes of that piece, or    *)
(* fails for good (start_stream_downloader, bt/src/peer_download.rs).      *)
(***************************************************************************)
EXTENDS Integers

CONSTANTS
  PieceBytes,  \* the bytes of each piece: a function on the piece numbers
  NoPiece,     \* no request was taken yet
  NoBytes      \* no piece is returned at the moment

VARIABLES
  task,  \* "connecting", "receive", "fetch", "failed" or "ended"
  job,   \* the request taken last
  out    \* the bytes returned for it

vars == <<task, job, out>>

Init == task = "connecting" /\ job = NoPiece /\ out = NoBytes

Connected == task = "connecting" /\ task' = "receive" /\ UNCHANGED <<job, out>>

Take(i) ==
  /\ task = "receive"
  /\ task' = "fetch" /\ job' = i /\ out' = NoBytes

Deliver ==
  /\ task = "fetch"
  /\ task' = "receive" /\ out' = PieceBytes[job]
  /\ UNCHANGED job

Fail == task \in {"connecting", "fetch"} /\ task' = "failed" /\ UNCHANGED <<job, out>>

End == task = "receive" /\ task' = "ended" /\ UNCHANGED job /\ out' = NoBytes

Next ==
  \/ Connected
  \/ \E i \in DOMAIN PieceBytes : Take(i)
  \/ Deliver
  \/ Fail
  \/ End

Spec == Init /\ [][Next]_vars
=============================================================================
