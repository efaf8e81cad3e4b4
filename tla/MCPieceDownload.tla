-------------------------- MODULE MCPieceDownload --------------------------
(* Model-checking instances of PieceDownload.                              *)
EXTENDS PieceDownload, TLC

(* Stream tasks are interchangeable; pieces are not (they are numbered).   *)
WorkerSymmetry == Permutations(Worker)
=============================================================================
