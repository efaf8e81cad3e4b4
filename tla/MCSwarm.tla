------------------------------- MODULE MCSwarm -------------------------------
(* Model-checking instances of Swarm.                                      *)
EXTENDS Swarm, TLC

(* Upload processes and addresses are interchangeable; files are not (one  *)
(* of them is wanted).                                                     *)
SwarmSymmetry == Permutations(Uploader) \cup Permutations(Addr)
=============================================================================
