------------------------------ MODULE MCTracker ------------------------------
(* Model-checking instances of Tracker.                                    *)
EXTENDS Tracker

(* Nothing in the tracker tells two clients, hashes, names or addresses    *)
(* apart other than by equality.                                           *)
TrackerSymmetry ==
  Permutations(Client) \cup Permutations(InfoHash) \cup Permutations(FileName)
    \cup Permutations(Addr)
=============================================================================
