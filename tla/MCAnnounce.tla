----------------------------- MODULE MCAnnounce -----------------------------
(* Model-checking instances of Announce: addresses and ports whose bytes   *)
(* differ from each other and reach both ends of their range.              *)
EXTENDS Announce, FiniteSets, SequencesExt

SomePeers ==
  {[ip |-> <<127, 0, 0, 1>>, port |-> p] : p \in {0, 255, 256, 65535}}
    \cup {[ip |-> <<255, 1, 2, 0>>, port |-> 6881]}
MCPeerLists == BoundedSeq(SomePeers, 2)

\* Lists of zero to thirteen bytes, up to two peers and a rest.
MCByteLists == {[k \in 1 .. n |-> (37 * k + c) % 256] : n \in 0 .. 13, c \in {0, 200}}
=============================================================================
