---------------------------- MODULE CompactPeers ----------------------------
(***************************************************************************)
(* The compact list of peers of models/src/lib.rs: six bytes for each peer,*)
(* four of its IPv4 address and two of its port, most significant first.   *)
(*                                                                         *)
(* from_socket_addrs skips addresses that are not IPv4; the tracker, its   *)
(* only caller, has none (tracker/src/main.rs:214-217), so the lists here  *)
(* are lists of IPv4 peers.                                                *)
(***************************************************************************)
EXTENDS Integers, Sequences

Octet == 0 .. 255
MaxPort == 65535
Port == 0 .. MaxPort
Peer == [ip : [1 .. 4 -> Octet], port : Port]

\* Mutant: the port in the order of a little-endian machine.
MByteOf(peer, i) ==
  IF i <= 4 THEN peer.ip[i]
  ELSE IF i = 5 THEN peer.port % 256 ELSE peer.port \div 256

ByteOf(peer, i) ==
  IF i <= 4 THEN peer.ip[i]
  ELSE IF i = 5 THEN peer.port \div 256 ELSE peer.port % 256

(* AnnounceResponseRaw::from_socket_addrs.                                 *)
Packed(peers) ==
  [k \in 1 .. 6 * Len(peers) |->
     ByteOf(peers[((k - 1) \div 6) + 1], ((k - 1) % 6) + 1)]

\* Mutant: chunks_exact, which leaves a rest out.
MRagged(bytes) == FALSE

(* The last chunk is too short: indexing it panics.                        *)
Ragged(bytes) == Len(bytes) % 6 # 0

\* Mutant: a shift that is too wide.
MPeerAt(bytes, at) ==
  [ip   |-> [j \in 1 .. 4 |-> bytes[at + j]],
   port |-> bytes[at + 5] * 65536 + bytes[at + 6]]

(* The peer in a chunk of six with `at' bytes before it.                   *)
PeerAt(bytes, at) ==
  [ip   |-> [j \in 1 .. 4 |-> bytes[at + j]],
   port |-> bytes[at + 5] * 256 + bytes[at + 6]]

(* AnnounceResponse::from, for a list that is not ragged.                  *)
Unpacked(bytes) == [i \in 1 .. Len(bytes) \div 6 |-> PeerAt(bytes, 6 * (i - 1))]
=============================================================================
