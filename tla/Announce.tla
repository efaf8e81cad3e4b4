------------------------------ MODULE Announce ------------------------------
(***************************************************************************)
(* One announcement: what the client (try_announce of bt/src/http.rs) asks *)
(* a tracker, and what it makes of the answer.  Two conversions happen on  *)
(* the way.  The info hash is the name under which a file is looked up:    *)
(* TorrentFile percent-encodes its bytes, and the query encodes that text  *)
(* again.  The peers come back as a compact list (CompactPeers).           *)
(*                                                                         *)
(* The tracker is this project's, with registrations that never change     *)
(* meanwhile (module Tracker has the changes), or one of another program,  *)
(* which is outside the repository and does what the protocol says.        *)
(***************************************************************************)
EXTENDS CompactPeers

CONSTANTS
  InfoHash,   \* the 20 bytes that name a torrent
  PlainHash,  \* those in which percent-encoding changes nothing
  PeerLists,  \* lists of peers that a tracker may have for a file
  ByteLists   \* lists of bytes that another tracker may answer with

ASSUME PlainAssumption == PlainHash \subseteq InfoHash
ASSUME PeersAssumption == PeerLists \subseteq Seq(Peer)
ASSUME BytesAssumption == ByteLists \subseteq Seq(Octet)

(* A text made from an info hash by encoding it a number of times.         *)
Text == [hash : InfoHash, coded : 0 .. 2]
Encoded(text) ==
  IF text.hash \in PlainHash THEN text ELSE [text EXCEPT !.coded = @ + 1]
Decoded(text) ==
  IF text.hash \in PlainHash THEN text ELSE [text EXCEPT !.coded = @ - 1]

Bytes == [h \in InfoHash |-> [hash |-> h, coded |-> 0]]

(* The field info_hash of a TorrentFile, which an uploader registers and a *)
(* downloader asks for.                                                    *)
Name == [h \in InfoHash |-> Encoded(Bytes[h])]

VARIABLES
  known,    \* the peers the tracker has for each file
  poisoned, \* whether a handler of this project's tracker panicked with them locked
  wanted,   \* the file the client asks for
  query,    \* info_hash in the query string of the request
  answer,   \* the response
  found,    \* the peers the client got
  pc        \* "announce", "asked", "answered", "ok", "error" or "panic"

vars == <<known, poisoned, wanted, query, answer, found, pc>>

NoAnswer == [by |-> "nobody", status |-> 0, form |-> "none", bytes |-> <<>>]
Done == pc \in {"ok", "error", "panic"}

Init ==
  /\ known \in [InfoHash -> PeerLists]
  /\ poisoned \in BOOLEAN
  /\ wanted \in InfoHash
  /\ query = Bytes[wanted]
  /\ answer = NoAnswer
  /\ found = <<>>
  /\ pc = "announce"
-----------------------------------------------------------------------------
(* The torrent names a UDP tracker: unimplemented!() panics.               *)
AskUdp ==
  /\ pc = "announce"
  /\ pc' = "panic"
  /\ UNCHANGED <<known, poisoned, wanted, query, answer, found>>

\* Mutant: the bytes of the hash are put in the query as they are.
MAsk ==
  /\ pc = "announce"
  /\ query' = Encoded(Bytes[wanted])
  /\ pc' = "asked"
  /\ UNCHANGED <<known, poisoned, wanted, answer, found>>

Ask ==
  /\ pc = "announce"
  /\ query' = Encoded(Name[wanted])
  /\ pc' = "asked"
  /\ UNCHANGED <<known, poisoned, wanted, answer, found>>

(* A tracker decodes the query once.  This project's has a file under the  *)
(* text that was registered, another has it under its 20 bytes.            *)
Listed(key) == {h \in InfoHash : key[h] = Decoded(query) /\ known[h] # <<>>}

Respond(by, status, form, bytes) ==
  /\ pc = "asked"
  /\ answer' = [by |-> by, status |-> status, form |-> form, bytes |-> bytes]
  /\ pc' = "answered"
  /\ UNCHANGED <<known, poisoned, wanted, query, found>>

(* The lock is poisoned, and no peers can be read any more.                *)
TrackerRefuses ==
  /\ poisoned
  /\ Respond("tracker", 500, "text", <<>>)

(* peers is a Vec<u8>, which serde_bencode writes as a list of integers;   *)
(* that is always UTF-8, so the encoding does not fail.                    *)
TrackerFinds ==
  /\ ~poisoned
  /\ \E h \in Listed(Name) : Respond("tracker", 200, "list", Packed(known[h]))

TrackerMisses ==
  /\ ~poisoned
  /\ Listed(Name) = {}
  /\ Respond("tracker", 404, "text", <<>>)

(* BEP 23: peers is one string of bytes.                                   *)
OtherFinds ==
  \E h \in Listed(Bytes) : Respond("other", 200, "string", Packed(known[h]))

OtherMisses ==
  /\ Listed(Bytes) = {}
  /\ Respond("other", 404, "text", <<>>)

(* Anything else that answers on the tracker's port.                       *)
StrangerAnswers ==
  \E bytes \in ByteLists, form \in {"list", "text"} :
    Respond("stranger", 200, form, bytes)

NobodyAnswers ==
  /\ pc = "asked"
  /\ pc' = "error"
  /\ UNCHANGED <<known, poisoned, wanted, query, answer, found>>

(* The status is checked, the body is decoded, the list is unpacked.  A    *)
(* Vec<u8> is read from a list of integers, and from nothing else.         *)
TakeAnswer ==
  /\ pc = "answered"
  /\ IF answer.status # 200 \/ answer.form # "list" THEN pc' = "error"
     ELSE IF Ragged(answer.bytes) THEN pc' = "panic"
     ELSE pc' = "ok"
  /\ found' = IF pc' = "ok" THEN Unpacked(answer.bytes) ELSE found
  /\ UNCHANGED <<known, poisoned, wanted, query, answer>>

Next ==
  \/ AskUdp
  \/ Ask
  \/ TrackerRefuses
  \/ TrackerFinds
  \/ TrackerMisses
  \/ OtherFinds
  \/ OtherMisses
  \/ StrangerAnswers
  \/ NobodyAnswers
  \/ TakeAnswer

Spec == Init /\ [][Next]_vars
-----------------------------------------------------------------------------
Response == [by : {"nobody", "tracker", "other", "stranger"}, status : {0, 200, 404, 500},
             form : {"none", "list", "string", "text"}, bytes : Seq(Octet)]

TypeOK ==
  /\ known \in [InfoHash -> PeerLists]
  /\ poisoned \in BOOLEAN
  /\ wanted \in InfoHash
  /\ query \in Text
  /\ answer \in Response
  /\ found \in Seq(Peer)
  /\ pc \in {"announce", "asked", "answered", "ok", "error", "panic"}

(* Client and tracker agree on both conversions: what this project's       *)
(* tracker has for the file that is wanted, and nothing it has for another *)
(* one, arrives at the client, all addresses and ports in their order.     *)
(* The command fails if there is nothing, or if the tracker cannot read    *)
(* its peers; it never takes either for an answer with no peers.           *)
TrackerIsUnderstood ==
  Done /\ answer.by = "tracker" =>
    IF poisoned \/ known[wanted] = <<>> THEN pc = "error"
    ELSE pc = "ok" /\ found = known[wanted]

(* Whoever answers, the peers the client goes on with stand for all bytes  *)
(* of the list: no peer is made of part of a chunk and none is left out.   *)
NothingIsMadeUp == pc = "ok" => Packed(found) = answer.bytes
=============================================================================
