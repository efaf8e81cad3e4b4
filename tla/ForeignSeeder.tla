--------------------------- MODULE ForeignSeeder ---------------------------
(***************************************************************************)
(* The downloader of bt/src/peer_download.rs on a connection to a peer of  *)
(* another program: one that has the whole file (perhaps a damaged copy)   *)
(* and follows the BitTorrent protocol, but does not write the messages of *)
(* handle_peer in the order of handle_peer.                                *)
(*                                                                         *)
(* The downloader is that of module PeerSession, with what its receiving   *)
(* functions do to the items this project's uploader never sends.  The     *)
(* seeder is not code of this repository: its actions are what the         *)
(* protocol lets it do.                                                    *)
(***************************************************************************)
EXTENDS Integers, Sequences

CONSTANTS
  FileLength, PieceLength, BlockMaxSize, MaxConsecutiveTimeouts,
  Corrupt, NoPiece,   \* all of PeerSession
  Habits,     \* which of the protocol's liberties a seeder may take: sets of them
  MaxExtras   \* bound: how many messages it sends that nobody asked for

Liberties == {"keepalive", "have", "choke", "binary id", "no bitfield"}

ASSUME HabitsAssumption == Habits \subseteq SUBSET Liberties
ASSUME MaxExtrasAssumption == MaxExtras \in Nat

VARIABLES down, job, begin, piece, up, timeouts, toUp, toDown, link, disk
VARIABLES
  habits,      \* the liberties that the seeder takes
  choking,     \* the seeder's am_choking
  interested,  \* and peer_interested
  extras       \* how many messages of its own accord it has sent

S == INSTANCE PeerSession

ASSUME SessionAssumption ==
  /\ FileLength \in Nat /\ PieceLength \in Nat \ {0}
  /\ BlockMaxSize \in Nat \ {0} /\ MaxConsecutiveTimeouts \in Nat \ {0}
  /\ NoPiece \notin S!Piece

downVars == <<down, job, begin, piece>>
seederVars == <<up, habits, choking, interested, extras>>
vars == <<downVars, seederVars, timeouts, toUp, toDown, link, disk>>

KeepAlive == [type |-> "keepalive"]
Have == [type |-> "have"]
Choke == [type |-> "choke"]
BinaryHandshake == [type |-> "binary handshake"]

(* Nobody but the seeder writes its copy of the file.                      *)
Init ==
  /\ down = "connect" /\ job = NoPiece /\ begin = 0 /\ piece = <<>>
  /\ up = "accept" /\ timeouts = 0
  /\ toUp = <<>> /\ toDown = <<>>
  /\ link = "up"
  /\ disk \in {S!Original} \cup
       {[S!Original EXCEPT ![k] = Corrupt] : k \in 1 .. FileLength}
  /\ habits \in Habits
  /\ choking = TRUE /\ interested = FALSE /\ extras = 0
-----------------------------------------------------------------------------
(* The downloader: what its receives do with the items that are new here.  *)

Receives(item) == S!Receive /\ Head(toDown) = item

\* Mutants: a size of 0 is taken for a message; or the one after it is lost.
MSkipOnce ==
  /\ down \in {"bitfield", "unchoke", "receive"}
  /\ Receives(KeepAlive)
  /\ down' = "unexpected"
  /\ UNCHANGED <<job, begin, piece, seederVars, timeouts, toUp, link, disk>>
MSkipTwo ==
  /\ down \in {"bitfield", "unchoke", "receive"}
  /\ link = "up" /\ Len(toDown) > 1 /\ Head(toDown) = KeepAlive
  /\ toDown' = Tail(Tail(toDown))
  /\ UNCHANGED <<downVars, seederVars, timeouts, toUp, link, disk>>

(* A keep-alive is a size of 0, and receive_message_size reads on.         *)
SkipKeepAlive ==
  /\ down \in {"bitfield", "unchoke", "receive"}
  /\ Receives(KeepAlive)
  /\ UNCHANGED <<downVars, seederVars, timeouts, toUp, link, disk>>

(* The handshake is refused if the peer id is not UTF-8.                   *)
RejectPeerId ==
  /\ down = "handshake"
  /\ Receives(BinaryHandshake)
  /\ down' = "unexpected"
  /\ UNCHANGED <<job, begin, piece, seederVars, timeouts, toUp, link, disk>>

(* Everything else is a message, and as in PeerSession: a tag of no        *)
(* MessageTag panics, one that is not the expected bails.                  *)
Session ==
  /\ S!Downloader
  /\ toDown # <<>> /\ Head(toDown) \in {KeepAlive, BinaryHandshake} => toDown' = toDown
  /\ UNCHANGED <<habits, choking, interested, extras>>

Downloader == SkipKeepAlive \/ RejectPeerId \/ Session

TakeRequest(i) == S!TakeRequest(i) /\ UNCHANGED <<habits, choking, interested, extras>>
EndStream == S!EndStream /\ UNCHANGED <<habits, choking, interested, extras>>
-----------------------------------------------------------------------------
(* The seeder.  It reads a message, size and body, as a whole.             *)

Sends(item) == toDown' = Append(toDown, item)

Greet ==
  /\ up = "accept" /\ link = "up" /\ toUp # <<>>
  /\ toUp' = Tail(toUp)
  /\ \/ Sends(S!Handshake)
     \/ "binary id" \in habits /\ Sends(BinaryHandshake)
  /\ up' = "greeted"
  /\ UNCHANGED <<downVars, habits, choking, interested, extras, timeouts, link, disk>>

(* The bitfield is the first message.  A seeder may announce its pieces    *)
(* one by one instead, and a peer that has none yet sends nothing.         *)
SendBitfield ==
  /\ up = "greeted"
  /\ up' = "open"
  /\ \/ Sends(S!Bitfield)
     \/ "no bitfield" \in habits /\ UNCHANGED toDown
  /\ UNCHANGED <<downVars, habits, choking, interested, extras, timeouts, toUp, link, disk>>

ReadInterested ==
  /\ up = "open" /\ link = "up" /\ Len(toUp) >= 2 /\ toUp[2] = S!Interested
  /\ toUp' = Tail(Tail(toUp))
  /\ interested' = TRUE
  /\ UNCHANGED <<downVars, up, habits, choking, extras, timeouts, toDown, link, disk>>

SendUnchoke ==
  /\ up = "open" /\ choking /\ interested
  /\ choking' = FALSE
  /\ Sends(S!Unchoke)
  /\ UNCHANGED <<downVars, up, habits, interested, extras, timeouts, toUp, link, disk>>

(* Requests are dropped while the peer is choked, and if they are wrong.   *)
ReadRequest ==
  /\ up = "open" /\ link = "up" /\ Len(toUp) >= 2 /\ toUp[2].type = "request"
  /\ toUp' = Tail(Tail(toUp))
  /\ LET r == toUp[2]
     IN  IF ~choking /\ S!Readable(r)
         THEN Sends(S!PieceOf(r.index, r.begin, S!Block(r)))
         ELSE UNCHANGED toDown
  /\ UNCHANGED <<downVars, seederVars, timeouts, link, disk>>

Extra(habit, item) ==
  /\ up = "open" /\ habit \in habits /\ extras < MaxExtras
  /\ extras' = extras + 1
  /\ Sends(item)

SendKeepAlive ==
  /\ Extra("keepalive", KeepAlive)
  /\ UNCHANGED <<downVars, up, habits, choking, interested, timeouts, toUp, link, disk>>

SendHave ==
  /\ Extra("have", Have)
  /\ UNCHANGED <<downVars, up, habits, choking, interested, timeouts, toUp, link, disk>>

SendChoke ==
  /\ Extra("choke", Choke)
  /\ ~choking /\ choking' = TRUE
  /\ UNCHANGED <<downVars, up, habits, interested, timeouts, toUp, link, disk>>

Leave ==
  /\ up \in {"accept", "greeted", "open"}
  /\ up' = "closed"
  /\ UNCHANGED <<downVars, habits, choking, interested, extras, timeouts, toUp, toDown, link, disk>>

(* What it owes the downloader.  Unchoking is not of it: a seeder unchokes *)
(* whom it likes, when it likes.                                           *)
Serve == Greet \/ SendBitfield \/ ReadInterested \/ ReadRequest

BreakLink == S!BreakLink /\ UNCHANGED <<habits, choking, interested, extras>>

Next ==
  \/ SkipKeepAlive
  \/ RejectPeerId
  \/ Session
  \/ \E i \in S!Piece : TakeRequest(i)
  \/ EndStream
  \/ Greet
  \/ SendBitfield
  \/ ReadInterested
  \/ SendUnchoke
  \/ ReadRequest
  \/ SendKeepAlive
  \/ SendHave
  \/ SendChoke
  \/ Leave
  \/ BreakLink

Spec == Init /\ [][Next]_vars

(* The downloader's task runs, and the seeder greets it, reads what it is  *)
(* sent and serves a peer that it has unchoked; it need not unchoke it nor *)
(* send anything else, and may leave.                                      *)
FairSpec == Spec /\ WF_vars(Downloader) /\ WF_vars(Serve)
-----------------------------------------------------------------------------
Item == {S!Handshake, BinaryHandshake, S!Bitfield, S!Unchoke, KeepAlive, Have, Choke}

TypeOK ==
  /\ down \in S!Connecting \cup S!Fetching
               \cup {"ready", "ended", "failed", "mismatch", "unexpected"}
  /\ job \in S!Piece \cup {NoPiece}
  /\ begin \in 0 .. PieceLength
  /\ piece \in Seq(S!Byte)
  /\ up \in {"accept", "greeted", "open", "closed"}
  /\ toUp \in Seq({S!Handshake, S!Size, S!Interested} \cup S!Request)
  /\ toDown \in Seq(Item \cup S!Answer)
  /\ link \in {"up", "reset", "silent"}
  /\ habits \in Habits
  /\ choking \in BOOLEAN /\ interested \in BOOLEAN
  /\ extras \in 0 .. MaxExtras

(* Whoever is at the other end and whatever it sends, the connection is a  *)
(* stream task as the download relies on it: a piece that is returned has  *)
(* the bytes the torrent was made of.                                      *)
TaskSpec == S!TaskSpec

(* A seeder that adds nothing but keep-alives, between any two messages,   *)
(* never makes the downloader bail or panic: skipping them neither cuts    *)
(* nor loses a message.  (Have, Choke or a binary peer id do make it.)     *)
NoUnexpectedMessage == habits \subseteq {"keepalive"} => down # "unexpected"

(* None of the downloader's waits but the first has a timeout.  The list   *)
(* of those that may last forever is complete: the network died without a  *)
(* sign, the bitfield is awaited of a peer that need not send one, or the  *)
(* Unchoke of one that goes on choking.  It waits for nothing that already *)
(* came, and for no block of a request that the seeder has to serve.       *)
EndlessWaits ==
  <>[](down # "ready" /\ ~S!DownGone)
    => <>[](\/ link = "silent"
            \/ down = "bitfield" /\ "no bitfield" \in habits
            \/ down = "unchoke" /\ choking)
=============================================================================
