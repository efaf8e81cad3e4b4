-------------------------------- MODULE Swarm --------------------------------
(***************************************************************************)
(* The two commands of bt/src/main.rs at work on one tracker: `upload'     *)
(* processes that register and then listen, and one `download' that asks   *)
(* for the peers of a file, connects to each of them in turn and then      *)
(* fetches the pieces from all of them.                                    *)
(*                                                                         *)
(* The tracker is module Tracker, with the commands as its clients, and    *)
(* the parallel download is module PieceDownload, with a stream task for   *)
(* each connection.  What a fetch returns depends on the other end of the  *)
(* connection: nothing compares info hashes in a handshake, so that may be *)
(* an uploader of another file; the file may have been edited since it was *)
(* hashed; and the uploader may have closed the connection.                *)
(***************************************************************************)
EXTENDS Integers, Sequences, Functions

CONSTANTS
  Uploader,    \* places where somebody runs `bt upload'
  Downloader,  \* the process that runs `bt download'
  File,        \* the files, with a torrent each
  Wanted,      \* the file of the torrent that is downloaded
  Addr,        \* an address for each port the uploaders use
  MaxUploads,  \* bound: how often `bt upload' is run
  MaxFaults,   \* bound: how often such a run is ended, or its file edited
  PieceCount, Corrupt, NoPiece, Untouched,   \* of PieceDownload
  BadAddr, NoName                            \* of Tracker

ASSUME DownloaderAssumption == Downloader \notin Uploader
ASSUME WantedAssumption == Wanted \in File
ASSUME BoundsAssumption == MaxUploads \in Nat /\ MaxFaults \in Nat
ASSUME TrackerAssumption == BadAddr \notin Addr /\ NoName \notin File

VARIABLES
  up,       \* what an upload process does
  faults,   \* how many of them were ended, or had their file edited
  right,    \* whether the file it serves has the bytes of Wanted
  phase,    \* where the download command is
  todo,     \* the peers it has not connected to yet
  stream    \* its connections

VARIABLES listing, peers, poisoned, pc, req, reply, posts, acked, since
VARIABLES spawned, sending, input, worker, job, output, collected, main, file

trackerVars == <<listing, peers, poisoned, pc, req, reply, posts, acked, since>>
pieceVars == <<spawned, sending, input, worker, job, output, collected, main, file>>
uploadVars == <<up, faults, right>>
downloadVars == <<phase, todo, stream>>
vars == <<uploadVars, downloadVars, trackerVars, pieceVars>>

T == INSTANCE Tracker WITH
       Client <- Uploader \cup {Downloader}, InfoHash <- File, FileName <- File,
       MaxPosts <- MaxUploads

(* A registration is answered with one address, and there are no more      *)
(* streams than addresses.                                                 *)
D == INSTANCE PieceDownload WITH Worker <- 1 .. MaxUploads

ASSUME PiecesAssumption ==
  /\ PieceCount \in Nat
  /\ Corrupt \notin D!Piece /\ NoPiece \notin D!Piece
  /\ Untouched \notin Seq(D!Bytes)

(* What an upload process registered: its file, and where it listens.      *)
FileOf(u) == req[u].hash
AddrOf(u) == req[u].addr
ListensOn(u, a) == up[u] = "listening" /\ AddrOf(u) = a
Available(a) == \E u \in Uploader : ListensOn(u, a) /\ right[u]

(* A connection: to whom, whether the file at the other end has the bytes  *)
(* of Wanted, whether that end still answers, and the piece it had sent in *)
(* full, but the downloader not yet read, when it closed.                  *)
Stream == DOMAIN stream
Connected(u) == [from |-> u, right |-> right[u], open |-> TRUE, sent |-> NoPiece]
Closed(w, whole) ==
  [stream[w] EXCEPT !.open = FALSE,
                    !.sent = IF whole /\ worker[w] = "fetch" THEN job[w] ELSE NoPiece]
Answer == reply[Downloader]

Init ==
  /\ T!Init /\ D!Init
  /\ up = [u \in Uploader |-> "off"]
  /\ faults = 0
  /\ right = [u \in Uploader |-> FALSE]
  /\ phase = "off" /\ todo = <<>> /\ stream = <<>>
-----------------------------------------------------------------------------
(* upload: register, then bind and listen.                                 *)

\* Mutant: the listener is started without waiting for the tracker's answer.
MStart(u, f, a) ==
  /\ up[u] = "off"
  /\ T!Arrive(u, [op |-> "register", name |-> f, hash |-> f, addr |-> a])
  /\ up' = [up EXCEPT ![u] = "bind"]
  /\ right' = [right EXCEPT ![u] = f = Wanted]
  /\ UNCHANGED <<faults, downloadVars, pieceVars>>

Start(u, f, a) ==
  /\ up[u] = "off"
  /\ T!Arrive(u, [op |-> "register", name |-> f, hash |-> f, addr |-> a])
  /\ up' = [up EXCEPT ![u] = "register"]
  /\ right' = [right EXCEPT ![u] = f = Wanted]
  /\ UNCHANGED <<faults, downloadVars, pieceVars>>

Registered(u) ==
  /\ up[u] = "register" /\ pc[u] = "idle"
  /\ up' = [up EXCEPT ![u] = IF reply[u].status = 204 THEN "bind" ELSE "off"]
  /\ UNCHANGED <<faults, right, downloadVars, trackerVars, pieceVars>>

(* The command fails if the port is in use.                                *)
Bind(u) ==
  /\ up[u] = "bind"
  /\ up' = [up EXCEPT ![u] =
              IF \E v \in Uploader : ListensOn(v, AddrOf(u)) THEN "off" ELSE "listening"]
  /\ UNCHANGED <<faults, right, downloadVars, trackerVars, pieceVars>>

(* The process is killed, its request fails, or accept fails and the loop  *)
(* of `upload' ends; its connections end with it, its registration stays.  *)
Crash(u) ==
  /\ up[u] # "off" /\ faults < MaxFaults
  /\ faults' = faults + 1
  /\ up' = [up EXCEPT ![u] = "off"]
  /\ \E whole \in SUBSET Stream :
       stream' = [w \in Stream |-> IF stream[w].from = u /\ stream[w].open
                                  THEN Closed(w, w \in whole) ELSE stream[w]]
  /\ UNCHANGED <<right, phase, todo, trackerVars, pieceVars>>

(* The wanted file is edited or cut short after it was hashed.  It is      *)
(* opened again for each block, so open connections meet the change too.   *)
EditFile(u) ==
  /\ up[u] # "off" /\ right[u] /\ faults < MaxFaults
  /\ faults' = faults + 1
  /\ right' = [right EXCEPT ![u] = FALSE]
  /\ stream' = [w \in Stream |-> IF stream[w].from = u /\ stream[w].open
                                 THEN [stream[w] EXCEPT !.right = FALSE] ELSE stream[w]]
  /\ UNCHANGED <<up, phase, todo, trackerVars, pieceVars>>

Upload(u) == Registered(u) \/ Bind(u)
-----------------------------------------------------------------------------
(* download: announce, connect to one peer after the other, fetch.         *)

Announce ==
  /\ phase = "off"
  /\ T!Arrive(Downloader, [op |-> "lookup", hash |-> Wanted])
  /\ phase' = "announce"
  /\ UNCHANGED <<uploadVars, todo, stream, pieceVars>>

TakeAnswer ==
  /\ phase = "announce" /\ pc[Downloader] = "idle"
  /\ IF Answer.status = 200
     THEN phase' = "connect" /\ todo' = Answer.peers
     ELSE phase' = "failed" /\ UNCHANGED todo
  /\ UNCHANGED <<uploadVars, stream, trackerVars, pieceVars>>

\* Mutant: the peer is not taken off the list.
MConnectPeer ==
  /\ phase = "connect" /\ todo # <<>>
  /\ \E u \in Uploader :
       /\ ListensOn(u, Head(todo))
       /\ stream' = Append(stream, Connected(u))
  /\ UNCHANGED <<uploadVars, phase, todo, trackerVars, pieceVars>>

(* init_peer, up to the Unchoke.                                           *)
ConnectPeer ==
  /\ phase = "connect" /\ todo # <<>>
  /\ \E u \in Uploader :
       /\ ListensOn(u, Head(todo))
       /\ stream' = Append(stream, Connected(u))
  /\ todo' = Tail(todo)
  /\ UNCHANGED <<uploadVars, phase, trackerVars, pieceVars>>

(* The first peer that cannot be reached ends the command; so does one     *)
(* with which the handshake takes too long, at either end.                 *)
ConnectFails ==
  /\ phase = "connect" /\ todo # <<>>
  /\ \A u \in Uploader : ~ListensOn(u, Head(todo))
  /\ phase' = "failed"
  /\ stream' = [w \in Stream |-> Closed(w, FALSE)]
  /\ UNCHANGED <<uploadVars, todo, trackerVars, pieceVars>>

HandshakeTimesOut ==
  /\ phase = "connect" /\ todo # <<>>
  /\ \E u \in Uploader : ListensOn(u, Head(todo))
  /\ phase' = "timeout"
  /\ stream' = [w \in Stream |-> Closed(w, FALSE)]
  /\ UNCHANGED <<uploadVars, todo, trackerVars, pieceVars>>

StartDownload ==
  /\ phase = "connect" /\ todo = <<>>
  /\ phase' = "download"
  /\ UNCHANGED <<uploadVars, todo, stream, trackerVars, pieceVars>>

Command == TakeAnswer \/ ConnectPeer \/ ConnectFails \/ StartDownload
-----------------------------------------------------------------------------
(* The download itself: PieceDownload, with the fetches decided by the     *)
(* connections.                                                            *)

Fetches(step) ==
  /\ phase = "download"
  /\ step
  /\ UNCHANGED <<uploadVars, downloadVars, trackerVars>>

Broken(w) == ~stream[w].open \/ ~stream[w].right

(* A file that was edited, or another one, has the bytes of this piece, or *)
(* other bytes, or too few: read_exact fails then and the uploader closes  *)
(* the connection.  A closed connection brings nothing but the piece that  *)
(* had been sent.                                                          *)
Fetch(w) ==
  /\ phase = "download"
  /\ \/ /\ stream[w].open \/ stream[w].sent = job[w]
        /\ \E bytes \in {job[w]} \cup (IF stream[w].right THEN {} ELSE {Corrupt}) :
             D!FinishPiece(w, bytes)
     \/ Broken(w) /\ D!FailFetch(w)
  /\ stream' = [stream EXCEPT ![w].sent = NoPiece]
  /\ UNCHANGED <<uploadVars, phase, todo, trackerVars>>

(* The uploader leaves its loop: too many timeouts in a row, for want of a *)
(* request or in the middle of one, or a panic on the rest of a request    *)
(* that a timeout has cut.                                                 *)
IdleClose(w) ==
  /\ stream[w].open
  /\ phase \in {"connect", "download"} /\ ~D!Returned
  /\ worker[w] \in {"receive", "fetch"}
  /\ \E whole \in BOOLEAN : stream' = [stream EXCEPT ![w] = Closed(w, whole)]
  /\ UNCHANGED <<uploadVars, phase, todo, trackerVars, pieceVars>>

Track(c) == T!Handle(c) /\ UNCHANGED <<uploadVars, downloadVars, pieceVars>>

Next ==
  \/ \E u \in Uploader, f \in File, a \in Addr : Start(u, f, a)
  \/ \E u \in Uploader : Registered(u)
  \/ \E u \in Uploader : Bind(u)
  \/ \E u \in Uploader : Crash(u)
  \/ \E u \in Uploader : EditFile(u)
  \/ Announce
  \/ TakeAnswer
  \/ ConnectPeer
  \/ ConnectFails
  \/ HandshakeTimesOut
  \/ StartDownload
  \/ Fetches(D!Caller)
  \/ Fetches(\E p \in D!Piece : D!Send(p))
  \/ \E w \in Stream : Fetches(D!TakeRequest(w))
  \/ \E w \in Stream : Fetch(w)
  \/ \E w \in Stream : Fetches(D!EndWorker(w))
  \/ \E w \in Stream : IdleClose(w)
  \/ \E c \in Uploader \cup {Downloader} : Track(c)

Spec == Init /\ [][Next]_vars

(* As long as a task of the download command can run, one does, and a      *)
(* fetch ends.  Nobody has to start or end an upload, to edit a file or to *)
(* be late.                                                                *)
Download ==
  \/ Fetches(D!Caller)
  \/ Fetches(\E p \in D!Piece : D!Send(p))
  \/ \E w \in Stream : Fetches(D!TakeRequest(w)) \/ Fetch(w)

FairSpec == Spec /\ WF_vars(Command \/ Download)
-----------------------------------------------------------------------------
TypeOK ==
  /\ T!TypeOK /\ D!TypeOK
  /\ up \in [Uploader -> {"off", "register", "bind", "listening"}]
  /\ faults \in 0 .. MaxFaults
  /\ right \in [Uploader -> BOOLEAN]
  /\ phase \in {"off", "announce", "connect", "failed", "timeout", "download"}
  /\ todo \in Seq(Addr)
  /\ stream \in Seq([from : Uploader, right : BOOLEAN, open : BOOLEAN,
                      sent : D!Piece \cup {NoPiece}])
  /\ Len(stream) + Len(todo) <= MaxUploads

(* Whoever listens is known: since `upload' registers before it binds, the *)
(* tracker lists the file and the address of every process that accepts    *)
(* connections, and no two of them share an address.                       *)
ListenersAreListed ==
  \A u \in Uploader : up[u] = "listening" =>
    /\ listing[FileOf(u)] # NoName /\ AddrOf(u) \in Range(peers[FileOf(u)])
    /\ \A v \in Uploader \ {u} : ~ListensOn(v, AddrOf(u))

(* The command does not get stuck by itself: if it waits forever, there is *)
(* a connection that the other side closed, or with another file or one    *)
(* that was edited at the other end, and a piece was lost there; or there  *)
(* is no piece to wait for.  (The tracker never answers with an empty      *)
(* list, and the queue is never left unattended.)                          *)
StuckOnlyByABadStream ==
  ( /\ phase = "download" /\ main = "collect" /\ output = <<>> /\ sending = {}
    /\ \A w \in Stream : \/ worker[w] \in {"failed", "ended"}
                         \/ worker[w] = "receive" /\ input = <<>> )
  => \/ \E w \in Stream : worker[w] = "failed" /\ Broken(w) /\ job[w] \notin Range(collected)
     \/ PieceCount = 0

(* The whole command implements FileFetch: whoever answers on the          *)
(* addresses the tracker gave out, bytes of another file never get into    *)
(* the output, and it is not touched before the file is complete.          *)
CommandFetchesTheFile == D!FetchSpec

(* If every peer of the answer is available and stays so, with its file as *)
(* it was hashed and the connections open, the command ends: it does not   *)
(* hang, and it fails only in a handshake that takes too long or when it   *)
(* writes the output.                                                      *)
Healthy ==
  /\ \A a \in Range(todo) : Available(a)
  /\ \A w \in Stream : ~Broken(w)

HealthySwarmDelivers ==
  phase = "connect" /\ Healthy
    ~> \/ phase = "download" /\ D!Returned
       \/ phase = "timeout"
       \/ ~Healthy

(* README.md:73: "The client initiates the BitTorrent protocol with the    *)
(* available peers in parallel": a peer that cannot be reached does not    *)
(* end the command while another one of the answer is available.           *)
UsesAvailablePeers ==
  phase = "failed" => \A a \in Range(Answer.peers) : ~Available(a)
=============================================================================
