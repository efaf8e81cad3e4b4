----------------------------- MODULE Swarm_proofs -----------------------------
(* Theorems about Swarm, for any number of uploaders, files, addresses and *)
(* pieces.  The tracker and the parallel download keep the invariants of   *)
(* their own proofs: every step of the commands is one of theirs or leaves *)
(* them alone.                                                             *)
EXTENDS Swarm, FiniteSetTheorems, SequenceTheorems, TLAPS

TP == INSTANCE Tracker_proofs WITH
        Client <- Uploader \cup {Downloader}, InfoHash <- File, FileName <- File,
        MaxPosts <- MaxUploads

DP == INSTANCE PieceDownload_proofs WITH Worker <- 1 .. MaxUploads

LEMMA Sizes ==
  /\ BadAddr \notin Addr /\ NoName \notin File /\ MaxUploads \in Nat
  /\ PieceCount \in Nat /\ IsFiniteSet(1 .. MaxUploads)
  /\ Corrupt \notin DP!Piece /\ NoPiece \notin DP!Piece
  /\ Untouched \notin Seq(DP!Bytes)
BY BoundsAssumption, TrackerAssumption, PiecesAssumption, FS_Interval
   DEF D!Piece, DP!Piece, D!Bytes, DP!Bytes
-----------------------------------------------------------------------------
(* The inductive invariant.                                                *)

Connection == [from : Uploader, right : BOOLEAN, open : BOOLEAN,
               sent : D!Piece \cup {NoPiece}]
Phase == {"off", "announce", "connect", "failed", "timeout", "download"}

OwnTypes ==
  /\ up \in [Uploader -> {"off", "register", "bind", "listening"}]
  /\ faults \in 0 .. MaxFaults
  /\ right \in [Uploader -> BOOLEAN]
  /\ phase \in Phase
  /\ todo \in Seq(Addr)
  /\ stream \in Seq(Connection)
  /\ Len(stream) + Len(todo) <= MaxUploads

(* A lookup is never answered with more addresses than there were          *)
(* registrations: each of them adds one address to one file, once.         *)
Pending == {u \in Uploader : pc[u] # "idle"}

Budget ==
  /\ IsFiniteSet(Pending)
  /\ \A h \in File : Len(peers[h]) + Cardinality(Pending) <= posts
  /\ \A c \in Uploader \cup {Downloader} : Len(reply[c].peers) <= posts

(* What an upload process does is what it registered, and past the answer  *)
(* of the tracker its address is in the peers db.                          *)
Registers(u) == req[u] \in TP!Registration /\ AddrOf(u) \in Addr

Accepted(u) ==
  \/ up[u] \in {"bind", "listening"}
  \/ up[u] = "register" /\ pc[u] = "idle" /\ reply[u].status = 204

UploadInv ==
  \A u \in Uploader :
    /\ pc[u] # "idle" \/ up[u] # "off" => Registers(u)
    /\ pc[u] # "idle" => up[u] \in {"off", "register"}
    /\ Accepted(u) => AddrOf(u) \in Range(peers[FileOf(u)])

PortsInv ==
  \A u, v \in Uploader : up[u] = "listening" /\ ListensOn(v, AddrOf(u)) => u = v

(* The download command asks once, is never sent an empty list, and        *)
(* fetches when it has connected to all of the list.                       *)
CommandInv ==
  /\ req[Downloader].op = IF phase = "off" THEN "files" ELSE "lookup"
  /\ req[Downloader].op = "lookup" =>
       /\ req[Downloader].hash = Wanted
       /\ pc[Downloader] = "idle" /\ Answer.status = 200 => Answer.peers # <<>>
  /\ phase \in {"off", "announce"} => stream = <<>> /\ todo = <<>>
  /\ phase = "connect" => stream # <<>> \/ todo # <<>>
  /\ phase = "download" => stream # <<>> /\ todo = <<>>

(* Only the tasks of the connections work, and only while the download     *)
(* runs; a task that failed has a bad connection.                          *)
FetchInv ==
  \A w \in 1 .. MaxUploads :
    /\ worker[w] # "receive" => phase = "download" /\ w \in Stream
    /\ worker[w] = "failed" => Broken(w)

IInv == /\ TP!IInv /\ DP!IInv
        /\ OwnTypes /\ Budget /\ UploadInv /\ PortsInv /\ CommandInv /\ FetchInv
-----------------------------------------------------------------------------
(* The commands as clients of the tracker.                                 *)

RegisterOf(f, a) == [op |-> "register", name |-> f, hash |-> f, addr |-> a]
LookupOfWanted == [op |-> "lookup", hash |-> Wanted]

LEMMA Requests ==
  /\ \A f \in File, a \in Addr : /\ RegisterOf(f, a) \in TP!Registration
                                 /\ RegisterOf(f, a) \in TP!Request
  /\ LookupOfWanted \in TP!Request
<1>1. ASSUME NEW f \in File, NEW a \in Addr PROVE RegisterOf(f, a) \in TP!Registration
  BY DEF RegisterOf, TP!Registration
<1>2. LookupOfWanted \in TP!Lookup
  BY WantedAssumption DEF LookupOfWanted, TP!Lookup
<1> QED BY <1>1, <1>2 DEF TP!Request

(* The tracker of Swarm is the one that Tracker_proofs speaks of.          *)
LEMMA SameTracker ==
  /\ T!Init => TP!Init
  /\ \A c, r : T!Arrive(c, r) => TP!Arrive(c, r)
  /\ \A c : T!Handle(c) => TP!Handle(c)
  /\ TP!TypeOK => T!TypeOK
<1>1. T!Init => TP!Init
  BY DEF T!Init, TP!Init
<1>2. ASSUME NEW c, NEW r, T!Arrive(c, r) PROVE TP!Arrive(c, r)
  BY <1>2 DEF T!Arrive, TP!Arrive
<1>3. ASSUME NEW c, T!Handle(c) PROVE TP!Handle(c)
  <2> USE DEF T!Answer, TP!Answer
  <2>1. T!RejectBody(c) => TP!RejectBody(c)
    BY DEF T!RejectBody, TP!RejectBody
  <2>2. T!AddFile(c) => TP!AddFile(c)
    BY DEF T!AddFile, TP!AddFile, T!Listed, TP!Listed
  <2>3. T!PushPeer(c) => TP!PushPeer(c)
    BY DEF T!PushPeer, TP!PushPeer
  <2>4. T!PanicOnAddress(c) => TP!PanicOnAddress(c)
    BY DEF T!PanicOnAddress, TP!PanicOnAddress
  <2>5. T!RefusePoisoned(c) => TP!RefusePoisoned(c)
    BY DEF T!RefusePoisoned, TP!RefusePoisoned
  <2>6. T!AnswerLookup(c) => TP!AnswerLookup(c)
    BY DEF T!AnswerLookup, TP!AnswerLookup
  <2>7. T!ListFiles(c) => TP!ListFiles(c)
    BY DEF T!ListFiles, TP!ListFiles, T!Range, TP!Range
  <2> QED BY <1>3, <2>1, <2>2, <2>3, <2>4, <2>5, <2>6, <2>7 DEF T!Handle, TP!Handle
<1>4. TP!TypeOK => T!TypeOK
  BY DEF T!TypeOK, TP!TypeOK, T!Request, TP!Request, T!Registration, TP!Registration,
     T!Lookup, TP!Lookup, T!Response, TP!Response
<1> QED BY <1>1, <1>2, <1>3, <1>4

(* The steps of the commands that the tracker takes part in.               *)
Tracked == \/ \E u \in Uploader, f \in File, a \in Addr : Start(u, f, a)
           \/ Announce
           \/ \E c \in Uploader \cup {Downloader} : Track(c)

LEMMA OthersLeaveTheTracker ==
  ASSUME Next PROVE Tracked \/ UNCHANGED trackerVars
BY DEF Next, Tracked, Registered, Bind, Crash, EditFile, TakeAnswer, ConnectPeer,
   ConnectFails, HandshakeTimesOut, StartDownload, Fetches, Fetch, IdleClose

LEMMA TrackerStep ==
  ASSUME [Next]_vars PROVE [TP!Next]_(TP!vars)
<1>1. CASE UNCHANGED trackerVars
  BY <1>1 DEF trackerVars, TP!vars
<1>2. ASSUME NEW u \in Uploader, NEW f \in File, NEW a \in Addr, Start(u, f, a)
      PROVE  TP!Next
  <2>1. TP!Arrive(u, RegisterOf(f, a))
    BY <1>2, SameTracker DEF Start, RegisterOf
  <2> QED BY <2>1, Requests DEF TP!Next
<1>3. ASSUME Announce PROVE TP!Next
  <2>1. TP!Arrive(Downloader, LookupOfWanted)
    BY <1>3, SameTracker DEF Announce, LookupOfWanted
  <2> QED BY <2>1, Requests DEF TP!Next
<1>4. ASSUME NEW c \in Uploader \cup {Downloader}, Track(c) PROVE TP!Next
  BY <1>4, SameTracker DEF Track, TP!Next
<1>5. CASE UNCHANGED vars
  BY <1>1, <1>5 DEF vars
<1> QED BY <1>1, <1>2, <1>3, <1>4, <1>5, OthersLeaveTheTracker DEF Tracked

LEMMA TrackerKept == TP!IInv /\ [Next]_vars => TP!IInv'
BY TrackerStep, Sizes, TP!NextIInv
-----------------------------------------------------------------------------
(* The command's download as PieceDownload.                                *)

(* There is a stream task for every connection.                            *)
LEMMA StreamsAreWorkers ==
  ASSUME OwnTypes
  PROVE  /\ Len(stream) \in Nat /\ Len(todo) \in Nat
         /\ Stream = 1 .. Len(stream) /\ Stream \subseteq 1 .. MaxUploads
         /\ \A w \in Stream : stream[w] \in Connection
<1>1. Len(stream) \in Nat /\ Len(todo) \in Nat /\ Stream = 1 .. Len(stream)
  BY LenProperties DEF OwnTypes, Stream
<1>2. Stream \subseteq 1 .. MaxUploads
  BY <1>1, Sizes DEF OwnTypes
<1>3. \A w \in Stream : stream[w] \in Connection
  BY <1>1, ElementOfSeq DEF OwnTypes
<1> QED BY <1>1, <1>2, <1>3

LEMMA SameDownload ==
  /\ D!Init => DP!Init
  /\ D!Caller => DP!Next
  /\ \A p \in D!Piece : D!Send(p) => DP!Next
  /\ \A w \in 1 .. MaxUploads :
       /\ D!TakeRequest(w) \/ D!FailFetch(w) \/ D!EndWorker(w) => DP!Next
       /\ \A bytes \in DP!Bytes : D!FinishPiece(w, bytes) => DP!Next
  /\ DP!TypeOK => D!TypeOK
<1> USE DEF D!taskVars, DP!taskVars, D!fileVars, DP!fileVars
<1>1. D!Init => DP!Init
  BY DEF D!Init, DP!Init
<1>2. ASSUME D!Caller PROVE DP!Next
  <2>1. D!SpawnSender => DP!SpawnSender
    BY DEF D!SpawnSender, DP!SpawnSender
  <2>2. D!StartCollecting => DP!StartCollecting
    BY DEF D!StartCollecting, DP!StartCollecting
  <2>3. D!Collect => DP!Collect
    BY DEF D!Collect, DP!Collect, D!CollectUpTo, DP!CollectUpTo
  <2>4. D!MakeDirectory => DP!MakeDirectory
    BY DEF D!MakeDirectory, DP!MakeDirectory
  <2>5. D!CreateFile => DP!CreateFile
    BY DEF D!CreateFile, DP!CreateFile
  <2>6. D!WriteFile => DP!WriteFile
    BY DEF D!WriteFile, DP!WriteFile
  <2> QED BY <1>2, <2>1, <2>2, <2>3, <2>4, <2>5, <2>6 DEF D!Caller, DP!Next
<1>3. ASSUME NEW p \in D!Piece, D!Send(p) PROVE DP!Next
  <2>1. p \in DP!Piece
    BY DEF D!Piece, DP!Piece
  <2>2. DP!Send(p)
    BY <1>3 DEF D!Send, DP!Send
  <2> QED BY <2>1, <2>2 DEF DP!Next
<1>4. ASSUME NEW w \in 1 .. MaxUploads, D!TakeRequest(w) \/ D!FailFetch(w) \/ D!EndWorker(w)
      PROVE  DP!Next
  <2>1. D!TakeRequest(w) => DP!TakeRequest(w)
    BY DEF D!TakeRequest, DP!TakeRequest
  <2>2. D!FailFetch(w) => DP!FailFetch(w)
    BY DEF D!FailFetch, DP!FailFetch
  <2>3. D!EndWorker(w) => DP!EndWorker(w)
    BY DEF D!EndWorker, DP!EndWorker, D!Returned, DP!Returned
  <2> QED BY <1>4, <2>1, <2>2, <2>3 DEF DP!Next
<1>5. ASSUME NEW w \in 1 .. MaxUploads, NEW bytes \in DP!Bytes, D!FinishPiece(w, bytes)
      PROVE  DP!Next
  <2>1. DP!FinishPiece(w, bytes)
    BY <1>5 DEF D!FinishPiece, DP!FinishPiece, D!HashMatches, DP!HashMatches
  <2> QED BY <2>1 DEF DP!Next
<1>6. DP!TypeOK => D!TypeOK
  BY DEF D!TypeOK, DP!TypeOK, D!Piece, DP!Piece, D!Bytes, DP!Bytes
<1> QED BY <1>1, <1>2, <1>3, <1>4, <1>5, <1>6

(* What a fetch brings, and when it ends a task.                           *)
LEMMA FetchResult ==
  ASSUME DP!IInv, OwnTypes, NEW w \in Stream, Fetch(w)
  PROVE  /\ phase = "download" /\ w \in 1 .. MaxUploads /\ DP!Next
         /\ UNCHANGED <<uploadVars, phase, todo, trackerVars>>
         /\ \/ worker' = [worker EXCEPT ![w] = "receive"]
            \/ worker' = [worker EXCEPT ![w] = "failed"] /\ Broken(w)
<1>0. phase = "download" /\ UNCHANGED <<uploadVars, phase, todo, trackerVars>>
  BY DEF Fetch
<1>1. w \in 1 .. MaxUploads
  BY StreamsAreWorkers
<1>2. CASE Broken(w) /\ D!FailFetch(w)
  <2>1. worker' = [worker EXCEPT ![w] = "failed"]
    BY <1>2 DEF D!FailFetch
  <2> QED BY <1>0, <1>1, <1>2, <2>1, SameDownload
<1>3. ASSUME NEW bytes \in {job[w]} \cup (IF stream[w].right THEN {} ELSE {Corrupt}),
             D!FinishPiece(w, bytes)
      PROVE  /\ DP!Next
             /\ \/ worker' = [worker EXCEPT ![w] = "receive"]
                \/ worker' = [worker EXCEPT ![w] = "failed"] /\ Broken(w)
  <2>1. worker[w] = "fetch"
    BY <1>3 DEF D!FinishPiece
  <2>2. job[w] \in DP!Piece
    BY <1>1, <2>1 DEF DP!IInv, DP!TaskInv
  <2>3. bytes \in DP!Bytes /\ (bytes # job[w] => Broken(w))
    BY <1>3, <2>2 DEF DP!Bytes, Broken
  <2>4. \/ worker' = [worker EXCEPT ![w] = "receive"]
        \/ worker' = [worker EXCEPT ![w] = "failed"] /\ bytes # job[w]
    BY <1>3 DEF D!FinishPiece, D!HashMatches
  <2>5. DP!Next
    BY <1>1, <1>3, <2>3, SameDownload
  <2> QED BY <2>3, <2>4, <2>5
<1> QED BY <1>0, <1>1, <1>2, <1>3 DEF Fetch

(* The steps of the download that go on after the connections.             *)
Downloads == \/ Fetches(D!Caller)
             \/ Fetches(\E p \in D!Piece : D!Send(p))
             \/ \E w \in Stream : \/ Fetches(D!TakeRequest(w))
                                  \/ Fetch(w)
                                  \/ Fetches(D!EndWorker(w))

LEMMA OthersLeaveThePieces ==
  ASSUME Next PROVE Downloads \/ UNCHANGED pieceVars
BY DEF Next, Downloads, Start, Announce, Track, Registered, Bind, Crash, EditFile,
   TakeAnswer, ConnectPeer, ConnectFails, HandshakeTimesOut, StartDownload, IdleClose

LEMMA DownloadStep ==
  ASSUME DP!IInv, OwnTypes, [Next]_vars PROVE [DP!Next]_(DP!vars)
<1>1. CASE UNCHANGED pieceVars
  BY <1>1 DEF pieceVars, DP!vars
<1>2. CASE Downloads
  BY <1>2, SameDownload, FetchResult, StreamsAreWorkers DEF Downloads, Fetches
<1>3. CASE UNCHANGED vars
  BY <1>1, <1>3 DEF vars
<1> QED BY <1>1, <1>2, <1>3, OthersLeaveThePieces

LEMMA DownloadKept == DP!IInv /\ OwnTypes /\ [Next]_vars => DP!IInv'
BY DownloadStep, Sizes, DP!NextIInv DEF IsFiniteSet, DP!IsFiniteSet
-----------------------------------------------------------------------------
(* What the commands see of the tracker: a request arrives, and then its   *)
(* file is listed, its address is pushed, or it is answered.               *)

Client == Uploader \cup {Downloader}

ArrivesAs(c, r) ==
  /\ pc[c] = "idle" /\ pc' = [pc EXCEPT ![c] = "arrived"]
  /\ req' = [req EXCEPT ![c] = r]
  /\ UNCHANGED <<listing, peers, reply>>

IsListed(c) ==
  /\ req[c].op = "register" /\ pc' = [pc EXCEPT ![c] = "listed"]
  /\ UNCHANGED <<peers, reply>>

IsPushed(c) ==
  /\ req[c].op = "register" /\ req[c].hash \in File /\ AddrOf(c) \in Addr
  /\ pc' = [pc EXCEPT ![c] = "idle"]
  /\ peers' = [peers EXCEPT ![FileOf(c)] = Append(@, AddrOf(c))]
  /\ reply' = [reply EXCEPT ![c] = [status |-> 204, peers |-> <<>>, files |-> {}]]

IsAnswered(c) ==
  /\ pc' = [pc EXCEPT ![c] = "idle"]
  /\ \A d \in Client \ {c} : reply'[d] = reply[d]
  /\ reply'[c].status # 204
  /\ \/ reply'[c].peers = <<>>
     \/ req[c].hash \in File /\ reply'[c].peers = peers[req[c].hash]
  /\ req[c].op = "lookup" /\ reply'[c].status = 200 => reply'[c].peers # <<>>
  /\ UNCHANGED peers

LEMMA StartArrives ==
  ASSUME NEW u \in Uploader, NEW f \in File, NEW a \in Addr, Start(u, f, a)
  PROVE  /\ ArrivesAs(u, RegisterOf(f, a)) /\ posts' = posts + 1
         /\ up[u] = "off" /\ up' = [up EXCEPT ![u] = "register"]
         /\ UNCHANGED <<faults, downloadVars, pieceVars>>
BY DEF Start, T!Arrive, ArrivesAs, RegisterOf

LEMMA AnnounceArrives ==
  ASSUME Announce
  PROVE  /\ ArrivesAs(Downloader, LookupOfWanted) /\ posts' = posts
         /\ phase = "off" /\ phase' = "announce"
         /\ UNCHANGED <<uploadVars, todo, stream, pieceVars>>
BY DEF Announce, T!Arrive, ArrivesAs, LookupOfWanted

LEMMA TrackHandles ==
  ASSUME TP!IInv, NEW c \in Client, Track(c)
  PROVE  /\ IsListed(c) \/ IsPushed(c) \/ IsAnswered(c)
         /\ pc[c] # "idle"
         /\ UNCHANGED <<req, posts, uploadVars, downloadVars, pieceVars>>
<1>0. TP!TypeOK /\ TP!HandlerInv /\ UNCHANGED <<uploadVars, downloadVars, pieceVars>>
  BY DEF TP!IInv, Track
<1>1. /\ pc \in [Client -> {"idle", "arrived", "listed"}]
      /\ reply \in [Client -> TP!Response] /\ req \in [Client -> TP!Request]
  BY <1>0 DEF TP!TypeOK, Client
<1>2. ASSUME NEW status \in {0, 200, 400, 404, 500}, NEW ps, NEW fs,
             TP!Answer(c, status, ps, fs), UNCHANGED <<req, posts, peers>>,
             \/ ps = <<>>
             \/ req[c].hash \in File /\ ps = peers[req[c].hash],
             req[c].op = "lookup" /\ status = 200 => ps # <<>>
      PROVE  IsAnswered(c)
  <2>1. /\ reply'[c] = [status |-> status, peers |-> ps, files |-> fs]
        /\ \A d \in Client \ {c} : reply'[d] = reply[d]
        /\ pc' = [pc EXCEPT ![c] = "idle"]
    BY <1>1, <1>2 DEF TP!Answer
  <2> QED BY <1>2, <2>1 DEF IsAnswered
<1>3. CASE TP!RejectBody(c)
  <2> DEFINE status == 400
             ps == <<>>
  <2>1. /\ status \in {0, 200, 400, 404, 500} /\ status # 200 /\ ps = <<>>
        /\ TP!Answer(c, status, ps, {})
    BY <1>3 DEF TP!RejectBody
  <2>2. pc[c] # "idle" /\ UNCHANGED <<req, posts, peers>>
    BY <1>3 DEF TP!RejectBody
  <2> HIDE DEF status, ps
  <2> QED BY <1>0, <1>2, <2>1, <2>2
<1>4. CASE TP!AddFile(c)
  BY <1>0, <1>4 DEF TP!AddFile, IsListed
<1>5. CASE TP!PushPeer(c)
  <2>1. req[c] \in TP!Registration
    BY <1>0, <1>5 DEF TP!PushPeer, TP!HandlerInv, Client
  <2> QED BY <1>0, <1>5, <2>1 DEF TP!PushPeer, TP!Answer, TP!Registration, IsPushed, FileOf,
         AddrOf
<1>6. CASE TP!PanicOnAddress(c)
  <2> DEFINE status == 0
             ps == <<>>
  <2>1. /\ status \in {0, 200, 400, 404, 500} /\ status # 200 /\ ps = <<>>
        /\ TP!Answer(c, status, ps, {})
    BY <1>6 DEF TP!PanicOnAddress
  <2>2. pc[c] # "idle" /\ UNCHANGED <<req, posts, peers>>
    BY <1>6 DEF TP!PanicOnAddress
  <2> HIDE DEF status, ps
  <2> QED BY <1>0, <1>2, <2>1, <2>2
<1>7. CASE TP!RefusePoisoned(c)
  <2> DEFINE status == 500
             ps == <<>>
  <2>1. /\ status \in {0, 200, 400, 404, 500} /\ status # 200 /\ ps = <<>>
        /\ TP!Answer(c, status, ps, {})
    BY <1>7 DEF TP!RefusePoisoned
  <2>2. pc[c] # "idle" /\ UNCHANGED <<req, posts, peers>>
    BY <1>7 DEF TP!RefusePoisoned
  <2> HIDE DEF status, ps
  <2> QED BY <1>0, <1>2, <2>1, <2>2
<1>8. CASE TP!AnswerLookup(c)
  <2> DEFINE ps == peers[req[c].hash]
             status == IF ps = <<>> THEN 404 ELSE 200
  <2>1. req[c] \in TP!Lookup
    BY <1>1, <1>8 DEF TP!AnswerLookup, TP!Request, TP!Registration, TP!Lookup
  <2>2. /\ status \in {0, 200, 400, 404, 500} /\ (status = 200 => ps # <<>>)
        /\ req[c].hash \in File /\ ps = peers[req[c].hash]
        /\ TP!Answer(c, status, ps, {})
    BY <1>8, <2>1 DEF TP!AnswerLookup, TP!Lookup
  <2>3. pc[c] # "idle" /\ UNCHANGED <<req, posts, peers>>
    BY <1>8 DEF TP!AnswerLookup
  <2> HIDE DEF status, ps
  <2> QED BY <1>0, <1>2, <2>2, <2>3
<1>9. CASE TP!ListFiles(c)
  <2> DEFINE status == 200
             ps == <<>>
             fs == TP!Range(listing) \ {NoName}
  <2>1. /\ status \in {0, 200, 400, 404, 500} /\ ps = <<>> /\ req[c].op = "files"
        /\ TP!Answer(c, status, ps, fs)
    BY <1>9 DEF TP!ListFiles
  <2>2. pc[c] # "idle" /\ UNCHANGED <<req, posts, peers>>
    BY <1>9 DEF TP!ListFiles
  <2> HIDE DEF status, ps, fs
  <2> QED BY <1>0, <1>2, <2>1, <2>2
<1> QED
  BY <1>3, <1>4, <1>5, <1>6, <1>7, <1>8, <1>9, SameTracker DEF Track, TP!Handle
-----------------------------------------------------------------------------
(* Each part of the invariant is kept.                                     *)

(* The shape of the tracker's state, as the steps below use it.            *)
LEMMA TrackerTypes ==
  ASSUME TP!IInv
  PROVE  /\ pc \in [Client -> {"idle", "arrived", "listed"}]
         /\ peers \in [File -> Seq(Addr)]
         /\ req \in [Client -> TP!Request] /\ reply \in [Client -> TP!Response]
         /\ posts \in Nat /\ posts <= MaxUploads
         /\ \A h \in File : Len(peers[h]) \in Nat
         /\ \A c \in Client : reply[c].peers \in Seq(Addr) /\ Len(reply[c].peers) \in Nat
<1>1. /\ pc \in [Client -> {"idle", "arrived", "listed"}]
      /\ peers \in [File -> Seq(Addr)] /\ posts \in 0 .. MaxUploads
      /\ req \in [Client -> TP!Request] /\ reply \in [Client -> TP!Response]
  BY DEF TP!IInv, TP!TypeOK, Client
<1>2. \A c \in Client : reply[c].peers \in Seq(Addr)
  BY <1>1 DEF TP!Response
<1> QED BY <1>1, <1>2, Sizes, LenProperties

LEMMA BudgetKept ==
  ASSUME TP!IInv, TP!IInv', Budget, CommandInv, [Next]_vars
  PROVE  Budget'
<1> DEFINE n == Cardinality(Pending)
<1>0. /\ IsFiniteSet(Pending) /\ n \in Nat
      /\ \A h \in File : Len(peers[h]) + n <= posts
      /\ \A c \in Client : Len(reply[c].peers) <= posts
  BY FS_CardinalityType DEF Budget, Client
<1>t. /\ pc \in [Client -> {"idle", "arrived", "listed"}]
      /\ peers \in [File -> Seq(Addr)]
      /\ req \in [Client -> TP!Request] /\ reply \in [Client -> TP!Response]
      /\ posts \in Nat
      /\ \A h \in File : Len(peers[h]) \in Nat
  BY TrackerTypes
<1>1. ASSUME UNCHANGED <<pc, peers, reply, posts>> PROVE Budget'
  <2>1. Pending' = Pending
    BY <1>1 DEF Pending
  <2> QED BY <1>1, <2>1 DEF Budget
<1>2. ASSUME NEW u \in Uploader, NEW f \in File, NEW a \in Addr, Start(u, f, a)
      PROVE  Budget'
  <2>1. /\ pc[u] = "idle" /\ pc' = [pc EXCEPT ![u] = "arrived"] /\ posts' = posts + 1
        /\ UNCHANGED <<peers, reply>>
    BY <1>2, StartArrives DEF ArrivesAs
  <2>2. Pending' = Pending \cup {u} /\ u \notin Pending
    BY <1>t, <2>1 DEF Pending, Client
  <2>3. IsFiniteSet(Pending') /\ Cardinality(Pending') = n + 1
    BY <1>0, <2>2, FS_AddElement
  <2>4. \A h \in File : Len(peers'[h]) + Cardinality(Pending') <= posts'
    <3> HIDE DEF n
    <3> QED BY <1>0, <1>t, <2>1, <2>3
  <2>5. \A c \in Client : Len(reply'[c].peers) <= posts'
    BY <1>0, <1>t, <2>1, TrackerTypes
  <2> QED BY <2>3, <2>4, <2>5 DEF Budget, Client
<1>3. ASSUME Announce PROVE Budget'
  <2>1. /\ pc' = [pc EXCEPT ![Downloader] = "arrived"]
        /\ UNCHANGED <<peers, reply, posts>>
    BY <1>3, AnnounceArrives DEF ArrivesAs
  <2>2. Pending' = Pending
    BY <1>t, <2>1, DownloaderAssumption DEF Pending, Client
  <2> QED BY <2>1, <2>2 DEF Budget
<1>4. ASSUME NEW c \in Client, Track(c), IsListed(c) PROVE Budget'
  <2>1. pc[c] # "idle" /\ UNCHANGED <<peers, reply, posts>>
    BY <1>4, TrackHandles DEF IsListed
  <2>2. Pending' = Pending
    BY <1>t, <1>4, <2>1 DEF Pending, Client, IsListed
  <2> QED BY <2>1, <2>2 DEF Budget
<1>5. ASSUME NEW c \in Client, Track(c), IsPushed(c) PROVE Budget'
  <2>1. c \in Uploader /\ pc[c] # "idle" /\ posts' = posts
    <3>1. c # Downloader
      BY <1>5 DEF IsPushed, CommandInv
    <3> QED BY <1>5, <3>1, TrackHandles DEF Client
  <2>2. Pending' = Pending \ {c} /\ c \in Pending
    BY <1>t, <1>5, <2>1 DEF Pending, Client, IsPushed
  <2>3. IsFiniteSet(Pending') /\ Cardinality(Pending') = n - 1
    BY <1>0, <2>2, FS_RemoveElement
  <2>4. ASSUME NEW h \in File PROVE Len(peers'[h]) <= Len(peers[h]) + 1
    <3> DEFINE a == AddrOf(c)
    <3>1. /\ peers' = [peers EXCEPT ![FileOf(c)] = Append(@, a)] /\ a \in Addr
      BY <1>5 DEF IsPushed
    <3> HIDE DEF a
    <3>2. peers[h] \in Seq(Addr) /\ Len(Append(peers[h], a)) = Len(peers[h]) + 1
      BY <1>t, <3>1, AppendProperties
    <3>3. peers'[h] = peers[h] \/ peers'[h] = Append(peers[h], a)
      BY <1>t, <3>1
    <3> QED BY <1>t, <3>2, <3>3
  <2>5. \A h \in File : Len(peers'[h]) + Cardinality(Pending') <= posts'
    <3>1. \A h \in File : Len(peers'[h]) \in Nat
      BY TrackerTypes
    <3> HIDE DEF n
    <3> QED BY <1>0, <1>t, <2>1, <2>3, <2>4, <3>1
  <2>6. \A d \in Client : Len(reply'[d].peers) <= posts'
    <3>1. reply'[c].peers = <<>> /\ \A d \in Client \ {c} : reply'[d] = reply[d]
      BY <1>t, <1>5 DEF IsPushed
    <3> QED BY <1>0, <1>t, <2>1, <3>1, EmptySeq
  <2> QED BY <2>3, <2>5, <2>6 DEF Budget, Client
<1>6. ASSUME NEW c \in Client, Track(c), IsAnswered(c) PROVE Budget'
  <2>1. pc[c] # "idle" /\ posts' = posts /\ peers' = peers
    BY <1>6, TrackHandles DEF IsAnswered
  <2>2. Pending' \in SUBSET Pending
    BY <1>t, <1>6 DEF Pending, Client, IsAnswered
  <2>3. IsFiniteSet(Pending') /\ Cardinality(Pending') \in Nat /\ Cardinality(Pending') <= n
    <3>1. IsFiniteSet(Pending') /\ Cardinality(Pending') <= n
      BY <1>0, <2>2, FS_Subset
    <3> QED BY <3>1, FS_CardinalityType
  <2>4. \A h \in File : Len(peers'[h]) + Cardinality(Pending') <= posts'
    <3> HIDE DEF n
    <3> QED BY <1>0, <1>t, <2>1, <2>3
  <2>5. ASSUME NEW d \in Client PROVE Len(reply'[d].peers) <= posts'
    <3>1. CASE d # c
      BY <1>0, <1>6, <2>1, <3>1 DEF IsAnswered
    <3>2. CASE d = c /\ reply'[c].peers = <<>>
      BY <1>t, <2>1, <3>2, EmptySeq
    <3>3. CASE d = c /\ req[c].hash \in File /\ reply'[c].peers = peers[req[c].hash]
      <4> HIDE DEF n
      <4> QED BY <1>0, <1>t, <2>1, <3>3
    <3> QED BY <1>6, <3>1, <3>2, <3>3 DEF IsAnswered
  <2> QED BY <2>3, <2>4, <2>5 DEF Budget, Client
<1>7. CASE UNCHANGED trackerVars \/ UNCHANGED vars
  BY <1>1, <1>7 DEF trackerVars, vars
<1> QED
  BY <1>2, <1>3, <1>4, <1>5, <1>6, <1>7, TrackHandles, OthersLeaveTheTracker
     DEF Tracked, Client
LEMMA PushAdds ==
  ASSUME NEW q \in Seq(Addr), NEW a \in Addr
  PROVE  Range(Append(q, a)) = Range(q) \cup {a}
BY Sizes, TP!PushKeeps DEF Range, TP!Range

(* The addresses of a file are only added to.                              *)
LEMMA PeersStay ==
  ASSUME TP!IInv, [Next]_vars, NEW h \in File
  PROVE  Range(peers[h]) \subseteq Range(peers'[h])
<1>1. ASSUME NEW c \in Client, IsPushed(c)
      PROVE  /\ Range(peers[h]) \subseteq Range(peers'[h])
             /\ h = FileOf(c) => AddrOf(c) \in Range(peers'[h])
  <2> DEFINE a == AddrOf(c)
  <2>1. /\ peers' = [peers EXCEPT ![FileOf(c)] = Append(@, a)] /\ a \in Addr
    BY <1>1 DEF IsPushed
  <2> HIDE DEF a
  <2>2. peers[h] \in Seq(Addr) /\ peers \in [File -> Seq(Addr)]
    BY TrackerTypes
  <2>3. Range(Append(peers[h], a)) = Range(peers[h]) \cup {a}
    BY <2>1, <2>2, PushAdds
  <2>4. peers'[h] = IF h = FileOf(c) THEN Append(peers[h], a) ELSE peers[h]
    BY <2>1, <2>2
  <2> QED BY <2>3, <2>4 DEF a
<1>2. CASE peers' = peers
  BY <1>2
<1>3. ASSUME Tracked PROVE peers' = peers \/ \E c \in Client : IsPushed(c)
  BY <1>3, StartArrives, AnnounceArrives, TrackHandles
     DEF Tracked, Client, ArrivesAs, IsListed, IsAnswered
<1>4. UNCHANGED trackerVars \/ UNCHANGED vars => peers' = peers
  BY DEF trackerVars, vars
<1> QED BY <1>1, <1>2, <1>3, <1>4, OthersLeaveTheTracker

LEMMA PushedIsThere ==
  ASSUME TP!IInv, NEW c \in Client, IsPushed(c)
  PROVE  AddrOf(c) \in Range(peers'[FileOf(c)])
<1> DEFINE a == AddrOf(c)
           h == FileOf(c)
<1>1. /\ peers' = [peers EXCEPT ![h] = Append(@, a)] /\ a \in Addr /\ h \in File
  BY DEF IsPushed, FileOf
<1> HIDE DEF a, h
<1>2. peers[h] \in Seq(Addr) /\ peers \in [File -> Seq(Addr)]
  BY <1>1, TrackerTypes
<1>3. Range(Append(peers[h], a)) = Range(peers[h]) \cup {a}
  BY <1>1, <1>2, PushAdds
<1>4. peers'[h] = Append(peers[h], a)
  BY <1>1, <1>2
<1> QED BY <1>3, <1>4 DEF a, h

LEMMA UploadKept ==
  ASSUME TP!IInv, OwnTypes, UploadInv, [Next]_vars
  PROVE  UploadInv'
<1>t. /\ pc \in [Client -> {"idle", "arrived", "listed"}]
      /\ req \in [Client -> TP!Request] /\ reply \in [Client -> TP!Response]
      /\ up \in [Uploader -> {"off", "register", "bind", "listening"}]
      /\ Uploader \subseteq Client
  BY TrackerTypes DEF OwnTypes, Client
<1>p. \A h \in File : Range(peers[h]) \subseteq Range(peers'[h])
  BY PeersStay
<1>f. \A v \in Uploader : Registers(v) => FileOf(v) \in File
  BY DEF Registers, TP!Registration, FileOf
<1>i. \A v \in Uploader : /\ pc[v] # "idle" \/ up[v] # "off" => Registers(v)
                          /\ pc[v] # "idle" => up[v] \in {"off", "register"}
                          /\ Accepted(v) => AddrOf(v) \in Range(peers[FileOf(v)])
  BY DEF UploadInv
<1> DEFINE Kept(v) ==
             /\ pc'[v] # "idle" \/ up'[v] # "off" => Registers(v)'
             /\ pc'[v] # "idle" => up'[v] \in {"off", "register"}
             /\ Accepted(v)' => AddrOf(v)' \in Range(peers'[FileOf(v)'])
<1>q. ASSUME \A v \in Uploader : Kept(v) PROVE UploadInv'
  BY <1>q DEF UploadInv, Registers, Accepted, AddrOf, FileOf
(* An uploader whose own variables stay, or that goes off.                 *)
<1>1. ASSUME NEW v \in Uploader, pc'[v] = pc[v], req'[v] = req[v], reply'[v] = reply[v],
             up'[v] = up[v] \/ up'[v] = "off" \/ (Accepted(v) /\ pc[v] = "idle")
      PROVE  Kept(v)
  <2>1. /\ AddrOf(v)' = AddrOf(v) /\ FileOf(v)' = FileOf(v)
        /\ Registers(v)' <=> Registers(v)
    BY <1>1 DEF AddrOf, FileOf, Registers, TP!Registration
  <2>2. Accepted(v) => up[v] # "off"
    BY DEF Accepted
  <2>3. Accepted(v)' => Accepted(v)
    BY <1>1 DEF Accepted
  <2>4. Accepted(v)' => AddrOf(v) \in Range(peers'[FileOf(v)])
    BY <1>i, <1>p, <1>f, <2>2, <2>3
  <2> QED BY <1>1, <1>i, <2>1, <2>2, <2>4
<1>2. ASSUME NEW u \in Uploader, NEW f \in File, NEW a \in Addr, Start(u, f, a)
      PROVE  UploadInv'
  <2>1. /\ pc' = [pc EXCEPT ![u] = "arrived"] /\ req' = [req EXCEPT ![u] = RegisterOf(f, a)]
        /\ reply' = reply /\ up' = [up EXCEPT ![u] = "register"]
    BY <1>2, StartArrives DEF ArrivesAs
  <2>2. pc'[u] = "arrived" /\ req'[u] = RegisterOf(f, a) /\ up'[u] = "register"
    BY <1>t, <2>1
  <2>3. Registers(u)'
    <3>1. RegisterOf(f, a) \in TP!Registration /\ RegisterOf(f, a).addr \in Addr
      BY Requests DEF RegisterOf
    <3>2. TP!Registration' = TP!Registration
      BY DEF TP!Registration
    <3> QED BY <2>2, <3>1, <3>2 DEF Registers, AddrOf
  <2>4. ~Accepted(u)'
    BY <2>2 DEF Accepted
  <2>5. \A v \in Uploader \ {u} : /\ pc'[v] = pc[v] /\ req'[v] = req[v]
                                  /\ reply'[v] = reply[v] /\ up'[v] = up[v]
    BY <1>t, <2>1
  <2>6. Kept(u)
    BY <2>2, <2>3, <2>4
  <2> HIDE DEF Kept
  <2> QED BY <1>1, <1>q, <2>5, <2>6
<1>3. ASSUME Announce PROVE UploadInv'
  <2>1. \A v \in Uploader : /\ pc'[v] = pc[v] /\ req'[v] = req[v]
                            /\ reply'[v] = reply[v] /\ up'[v] = up[v]
    BY <1>t, <1>3, AnnounceArrives, DownloaderAssumption DEF ArrivesAs, uploadVars
  <2> HIDE DEF Kept
  <2> QED BY <1>1, <1>q, <2>1
<1>4. ASSUME NEW c \in Client, Track(c) PROVE UploadInv'
  <2>1. pc[c] # "idle" /\ UNCHANGED <<req, up>>
    BY <1>4, TrackHandles DEF uploadVars
  <2>2. \A v \in Uploader \ {c} : pc'[v] = pc[v] /\ reply'[v] = reply[v]
    BY <1>t, <1>4, TrackHandles DEF IsListed, IsPushed, IsAnswered
  <2>3. ASSUME c \in Uploader
        PROVE  /\ Registers(c)' /\ up'[c] \in {"off", "register"}
               /\ Accepted(c)' => AddrOf(c)' \in Range(peers'[FileOf(c)'])
    <3>1. Registers(c)' /\ up'[c] \in {"off", "register"}
      BY <1>i, <2>1, <2>3 DEF Registers, AddrOf, TP!Registration
    <3>2. CASE IsListed(c)
      BY <1>t, <3>1, <3>2 DEF IsListed, Accepted
    <3>3. CASE IsPushed(c)
      <4>1. AddrOf(c)' = AddrOf(c) /\ FileOf(c)' = FileOf(c)
        BY <2>1 DEF AddrOf, FileOf
      <4> QED BY <3>1, <3>3, <4>1, PushedIsThere
    <3>4. CASE IsAnswered(c)
      BY <3>1, <3>4 DEF IsAnswered, Accepted
    <3> QED BY <1>4, <3>1, <3>2, <3>3, <3>4, TrackHandles
  <2>4. c \in Uploader => Kept(c)
    BY <2>3
  <2> HIDE DEF Kept
  <2> QED BY <1>1, <1>q, <2>1, <2>2, <2>4
<1>5. ASSUME UNCHANGED trackerVars,
             \A v \in Uploader : up'[v] = up[v] \/ up'[v] = "off" \/ (Accepted(v) /\ pc[v] = "idle")
      PROVE  UploadInv'
  <2> HIDE DEF Kept
  <2> QED BY <1>1, <1>q, <1>5 DEF trackerVars
<1> HIDE DEF Kept
<1>6. ASSUME NEW u \in Uploader, Registered(u) PROVE UploadInv'
  <2>1. up'[u] = "off" \/ (Accepted(u) /\ pc[u] = "idle")
    BY <1>t, <1>6 DEF Registered, Accepted
  <2> QED BY <1>5, <1>6, <2>1, <1>t DEF Registered
<1>7. ASSUME NEW u \in Uploader, Bind(u) PROVE UploadInv'
  <2>1. Accepted(u) /\ pc[u] = "idle"
    BY <1>t, <1>i, <1>7 DEF Bind, Accepted
  <2> QED BY <1>5, <1>7, <2>1, <1>t DEF Bind
<1>8. ASSUME NEW u \in Uploader, Crash(u) \/ EditFile(u) PROVE UploadInv'
  BY <1>5, <1>8, <1>t DEF Crash, EditFile
<1>9. CASE up' = up /\ UNCHANGED trackerVars
  BY <1>5, <1>9
<1> QED
  BY <1>2, <1>3, <1>4, <1>6, <1>7, <1>8, <1>9
     DEF Next, Client, TakeAnswer, ConnectPeer, ConnectFails, HandshakeTimesOut, StartDownload,
         Fetches, Fetch, IdleClose, uploadVars, vars
(* A port is bound only while nobody listens on it.                        *)
LEMMA PortsKept ==
  ASSUME TP!IInv, OwnTypes, PortsInv, [Next]_vars
  PROVE  PortsInv'
<1>t. /\ req \in [Client -> TP!Request] /\ Uploader \subseteq Client
      /\ up \in [Uploader -> {"off", "register", "bind", "listening"}]
  BY TrackerTypes DEF OwnTypes, Client
<1>i. \A u, v \in Uploader :
        up[u] = "listening" /\ up[v] = "listening" /\ req[u].addr = req[v].addr => u = v
  BY DEF PortsInv, ListensOn, AddrOf
<1> SUFFICES ASSUME NEW u \in Uploader, NEW v \in Uploader,
                    up'[u] = "listening", up'[v] = "listening", req'[u].addr = req'[v].addr
             PROVE  u = v
  BY DEF PortsInv, ListensOn, AddrOf
<1>1. ASSUME \A w \in Uploader : up'[w] = "listening" =>
               up[w] = "listening" /\ req'[w] = req[w]
      PROVE  u = v
  BY <1>i, <1>1
<1>2. ASSUME NEW b \in Uploader, NEW f \in File, NEW a \in Addr, Start(b, f, a) PROVE u = v
  BY <1>1, <1>2, <1>t, StartArrives DEF ArrivesAs
<1>3. ASSUME Announce PROVE u = v
  BY <1>1, <1>3, <1>t, AnnounceArrives, DownloaderAssumption DEF ArrivesAs, uploadVars
<1>4. ASSUME NEW c \in Client, Track(c) PROVE u = v
  BY <1>1, <1>4, TrackHandles DEF uploadVars
<1>5. ASSUME NEW b \in Uploader, Registered(b) \/ Crash(b) \/ EditFile(b) PROVE u = v
  BY <1>1, <1>5, <1>t DEF Registered, Crash, EditFile, trackerVars
<1>6. ASSUME NEW b \in Uploader, Bind(b) PROVE u = v
  <2>1. req' = req /\ \A w \in Uploader \ {b} : up'[w] = up[w]
    BY <1>6, <1>t DEF Bind, trackerVars
  <2>2. up'[b] = "listening" => \A w \in Uploader : ~(up[w] = "listening" /\ req[w].addr = req[b].addr)
    BY <1>6, <1>t DEF Bind, ListensOn, AddrOf
  <2> QED BY <1>i, <2>1, <2>2
<1>7. CASE up' = up /\ UNCHANGED trackerVars
  BY <1>1, <1>7 DEF trackerVars
<1> QED
  BY <1>2, <1>3, <1>4, <1>5, <1>6, <1>7
     DEF Next, Client, TakeAnswer, ConnectPeer, ConnectFails, HandshakeTimesOut, StartDownload,
         Fetches, Fetch, IdleClose, uploadVars, vars

(* Connections close and their files are edited, but none of them vanishes *)
(* or gets better.                                                         *)
Worse(w) == {c \in Connection : /\ c.right => stream[w].right
                                /\ c.open => stream[w].open}

OnlyWorse ==
  /\ stream' \in Seq(Connection) /\ Len(stream') = Len(stream) /\ Stream' = Stream
  /\ \A w \in Stream : /\ stream'[w].right => stream[w].right
                       /\ stream'[w].open => stream[w].open

LEMMA Worsening ==
  ASSUME DP!IInv, OwnTypes, NEW w \in Stream
  PROVE  /\ stream[w] \in Worse(w)
         /\ \A whole \in BOOLEAN : Closed(w, whole) \in Worse(w)
         /\ [stream[w] EXCEPT !.right = FALSE] \in Worse(w)
         /\ [stream[w] EXCEPT !.sent = NoPiece] \in Worse(w)
<1>1. stream[w] \in Connection /\ w \in 1 .. MaxUploads
  BY StreamsAreWorkers
<1>2. job[w] \in D!Piece \cup {NoPiece}
  BY <1>1 DEF DP!IInv, DP!TypeOK, DP!Piece, D!Piece
<1>3. ASSUME NEW whole \in BOOLEAN PROVE Closed(w, whole) \in Worse(w)
  <2> DEFINE p == IF whole /\ worker[w] = "fetch" THEN job[w] ELSE NoPiece
  <2>1. p \in D!Piece \cup {NoPiece} /\ Closed(w, whole) = [stream[w] EXCEPT !.open = FALSE, !.sent = p]
    BY <1>2 DEF Closed
  <2> HIDE DEF p
  <2> QED BY <1>1, <2>1 DEF Connection, Worse
<1>4. /\ [stream[w] EXCEPT !.right = FALSE] \in Worse(w)
      /\ [stream[w] EXCEPT !.sent = NoPiece] \in Worse(w)
  BY <1>1 DEF Connection, Worse
<1> QED BY <1>1, <1>3, <1>4 DEF Worse

LEMMA StreamMapped ==
  ASSUME OwnTypes, stream' = [w \in Stream |-> stream'[w]],
         \A w \in Stream : stream'[w] \in Worse(w)
  PROVE  OnlyWorse
<1>1. Len(stream) \in Nat /\ Stream = 1 .. Len(stream)
  BY StreamsAreWorkers
<1>2. stream' \in [1 .. Len(stream) -> Connection]
  BY <1>1 DEF Worse
<1>3. stream' \in Seq(Connection) /\ Len(stream') = Len(stream)
  BY <1>1, <1>2
<1>4. Stream' = Stream
  BY <1>1, <1>2 DEF Stream
<1> QED BY <1>3, <1>4 DEF OnlyWorse, Worse

LEMMA Closing ==
  ASSUME DP!IInv, OwnTypes,
         \/ \E u \in Uploader : Crash(u) \/ EditFile(u)
         \/ ConnectFails \/ HandshakeTimesOut
         \/ \E w \in Stream : IdleClose(w) \/ Fetch(w)
         \/ UNCHANGED stream
  PROVE  OnlyWorse
<1>1. ASSUME NEW u \in Uploader, Crash(u) PROVE OnlyWorse
  <2>1. PICK whole \in SUBSET Stream :
          stream' = [w \in Stream |-> IF stream[w].from = u /\ stream[w].open
                                     THEN Closed(w, w \in whole) ELSE stream[w]]
    BY <1>1 DEF Crash
  <2>2. ASSUME NEW w \in Stream PROVE stream'[w] \in Worse(w)
    <3> DEFINE sent == w \in whole
    <3>1. sent \in BOOLEAN /\ stream'[w] \in {stream[w], Closed(w, sent)}
      BY <2>1
    <3> HIDE DEF sent
    <3> QED BY <3>1, Worsening
  <2> QED BY <2>1, <2>2, StreamMapped
<1>2. ASSUME NEW u \in Uploader, EditFile(u) PROVE OnlyWorse
  <2>1. \A w \in Stream : stream'[w] \in Worse(w)
    BY <1>2, Worsening DEF EditFile
  <2> QED BY <1>2, <2>1, StreamMapped DEF EditFile
<1>3. CASE ConnectFails \/ HandshakeTimesOut
  <2> DEFINE no == FALSE
  <2>1. no \in BOOLEAN /\ stream' = [w \in Stream |-> Closed(w, no)]
    BY <1>3 DEF ConnectFails, HandshakeTimesOut
  <2> HIDE DEF no
  <2>2. \A w \in Stream : stream'[w] \in Worse(w)
    BY <2>1, Worsening
  <2> QED BY <2>1, <2>2, StreamMapped
<1>4. ASSUME NEW w \in Stream, IdleClose(w) PROVE OnlyWorse
  <2>1. PICK whole \in BOOLEAN : stream' = [stream EXCEPT ![w] = Closed(w, whole)]
    BY <1>4 DEF IdleClose
  <2>2. stream' = [v \in Stream |-> stream'[v]]
    BY <2>1 DEF Stream
  <2>3. \A v \in Stream : stream'[v] \in Worse(v)
    BY <2>1, Worsening DEF Stream
  <2> QED BY <2>2, <2>3, StreamMapped
<1>5. ASSUME NEW w \in Stream, Fetch(w) PROVE OnlyWorse
  <2>1. stream' = [stream EXCEPT ![w] = [stream[w] EXCEPT !.sent = NoPiece]]
    BY <1>5 DEF Fetch
  <2>2. stream' = [v \in Stream |-> stream'[v]]
    BY <2>1 DEF Stream
  <2>3. \A v \in Stream : stream'[v] \in Worse(v)
    BY <2>1, Worsening DEF Stream
  <2> QED BY <2>2, <2>3, StreamMapped
<1>6. CASE UNCHANGED stream
  <2>1. Stream' = Stream
    BY <1>6 DEF Stream
  <2> QED BY <1>6, <2>1 DEF OnlyWorse, OwnTypes
<1> QED BY <1>1, <1>2, <1>3, <1>4, <1>5, <1>6

(* The command connects to the next address of the list.                   *)
LEMMA Connecting ==
  ASSUME OwnTypes, ConnectPeer
  PROVE  /\ stream' \in Seq(Connection) /\ todo' \in Seq(Addr) /\ stream' # <<>>
         /\ Len(stream') + Len(todo') = Len(stream) + Len(todo)
<1>1. PICK u \in Uploader : stream' = Append(stream, Connected(u))
  BY DEF ConnectPeer
<1> DEFINE c == Connected(u)
<1>2. c \in Connection
  BY <1>1 DEF Connected, Connection, OwnTypes
<1>3. c \in Connection /\ stream' = Append(stream, c) /\ stream \in Seq(Connection)
  BY <1>1, <1>2 DEF OwnTypes
<1> HIDE DEF c
<1>4. stream' \in Seq(Connection) /\ Len(stream') = Len(stream) + 1 /\ stream' # <<>>
  BY <1>3, AppendProperties, LenProperties, EmptySeq
<1>5. todo \in Seq(Addr) /\ todo # <<>> /\ todo' = Tail(todo)
  BY DEF ConnectPeer, OwnTypes
<1>6. todo' \in Seq(Addr) /\ Len(todo') = Len(todo) - 1
  BY <1>5, HeadTailProperties
<1> QED BY <1>4, <1>6, StreamsAreWorkers
LEMMA CommandKept ==
  ASSUME TP!IInv, DP!IInv, OwnTypes, CommandInv, [Next]_vars
  PROVE  CommandInv'
<1> DEFINE Asks == req[Downloader].op = IF phase = "off" THEN "files" ELSE "lookup"
           Listens == req[Downloader].op = "lookup" =>
             /\ req[Downloader].hash = Wanted
             /\ pc[Downloader] = "idle" /\ reply[Downloader].status = 200 =>
                  reply[Downloader].peers # <<>>
           Connects ==
             /\ phase \in {"off", "announce"} => stream = <<>> /\ todo = <<>>
             /\ phase = "connect" => stream # <<>> \/ todo # <<>>
             /\ phase = "download" => stream # <<>> /\ todo = <<>>
<1>i. Asks /\ Listens /\ Connects
  BY DEF CommandInv, Answer
<1>q. Asks' /\ Listens' /\ Connects' => CommandInv'
  BY DEF CommandInv, Answer
<1>t. /\ pc \in [Client -> {"idle", "arrived", "listed"}] /\ Downloader \in Client
      /\ req \in [Client -> TP!Request] /\ reply \in [Client -> TP!Response]
  BY TrackerTypes DEF Client
<1>s. UNCHANGED <<phase, todo>> /\ OnlyWorse => Connects'
  <2>1. OnlyWorse => (stream' = <<>> <=> stream = <<>>)
    BY EmptySeq DEF OnlyWorse, OwnTypes
  <2> QED BY <1>i, <2>1
<1>1. ASSUME NEW u \in Uploader, NEW f \in File, NEW a \in Addr, Start(u, f, a)
      PROVE  CommandInv'
  <2>1. /\ pc'[Downloader] = pc[Downloader] /\ req'[Downloader] = req[Downloader]
        /\ reply' = reply /\ UNCHANGED <<phase, todo, stream>>
    BY <1>1, <1>t, StartArrives, DownloaderAssumption DEF ArrivesAs, downloadVars
  <2> QED BY <1>i, <1>q, <2>1
<1>2. ASSUME Announce PROVE CommandInv'
  <2>1. /\ pc'[Downloader] = "arrived" /\ req'[Downloader] = LookupOfWanted
        /\ phase = "off" /\ phase' = "announce" /\ UNCHANGED <<todo, stream>>
    BY <1>2, <1>t, AnnounceArrives DEF ArrivesAs
  <2> QED BY <1>i, <1>q, <2>1 DEF LookupOfWanted
<1>3. ASSUME NEW c \in Client, Track(c) PROVE CommandInv'
  <2>1. UNCHANGED <<req, phase, todo, stream>>
    BY <1>3, TrackHandles DEF downloadVars
  <2>2. CASE c # Downloader
    <3>1. pc'[Downloader] = pc[Downloader] /\ reply'[Downloader] = reply[Downloader]
      BY <1>3, <1>t, <2>2, TrackHandles DEF IsListed, IsPushed, IsAnswered
    <3> QED BY <1>i, <1>q, <2>1, <3>1
  <2>3. CASE c = Downloader
    <3>1. IsAnswered(Downloader)
      BY <1>3, <1>i, <2>3, TrackHandles DEF IsListed, IsPushed
    <3>2. Listens'
      BY <1>i, <2>1, <3>1 DEF IsAnswered
    <3> QED BY <1>i, <1>q, <2>1, <3>2
  <2> QED BY <2>2, <2>3
<1>4. CASE TakeAnswer
  <2>1. /\ pc[Downloader] = "idle" /\ phase = "announce" /\ UNCHANGED <<req, pc, reply, stream>>
        /\ \/ /\ reply[Downloader].status = 200
              /\ phase' = "connect" /\ todo' = reply[Downloader].peers
           \/ phase' = "failed"
    BY <1>4 DEF TakeAnswer, Answer, trackerVars
  <2>2. Asks' /\ Listens'
    BY <1>i, <2>1
  <2>3. Connects'
    BY <1>i, <2>1
  <2> QED BY <1>q, <2>2, <2>3
<1>5. CASE ConnectPeer
  <2>1. /\ phase = "connect" /\ UNCHANGED <<req, pc, reply, phase>> /\ stream' # <<>>
    BY <1>5, Connecting DEF ConnectPeer, trackerVars
  <2> QED BY <1>i, <1>q, <2>1
<1>6. CASE ConnectFails \/ HandshakeTimesOut \/ StartDownload
  <2>1. /\ phase = "connect" /\ UNCHANGED <<req, pc, reply, todo>>
        /\ \/ phase' \in {"failed", "timeout"}
           \/ phase' = "download" /\ todo = <<>> /\ stream' = stream
    BY <1>6 DEF ConnectFails, HandshakeTimesOut, StartDownload, trackerVars
  <2> QED BY <1>i, <1>q, <2>1
<1>7. ASSUME UNCHANGED <<req, pc, reply, phase, todo>>, OnlyWorse PROVE CommandInv'
  BY <1>7, <1>i, <1>q, <1>s
<1>8. ASSUME \/ \E u \in Uploader : Crash(u) \/ EditFile(u)
             \/ \E w \in Stream : IdleClose(w) \/ Fetch(w)
      PROVE  CommandInv'
  <2>1. OnlyWorse
    BY <1>8, Closing
  <2>2. UNCHANGED <<req, pc, reply, phase, todo>>
    BY <1>8 DEF Crash, EditFile, IdleClose, Fetch, trackerVars
  <2> QED BY <1>7, <2>1, <2>2
<1>9. ASSUME UNCHANGED <<downloadVars, trackerVars>> PROVE CommandInv'
  <2>1. OnlyWorse
    BY <1>9, Closing DEF downloadVars
  <2>2. UNCHANGED <<req, pc, reply, phase, todo>>
    BY <1>9 DEF downloadVars, trackerVars
  <2> QED BY <1>7, <2>1, <2>2
<1> QED
  BY <1>1, <1>2, <1>3, <1>4, <1>5, <1>6, <1>8, <1>9
     DEF Next, Client, Registered, Bind, Fetches, vars

LEMMA TypesKept ==
  ASSUME TP!IInv, DP!IInv, OwnTypes, Budget, CommandInv, [Next]_vars
  PROVE  OwnTypes'
<1>0. /\ up \in [Uploader -> {"off", "register", "bind", "listening"}]
      /\ faults \in 0 .. MaxFaults
      /\ right \in [Uploader -> BOOLEAN] /\ phase \in Phase
      /\ todo \in Seq(Addr) /\ stream \in Seq(Connection)
      /\ Len(stream) + Len(todo) <= MaxUploads
  BY DEF OwnTypes
<1>q. ASSUME up' \in [Uploader -> {"off", "register", "bind", "listening"}],
             faults' \in 0 .. MaxFaults,
             right' \in [Uploader -> BOOLEAN], phase' \in Phase,
             todo' \in Seq(Addr), stream' \in Seq(Connection),
             Len(stream') + Len(todo') <= MaxUploads
      PROVE  OwnTypes'
  BY <1>q DEF OwnTypes, Connection, Phase
<1>1. ASSUME NEW u \in Uploader,
             \/ \E f \in File, a \in Addr : Start(u, f, a)
             \/ Registered(u)
             \/ Bind(u)
      PROVE  OwnTypes'
  <2>1. /\ up' \in [Uploader -> {"off", "register", "bind", "listening"}]
        /\ UNCHANGED <<faults, phase, todo, stream>>
    <3>1. CASE \E f \in File, a \in Addr : Start(u, f, a)
      <4>1. up' = [up EXCEPT ![u] = "register"] /\ UNCHANGED <<faults, phase, todo, stream>>
        BY <3>1, Zenon DEF Start, downloadVars
      <4> QED BY <1>0, <4>1
    <3>2. CASE Registered(u)
      BY <1>0, <3>2 DEF Registered, downloadVars
    <3>3. CASE Bind(u)
      BY <1>0, <3>3 DEF Bind, downloadVars
    <3> QED BY <1>1, <3>1, <3>2, <3>3
  <2>2. right' \in [Uploader -> BOOLEAN]
    <3>1. CASE \E f \in File, a \in Addr : Start(u, f, a)
      <4>1. PICK f \in File, a \in Addr : Start(u, f, a)
        BY <3>1, Zenon
      <4>2. right' = [right EXCEPT ![u] = (f = Wanted)]
        BY <4>1, Zenon DEF Start
      <4>3. (f = Wanted) \in BOOLEAN
        OBVIOUS
      <4> QED BY <1>0, <4>2, <4>3, Zenon
    <3>2. CASE Registered(u) \/ Bind(u)
      BY <1>0, <3>2 DEF Registered, Bind
    <3> QED BY <1>1, <3>1, <3>2
  <2> QED BY <1>0, <1>q, <2>1, <2>2
<1>2. ASSUME NEW u \in Uploader, Crash(u) \/ EditFile(u) PROVE OwnTypes'
  <2>1. OnlyWorse
    BY <1>2, Closing
  <2>2. /\ up' \in [Uploader -> {"off", "register", "bind", "listening"}]
        /\ faults' \in 0 .. MaxFaults /\ UNCHANGED <<phase, todo>>
    BY <1>0, <1>2, BoundsAssumption DEF Crash, EditFile
  <2>3. right' = right \/ right' = [right EXCEPT ![u] = FALSE]
    BY <1>2 DEF Crash, EditFile
  <2>4. right' \in [Uploader -> BOOLEAN]
    BY <1>0, <2>3, Zenon
  <2> QED BY <1>0, <1>q, <2>1, <2>2, <2>4 DEF OnlyWorse
<1>3. ASSUME Announce PROVE OwnTypes'
  <2>1. phase' = "announce" /\ UNCHANGED <<up, faults, right, todo, stream>>
    BY <1>3, AnnounceArrives DEF uploadVars
  <2> QED BY <1>0, <1>q, <2>1 DEF Phase
<1>4. CASE TakeAnswer
  <2>1. /\ phase = "announce" /\ phase' \in {"connect", "failed"}
        /\ todo' = todo \/ todo' = reply[Downloader].peers
        /\ UNCHANGED <<up, faults, right, stream>>
    BY <1>4 DEF TakeAnswer, Answer, uploadVars
  <2>2. /\ reply[Downloader].peers \in Seq(Addr)
        /\ Len(reply[Downloader].peers) \in Nat
        /\ Len(reply[Downloader].peers) <= posts /\ posts \in Nat /\ posts <= MaxUploads
    BY TrackerTypes DEF Budget, Client
  <2>3. Len(stream) = 0
    BY <2>1, EmptySeq DEF CommandInv
  <2>4. todo' \in Seq(Addr) /\ Len(stream') + Len(todo') <= MaxUploads
    BY <1>0, <2>1, <2>2, <2>3, Sizes
  <2> QED BY <1>0, <1>q, <2>1, <2>4 DEF Phase
<1>5. CASE ConnectPeer
  <2>1. /\ stream' \in Seq(Connection) /\ todo' \in Seq(Addr)
        /\ Len(stream') + Len(todo') = Len(stream) + Len(todo)
    BY <1>5, Connecting
  <2>2. UNCHANGED <<up, faults, right, phase>>
    BY <1>5 DEF ConnectPeer, uploadVars
  <2> QED BY <1>0, <1>q, <2>1, <2>2
<1>6. ASSUME \/ ConnectFails \/ HandshakeTimesOut \/ StartDownload
             \/ \E w \in Stream : IdleClose(w) \/ Fetch(w)
      PROVE  OwnTypes'
  <2>1. OnlyWorse
    BY <1>6, Closing DEF StartDownload
  <2>2. /\ phase' \in Phase
        /\ UNCHANGED <<up, faults, right, todo>>
    BY <1>0, <1>6 DEF ConnectFails, HandshakeTimesOut, StartDownload, IdleClose,
       Fetch, Phase, uploadVars
  <2> QED BY <1>0, <1>q, <2>1, <2>2 DEF OnlyWorse
<1>7. CASE UNCHANGED <<uploadVars, downloadVars>>
  <2>1. UNCHANGED <<up, faults, right, phase, todo, stream>>
    BY <1>7 DEF uploadVars, downloadVars
  <2> QED BY <1>0, <1>q, <2>1
<1> QED
  BY <1>1, <1>2, <1>3, <1>4, <1>5, <1>6, <1>7
     DEF Next, Track, Fetches, vars
LEMMA FetchKept ==
  ASSUME DP!IInv, OwnTypes, FetchInv, [Next]_vars
  PROVE  FetchInv'
<1>t. /\ worker \in [1 .. MaxUploads -> {"receive", "fetch", "failed", "ended"}]
      /\ Stream \subseteq 1 .. MaxUploads
  BY StreamsAreWorkers DEF DP!IInv, DP!TypeOK
<1>i. \A w \in 1 .. MaxUploads :
        /\ worker[w] # "receive" => phase = "download" /\ w \in Stream
        /\ worker[w] = "failed" => Broken(w)
  BY DEF FetchInv
<1>1. ASSUME OnlyWorse, worker' = worker, phase' = phase PROVE FetchInv'
  <2>1. \A w \in Stream : Broken(w) => Broken(w)'
    BY <1>1 DEF OnlyWorse, Broken
  <2>2. Stream' = Stream
    BY <1>1 DEF OnlyWorse
  <2>3. ASSUME NEW w \in 1 .. MaxUploads
        PROVE  /\ worker'[w] # "receive" => phase' = "download" /\ w \in Stream'
               /\ worker'[w] = "failed" => Broken(w)'
    BY <1>1, <1>i, <2>1, <2>2
  <2> QED BY <2>3 DEF FetchInv, Broken
(* Before the download no task works.                                      *)
<1>2. ASSUME phase # "download", worker' = worker PROVE FetchInv'
  <2>1. \A w \in 1 .. MaxUploads : worker'[w] = "receive"
    BY <1>2, <1>i
  <2> QED BY <2>1 DEF FetchInv
<1>3. ASSUME NEW w \in Stream, phase = "download",
             phase' = phase, OnlyWorse,
             NEW to \in {"receive", "fetch", "failed", "ended"},
             worker' = [worker EXCEPT ![w] = to], to = "failed" => Broken(w)
      PROVE  FetchInv'
  <2>1. Stream' = Stream /\ \A v \in Stream : Broken(v) => Broken(v)'
    BY <1>3 DEF OnlyWorse, Broken
  <2>2. ASSUME NEW v \in 1 .. MaxUploads
        PROVE  /\ worker'[v] # "receive" => phase' = "download" /\ v \in Stream'
               /\ worker'[v] = "failed" => Broken(v)'
    BY <1>3, <1>t, <1>i, <2>1
  <2> QED BY <2>2 DEF FetchInv, Broken
<1>4. ASSUME Fetches(D!Caller) \/ Fetches(\E p \in D!Piece : D!Send(p)) PROVE FetchInv'
  <2>1. worker' = worker
    BY <1>4 DEF Fetches, D!Caller, D!SpawnSender, D!StartCollecting, D!Collect, D!CollectUpTo,
       D!MakeDirectory, D!CreateFile, D!WriteFile, D!Send, D!taskVars
  <2>2. UNCHANGED stream /\ UNCHANGED phase
    BY <1>4 DEF Fetches, downloadVars
  <2> QED BY <1>1, <2>1, <2>2, Closing
<1>5. ASSUME NEW w \in Stream, Fetches(D!TakeRequest(w)) PROVE FetchInv'
  <2> DEFINE to == "fetch"
  <2>1. /\ worker' = [worker EXCEPT ![w] = to] /\ to \in {"receive", "fetch", "failed", "ended"}
        /\ (to = "failed" => Broken(w))
        /\ phase = "download" /\ phase' = phase /\ stream' = stream
    BY <1>5 DEF Fetches, D!TakeRequest, downloadVars
  <2> HIDE DEF to
  <2> QED BY <1>3, <2>1, Closing
<1>6. ASSUME NEW w \in Stream, Fetches(D!EndWorker(w)) PROVE FetchInv'
  <2> DEFINE to == "ended"
  <2>1. /\ worker' = [worker EXCEPT ![w] = to] /\ to \in {"receive", "fetch", "failed", "ended"}
        /\ (to = "failed" => Broken(w))
        /\ phase = "download" /\ phase' = phase /\ stream' = stream
    BY <1>6 DEF Fetches, D!EndWorker, downloadVars
  <2> HIDE DEF to
  <2> QED BY <1>3, <2>1, Closing
<1>7. ASSUME NEW w \in Stream, Fetch(w) PROVE FetchInv'
  <2>1. PICK to \in {"receive", "failed"} :
          worker' = [worker EXCEPT ![w] = to] /\ (to = "failed" => Broken(w))
    BY <1>7, FetchResult
  <2>2. phase = "download" /\ phase' = phase /\ OnlyWorse
    BY <1>7, FetchResult, Closing
  <2> QED BY <1>3, <2>1, <2>2
<1>8. ASSUME UNCHANGED pieceVars,
             \/ UNCHANGED downloadVars
             \/ \E u \in Uploader : Crash(u) \/ EditFile(u)
             \/ \E w \in Stream : IdleClose(w)
      PROVE  FetchInv'
  <2>1. worker' = worker /\ phase' = phase /\ OnlyWorse
    BY <1>8, Closing DEF pieceVars, downloadVars, Crash, EditFile, IdleClose
  <2> QED BY <1>1, <2>1
<1>9. ASSUME \/ Announce \/ TakeAnswer \/ ConnectPeer \/ ConnectFails
             \/ HandshakeTimesOut \/ StartDownload
      PROVE  FetchInv'
  <2>1. phase # "download" /\ worker' = worker
    BY <1>9 DEF Announce, TakeAnswer, ConnectPeer, ConnectFails, HandshakeTimesOut,
       StartDownload, pieceVars
  <2> QED BY <1>2, <2>1
<1>10. ASSUME NEW u \in Uploader, NEW f \in File, NEW a \in Addr, Start(u, f, a)
       PROVE  FetchInv'
  BY <1>8, <1>10 DEF Start
<1>11. ASSUME NEW u \in Uploader, Registered(u) \/ Bind(u) \/ Crash(u) \/ EditFile(u)
       PROVE  FetchInv'
  BY <1>8, <1>11 DEF Registered, Bind, Crash, EditFile
<1>12. ASSUME NEW w \in Stream, IdleClose(w) PROVE FetchInv'
  BY <1>8, <1>12 DEF IdleClose
<1>13. ASSUME NEW c \in Uploader \cup {Downloader}, Track(c) PROVE FetchInv'
  BY <1>8, <1>13 DEF Track
<1>14. CASE UNCHANGED vars
  BY <1>8, <1>14 DEF vars
<1> QED
  BY <1>4, <1>5, <1>6, <1>7, <1>9, <1>10, <1>11, <1>12, <1>13, <1>14 DEF Next
-----------------------------------------------------------------------------
LEMMA InitIInv == Init => IInv
<1> SUFFICES ASSUME Init PROVE IInv
  OBVIOUS
<1>1. TP!IInv
  BY Sizes, SameTracker, TP!InitIInv DEF Init
<1>2. DP!IInv
  BY Sizes, SameDownload, DP!InitIInv DEF Init, IsFiniteSet, DP!IsFiniteSet
<1>3. /\ up = [u \in Uploader |-> "off"] /\ faults = 0
      /\ right = [u \in Uploader |-> FALSE]
      /\ phase = "off" /\ todo = <<>> /\ stream = <<>>
      /\ pc = [c \in Uploader \cup {Downloader} |-> "idle"]
      /\ req = [c \in Uploader \cup {Downloader} |-> [op |-> "files"]]
      /\ reply = [c \in Uploader \cup {Downloader} |->
                    [status |-> 200, peers |-> <<>>, files |-> {}]]
      /\ peers = [h \in File |-> <<>>] /\ posts = 0
      /\ worker = [w \in 1 .. MaxUploads |-> "receive"]
  BY DEF Init, T!Init, D!Init
<1>4. OwnTypes
  <2>1. <<>> \in Seq(Addr) /\ <<>> \in Seq(Connection)
        /\ Len(<<>>) = 0
    BY EmptySeq
  <2> QED BY <1>3, <2>1, BoundsAssumption DEF OwnTypes, Phase
<1>5. Budget
  <2>1. Pending = {}
    BY <1>3 DEF Pending
  <2>2. IsFiniteSet(Pending) /\ Cardinality(Pending) = 0 /\ Len(<<>>) = 0
    BY <2>1, FS_EmptySet, EmptySeq
  <2> QED BY <1>3, <2>2 DEF Budget
<1>6. UploadInv /\ PortsInv
  BY <1>3 DEF UploadInv, PortsInv, Accepted
<1>7. CommandInv
  BY <1>3 DEF CommandInv
<1>8. FetchInv
  BY <1>3 DEF FetchInv
<1> QED BY <1>1, <1>2, <1>4, <1>5, <1>6, <1>7, <1>8 DEF IInv

LEMMA NextIInv == IInv /\ [Next]_vars => IInv'
<1> SUFFICES ASSUME IInv, [Next]_vars PROVE IInv'
  OBVIOUS
<1>0. /\ TP!IInv /\ DP!IInv
      /\ OwnTypes /\ Budget /\ UploadInv /\ PortsInv /\ CommandInv /\ FetchInv
  BY DEF IInv
<1>1. TP!IInv' /\ DP!IInv'
  BY <1>0, TrackerKept, DownloadKept
<1>2. OwnTypes' /\ Budget'
  BY <1>0, <1>1, TypesKept, BudgetKept
<1>3. UploadInv' /\ PortsInv'
  BY <1>0, UploadKept, PortsKept
<1>4. CommandInv' /\ FetchInv'
  BY <1>0, CommandKept, FetchKept
<1> QED BY <1>1, <1>2, <1>3, <1>4 DEF IInv

(* The inductive invariant holds throughout.                               *)
THEOREM Invariance == Spec => []IInv
BY InitIInv, NextIInv, PTL DEF Spec

(* The types of the variables; among them, that there are never more       *)
(* connections than registrations.                                         *)
THEOREM TypeCorrect == Spec => []TypeOK
<1>1. IInv => TypeOK
  BY SameTracker, SameDownload DEF IInv, TP!IInv, DP!IInv, OwnTypes, TypeOK, Connection, Phase
<1> QED BY <1>1, Invariance, PTL

(* At any moment the tracker lists every process that listens, under its   *)
(* file and its address, and no two of them share an address.              *)
THEOREM Listed == Spec => []ListenersAreListed
<1>1. IInv => ListenersAreListed
  <2> SUFFICES ASSUME IInv, NEW u \in Uploader, up[u] = "listening"
               PROVE  /\ listing[FileOf(u)] # NoName /\ AddrOf(u) \in Range(peers[FileOf(u)])
                      /\ \A v \in Uploader \ {u} : ~ListensOn(v, AddrOf(u))
    BY DEF ListenersAreListed
  <2>1. AddrOf(u) \in Range(peers[FileOf(u)]) /\ FileOf(u) \in File
    BY DEF IInv, UploadInv, Accepted, Registers, TP!Registration, FileOf, AddrOf
  <2>2. peers[FileOf(u)] # <<>>
    BY <2>1 DEF Range
  <2>3. listing[FileOf(u)] # NoName
    BY <2>1, <2>2 DEF IInv, TP!IInv, TP!PeersAreListed
  <2>4. \A v \in Uploader \ {u} : ~ListensOn(v, AddrOf(u))
    BY DEF IInv, PortsInv
  <2> QED BY <2>1, <2>3, <2>4
<1> QED BY <1>1, Invariance, PTL

(* A download that waits forever lost a piece on a connection that the     *)
(* other side closed, or with another or an edited file at the other end,  *)
(* unless the torrent has no pieces.                                       *)
THEOREM StuckOnlyByOthers == Spec => []StuckOnlyByABadStream
<1>1. IInv => StuckOnlyByABadStream
  <2> SUFFICES ASSUME IInv, PieceCount # 0,
                      phase = "download", main = "collect", output = <<>>, sending = {},
                      \A w \in Stream : \/ worker[w] \in {"failed", "ended"}
                                        \/ worker[w] = "receive" /\ input = <<>>
               PROVE  \E w \in Stream :
                        worker[w] = "failed" /\ Broken(w) /\ job[w] \notin Range(collected)
    BY DEF StuckOnlyByABadStream
  <2>0. DP!IInv /\ OwnTypes /\ CommandInv /\ FetchInv
    BY DEF IInv
  <2>1. /\ Stream = 1 .. Len(stream) /\ Len(stream) \in Nat /\ Len(stream) # 0
        /\ Stream \subseteq 1 .. MaxUploads
    BY <2>0, StreamsAreWorkers, EmptySeq DEF CommandInv, OwnTypes
  <2>2. \A w \in 1 .. MaxUploads : worker[w] # "ended"
    BY <2>0 DEF DP!IInv, DP!TaskInv, DP!Returned
  <2>3. ASSUME NEW w \in Stream, worker[w] = "failed"
        PROVE  Broken(w) /\ job[w] \notin Range(collected)
    <3>1. Broken(w)
      BY <2>0, <2>1, <2>3 DEF FetchInv
    <3>2. job[w] \in DP!Lost
      BY <2>1, <2>3 DEF DP!Lost
    <3>3. job[w] \notin DP!Range(collected)
      BY <2>0, <3>2 DEF DP!IInv, DP!NoPieceTwice
    <3> QED BY <3>1, <3>3 DEF Range, DP!Range
  <2>4. ASSUME \A w \in Stream : worker[w] # "failed" PROVE FALSE
    <3>1. \A w \in 1 .. MaxUploads : worker[w] = "receive"
      BY <2>0, <2>2, <2>4 DEF FetchInv
    <3>2. input = <<>>
      BY <2>1, <2>2, <2>4
    <3>3. DP!Blocked /\ DP!Lost = {}
      BY <3>1, <3>2 DEF DP!Blocked, DP!Lost
    <3>4. DP!BlockedOnlyAfterLoss
      BY <2>0, Sizes, DP!WaitsOnlyForLoss DEF IsFiniteSet, DP!IsFiniteSet
    <3> QED BY <2>1, <3>3, <3>4 DEF DP!BlockedOnlyAfterLoss
  <2> QED BY <2>3, <2>4
<1> QED BY <1>1, Invariance, PTL

(* The commands are clients of the tracker and nothing else: every theorem *)
(* of Tracker_proofs is one of the swarm.                                  *)
THEOREM IsATracker == Spec => TP!Spec
<1>1. Init => TP!Init
  BY SameTracker DEF Init
<1>2. [Next]_vars => [TP!Next]_(TP!vars)
  BY TrackerStep
<1> QED BY <1>1, <1>2, PTL DEF Spec, TP!Spec

(* So the list that the download command gets has every address that was   *)
(* acknowledged for its file before it asked.                              *)
THEOREM NobodyIsForgotten ==
  Spec => [](phase # "off" /\ pc[Downloader] = "idle" /\ Answer.status = 200 =>
               \A r \in since[Downloader] : r[1] = Wanted => r[2] \in Range(Answer.peers))
<1>1. IInv => (phase # "off" /\ pc[Downloader] = "idle" /\ Answer.status = 200 =>
                 \A r \in since[Downloader] : r[1] = Wanted => r[2] \in Range(Answer.peers))
  <2> SUFFICES ASSUME IInv, phase # "off", pc[Downloader] = "idle", Answer.status = 200,
                      NEW r \in since[Downloader], r[1] = Wanted
               PROVE  r[2] \in Range(Answer.peers)
    OBVIOUS
  <2>1. TP!AnswersAreFresh /\ CommandInv
    BY DEF IInv, TP!IInv
  <2>2. req[Downloader].op = "lookup" /\ req[Downloader].hash = r[1]
    BY <2>1 DEF CommandInv
  <2> QED BY <2>1, <2>2 DEF TP!AnswersAreFresh, Answer, Range, TP!Range
<1> QED BY <1>1, Invariance, PTL

(* The command's download is the one of PieceDownload.                     *)
LEMMA IsADownload == Spec => DP!Spec
<1>1. Init => DP!Init
  BY SameDownload DEF Init
<1>2. IInv /\ [Next]_vars => [DP!Next]_(DP!vars)
  BY DownloadStep DEF IInv
<1> QED BY <1>1, <1>2, Invariance, PTL DEF Spec, DP!Spec

(* The whole command, with its tracker and its uploaders, implements       *)
(* FileFetch: whoever answers on the addresses the tracker gave out, only  *)
(* bytes of the wanted file get into the output, and it is not touched     *)
(* before all of them are there.                                           *)
THEOREM Fetched == Spec => CommandFetchesTheFile
<1> USE DEF DP!Range, D!Range
<1>1. DP!Fetch!Init => D!Fetch!Init
  BY DEF DP!Fetch!Init, D!Fetch!Init
<1>2. [DP!Fetch!Next]_(DP!Fetch!vars) => [D!Fetch!Next]_(D!Fetch!vars)
  BY DEF DP!Fetch!Next, D!Fetch!Next, DP!Fetch!vars, D!Fetch!vars, DP!Fetch!Gather,
     D!Fetch!Gather, DP!Fetch!Truncate, D!Fetch!Truncate, DP!Fetch!Complete,
     D!Fetch!Complete, DP!Fetch!Piece, D!Fetch!Piece
<1>3. DP!Spec => DP!FetchSpec
  BY Sizes, DP!Refinement DEF IsFiniteSet, DP!IsFiniteSet
<1> QED
  BY <1>1, <1>2, <1>3, IsADownload, PTL
     DEF CommandFetchesTheFile, D!FetchSpec, DP!FetchSpec, D!Fetch!Spec, DP!Fetch!Spec
=============================================================================
