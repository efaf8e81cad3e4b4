------------------------------- MODULE Tracker -------------------------------
(***************************************************************************)
(* The tracker of tracker/src/main.rs: a file listing (info hash -> name)  *)
(* and a peers db (info hash -> addresses), each behind a lock of its own, *)
(* and the three handlers that warp runs in parallel, one per request.     *)
(*                                                                         *)
(* A handler holds one lock at a time, so what it does under a lock is one *)
(* step; a registration takes two of them, and others run in between.  A   *)
(* panic under the write lock of the peers db poisons it for good.         *)
(***************************************************************************)
EXTENDS Integers, Sequences, FiniteSets, Functions, SequencesExt

CONSTANTS
  Client,    \* connections with at most one request at a time
  InfoHash,
  FileName,
  Addr,      \* socket addresses the handler can build
  BadAddr,   \* an `ip' that does not parse as an IPv4 address
  NoName,    \* the value of a hash that is not in the listing
  MaxPosts   \* bound: how many registrations the clients send

ASSUME BadAddrAssumption == BadAddr \notin Addr
ASSUME NoNameAssumption == NoName \notin FileName
ASSUME MaxPostsAssumption == MaxPosts \in Nat

Registration == [op : {"register"}, name : FileName, hash : InfoHash,
                 addr : Addr \cup {BadAddr}]
Lookup == [op : {"lookup"}, hash : InfoHash]
Request == Registration \cup Lookup \cup {[op |-> "files"], [op |-> "garbage"]}

(* An HTTP response; status 0 is a connection dropped by a panic.          *)
Response == [status : {0, 200, 204, 400, 404, 500},
             peers : Seq(Addr), files : SUBSET FileName]

VARIABLES
  listing,   \* FileListing
  peers,     \* PeersDb; a hash that is not a key has no address
  poisoned,  \* whether the lock of PeersDb is poisoned
  pc,        \* where the handler of a client's request is
  req,       \* the client's last request
  reply,     \* the response to it, once pc is back at "idle"
  posts,     \* how many registrations were sent
  acked,     \* history: the registrations answered with 204
  since      \* history: what was in acked when the client's request arrived

vars == <<listing, peers, poisoned, pc, req, reply, posts, acked, since>>

Answer(c, status, ps, fs) ==
  /\ reply' = [reply EXCEPT ![c] = [status |-> status, peers |-> ps, files |-> fs]]
  /\ pc' = [pc EXCEPT ![c] = "idle"]

Init ==
  /\ listing = [h \in InfoHash |-> NoName]
  /\ peers = [h \in InfoHash |-> <<>>]
  /\ poisoned = FALSE
  /\ pc = [c \in Client |-> "idle"]
  /\ req = [c \in Client |-> [op |-> "files"]]
  /\ reply = [c \in Client |-> [status |-> 200, peers |-> <<>>, files |-> {}]]
  /\ posts = 0
  /\ acked = {}
  /\ since = [c \in Client |-> {}]
-----------------------------------------------------------------------------
Arrive(c, r) ==
  /\ pc[c] = "idle"
  /\ r.op = "register" => posts < MaxPosts
  /\ posts' = IF r.op = "register" THEN posts + 1 ELSE posts
  /\ pc' = [pc EXCEPT ![c] = "arrived"]
  /\ req' = [req EXCEPT ![c] = r]
  /\ since' = [since EXCEPT ![c] = acked]
  /\ UNCHANGED <<listing, peers, poisoned, reply, acked>>

(* A body that is not a bencoded RegisterRequest.                          *)
RejectBody(c) ==
  /\ pc[c] = "arrived" /\ req[c].op = "garbage"
  /\ Answer(c, 400, <<>>, {})
  /\ UNCHANGED <<listing, peers, poisoned, req, posts, acked, since>>

\* Mutants: the last name posted for a hash wins; names are compared, not hashes.
MListedLast(name, hash) == [listing EXCEPT ![hash] = name]
MListedName(name, hash) ==
  IF name \in Range(listing) \/ listing[hash] # NoName
  THEN listing ELSE [listing EXCEPT ![hash] = name]

(* FileListing::add: the first name posted for a hash stays.               *)
Listed(name, hash) ==
  [listing EXCEPT ![hash] = IF @ = NoName THEN name ELSE @]

(* handle_announce_post, the part under the lock of the listing.           *)
AddFile(c) ==
  /\ pc[c] = "arrived" /\ req[c].op = "register"
  /\ listing' = Listed(req[c].name, req[c].hash)
  /\ pc' = [pc EXCEPT ![c] = "listed"]
  /\ UNCHANGED <<peers, poisoned, req, reply, posts, acked, since>>

\* Mutants of PushPeer: the entry is replaced; the address is not parsed; a
\* poisoned lock is used all the same.
MPushReplace(c) ==
  /\ pc[c] = "listed" /\ ~poisoned /\ req[c].addr \in Addr
  /\ peers' = [peers EXCEPT ![req[c].hash] = <<req[c].addr>>]
  /\ acked' = acked \cup {<<req[c].hash, req[c].addr>>}
  /\ Answer(c, 204, <<>>, {})
  /\ UNCHANGED <<listing, poisoned, req, posts, since>>
MPushUnparsed(c) ==
  /\ pc[c] = "listed" /\ ~poisoned
  /\ peers' = [peers EXCEPT ![req[c].hash] = Append(@, req[c].addr)]
  /\ acked' = acked \cup {<<req[c].hash, req[c].addr>>}
  /\ Answer(c, 204, <<>>, {})
  /\ UNCHANGED <<listing, poisoned, req, posts, since>>
MPushPoisoned(c) ==
  /\ pc[c] = "listed" /\ req[c].addr \in Addr
  /\ peers' = [peers EXCEPT ![req[c].hash] = Append(@, req[c].addr)]
  /\ acked' = acked \cup {<<req[c].hash, req[c].addr>>}
  /\ Answer(c, 204, <<>>, {})
  /\ UNCHANGED <<listing, poisoned, req, posts, since>>

(* handle_announce_post, the part under the write lock of the peers db.    *)
PushPeer(c) ==
  /\ pc[c] = "listed" /\ ~poisoned /\ req[c].addr \in Addr
  /\ peers' = [peers EXCEPT ![req[c].hash] = Append(@, req[c].addr)]
  /\ acked' = acked \cup {<<req[c].hash, req[c].addr>>}
  /\ Answer(c, 204, <<>>, {})
  /\ UNCHANGED <<listing, poisoned, req, posts, since>>

\* Mutant: an address that does not parse is answered with 400.
MRefuseAddress(c) ==
  /\ pc[c] = "listed" /\ ~poisoned /\ req[c].addr \notin Addr
  /\ Answer(c, 400, <<>>, {})
  /\ UNCHANGED <<listing, peers, poisoned, req, posts, acked, since>>

(* The unwrap of the parsed address panics while the guard is held.        *)
PanicOnAddress(c) ==
  /\ pc[c] = "listed" /\ ~poisoned /\ req[c].addr \notin Addr
  /\ poisoned' = TRUE
  /\ Answer(c, 0, <<>>, {})
  /\ UNCHANGED <<listing, peers, req, posts, acked, since>>

RefusePoisoned(c) ==
  /\ poisoned
  /\ pc[c] = "listed" \/ (pc[c] = "arrived" /\ req[c].op = "lookup")
  /\ Answer(c, 500, <<>>, {})
  /\ UNCHANGED <<listing, peers, poisoned, req, posts, acked, since>>

AnswerLookup(c) ==
  /\ pc[c] = "arrived" /\ req[c].op = "lookup" /\ ~poisoned
  /\ LET ps == peers[req[c].hash]
     IN  Answer(c, IF ps = <<>> THEN 404 ELSE 200, ps, {})
  /\ UNCHANGED <<listing, peers, poisoned, req, posts, acked, since>>

ListFiles(c) ==
  /\ pc[c] = "arrived" /\ req[c].op = "files"
  /\ Answer(c, 200, <<>>, Range(listing) \ {NoName})
  /\ UNCHANGED <<listing, peers, poisoned, req, posts, acked, since>>

Handle(c) ==
  \/ RejectBody(c)
  \/ AddFile(c)
  \/ PushPeer(c)
  \/ PanicOnAddress(c)
  \/ RefusePoisoned(c)
  \/ AnswerLookup(c)
  \/ ListFiles(c)

Next ==
  \/ \E c \in Client, r \in Request : Arrive(c, r)
  \/ \E c \in Client : Handle(c)

Spec == Init /\ [][Next]_vars

(* A handler does not block for good: the locks are held for a moment, and *)
(* the runtime runs the task of every connection.  Clients need not call.  *)
FairSpec == Spec /\ \A c \in Client : WF_vars(Handle(c))
-----------------------------------------------------------------------------
TypeOK ==
  /\ listing \in [InfoHash -> FileName \cup {NoName}]
  /\ peers \in [InfoHash -> Seq(Addr)]
  /\ poisoned \in BOOLEAN
  /\ pc \in [Client -> {"idle", "arrived", "listed"}]
  /\ req \in [Client -> Request]
  /\ reply \in [Client -> Response]
  /\ posts \in 0 .. MaxPosts
  /\ acked \subseteq InfoHash \X Addr
  /\ since \in [Client -> SUBSET acked]

(* The two locks are taken one after the other, yet no file has peers that *)
(* are not in the listing, at any moment between two steps.                *)
PeersAreListed == \A h \in InfoHash : peers[h] # <<>> => listing[h] # NoName

(* A registration that was answered with 204 before a request arrived is   *)
(* in the answer to that request, whatever ran in between: its address in  *)
(* the peers of its hash, its file among the files.                        *)
AnswersAreFresh ==
  \A c \in Client : pc[c] = "idle" => \A r \in since[c] :
    /\ req[c].op = "lookup" /\ req[c].hash = r[1] /\ reply[c].status \in {200, 404} =>
         r[2] \in Range(reply[c].peers)
    /\ req[c].op = "files" => listing[r[1]] \in reply[c].files

(* The name under which a file is listed never changes, and the addresses  *)
(* of a file are only added to at the end, so that two answers to the same *)
(* lookup never contradict each other.                                     *)
RegistryOnlyGrows ==
  [][\A h \in InfoHash : /\ listing[h] # NoName => listing'[h] = listing[h]
                         /\ IsPrefix(peers[h], peers'[h])]_vars

(* One registration whose address does not parse ends the service for all: *)
(* the addresses are frozen, no lookup and no registration succeeds again, *)
(* and nothing short of a restart clears it.                               *)
PoisonIsFinal ==
  [][poisoned =>
       /\ poisoned' /\ peers' = peers
       /\ \A c \in Client : pc[c] # "idle" /\ pc'[c] = "idle" =>
            reply'[c].status \in {400, 500} \/ req[c].op = "files"]_vars

(* A file that is listed has a peer in the end, unless the peers db was    *)
(* poisoned: the moment between the two locks passes.                      *)
ListedIsServed ==
  \A h \in InfoHash : listing[h] # NoName ~> peers[h] # <<>> \/ poisoned

(* bt/src/main.rs:111 offers what the tracker lists as "a file to download *)
(* from available peers": when no request is being handled, every file     *)
(* that is listed has a peer.                                              *)
ListedFilesHavePeers ==
  (\A c \in Client : pc[c] = "idle") =>
    \A h \in InfoHash : listing[h] # NoName => peers[h] # <<>>
=============================================================================
