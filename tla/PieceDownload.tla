---------------------------- MODULE PieceDownload ----------------------------
(***************************************************************************)
(* The parallel download of bt/src/peer_download.rs: PeerDownload::download*)
(* and the tasks it spawns.                                                *)
(*                                                                         *)
(*   - one task per connected stream (start_stream_downloader) takes piece *)
(*     requests from the unbounded channel `input' and puts the bytes of   *)
(*     each piece on the unbounded channel `output';                       *)
(*   - one task per piece puts the request of that piece on `input';       *)
(*   - the caller's own task collects pieces from `output' until it has as *)
(*     many as there are requests, and then writes the output file.        *)
(*                                                                         *)
(* The caller holds a sender and a receiver of both channels until it      *)
(* returns, so neither is closed while the download runs.                  *)
(*                                                                         *)
(* Bytes are abstracted to what SHA-1 tells apart: the number of the piece *)
(* of this torrent they are, or Corrupt for any other bytes.  What happens *)
(* on one connection while a piece is fetched is module PeerSession; here  *)
(* a fetch ends with some bytes, or with an error or a panic.              *)
(***************************************************************************)
EXTENDS Integers, Sequences, FiniteSets, Functions

CONSTANTS
  PieceCount,  \* torrent_metadata.pieces.len()
  Worker,      \* the tasks spawned for the connected streams
  Corrupt,     \* bytes that have the hash of no piece of this torrent
  NoPiece,     \* a worker that has taken no request
  Untouched    \* whatever was at output_path before the download

Piece == 0 .. PieceCount - 1
Bytes == Piece \cup {Corrupt}

ASSUME PieceCountAssumption == PieceCount \in Nat
ASSUME WorkerAssumption == IsFiniteSet(Worker)
ASSUME CorruptAssumption == Corrupt \notin Piece
ASSUME NoPieceAssumption == NoPiece \notin Piece
ASSUME UntouchedAssumption == Untouched \notin Seq(Bytes)

VARIABLES
  spawned,    \* how many of the per-piece sender tasks were spawned
  sending,    \* the pieces whose sender task has not sent yet
  input,      \* the channel of piece requests
  worker,     \* what each stream task does
  job,        \* the request a stream task took last
  output,     \* the channel of downloaded pieces
  collected,  \* downloaded_torrent
  main,       \* where the caller's task is
  file        \* what is at output_path

vars == <<spawned, sending, input, worker, job, output, collected, main, file>>
taskVars == <<worker, job>>
fileVars == <<main, file>>

Collecting == {"spawn", "collect"}
Returned == main \in {"ok", "error"}

Init ==
  /\ spawned = 0
  /\ sending = {}
  /\ input = <<>>
  /\ worker = [w \in Worker |-> "receive"]
  /\ job = [w \in Worker |-> NoPiece]
  /\ output = <<>>
  /\ collected = <<>>
  /\ main = "spawn"
  /\ file = Untouched
-----------------------------------------------------------------------------
(* The caller spawns one sender task per piece, then starts to collect.    *)

\* Mutant: an inclusive range, one sender too many.
MSpawnSender ==
  /\ main = "spawn"
  /\ spawned <= PieceCount
  /\ spawned' = spawned + 1
  /\ sending' = sending \cup {spawned}
  /\ UNCHANGED <<input, taskVars, output, collected, fileVars>>

SpawnSender ==
  /\ main = "spawn"
  /\ spawned < PieceCount
  /\ spawned' = spawned + 1
  /\ sending' = sending \cup {spawned}
  /\ UNCHANGED <<input, taskVars, output, collected, fileVars>>

\* Mutant: the output file is opened before the pieces are collected.
MStartCollecting ==
  /\ main = "spawn"
  /\ spawned = PieceCount
  /\ main' = "collect"
  /\ file' = <<>>
  /\ UNCHANGED <<spawned, sending, input, taskVars, output, collected>>

StartCollecting ==
  /\ main = "spawn"
  /\ spawned = PieceCount
  /\ main' = "collect"
  /\ UNCHANGED <<spawned, sending, input, taskVars, output, collected, file>>

(* The sender tasks run in any order: the runtime schedules them.          *)
Send(p) ==
  /\ p \in sending
  /\ sending' = sending \ {p}
  /\ input' = Append(input, p)
  /\ UNCHANGED <<spawned, taskVars, output, collected, fileVars>>
-----------------------------------------------------------------------------
(* A stream task.                                                          *)

\* Mutant: a broadcast channel, the request stays for the other receivers.
MTakeRequest(w) ==
  /\ worker[w] = "receive"
  /\ input # <<>>
  /\ job' = [job EXCEPT ![w] = Head(input)]
  /\ worker' = [worker EXCEPT ![w] = "fetch"]
  /\ UNCHANGED <<spawned, sending, input, output, collected, fileVars>>

TakeRequest(w) ==
  /\ worker[w] = "receive"
  /\ input # <<>>
  /\ input' = Tail(input)
  /\ job' = [job EXCEPT ![w] = Head(input)]
  /\ worker' = [worker EXCEPT ![w] = "fetch"]
  /\ UNCHANGED <<spawned, sending, output, collected, fileVars>>

\* Mutant: the hash is not compared.
MHashMatches(p, bytes) == TRUE

HashMatches(p, bytes) == bytes = p

\* Mutant: a mismatch goes on with the next request instead of ending the task.
MFinishContinue(w, bytes) ==
  /\ worker[w] = "fetch"
  /\ worker' = [worker EXCEPT ![w] = "receive"]
  /\ output' = IF HashMatches(job[w], bytes) THEN Append(output, bytes) ELSE output
  /\ UNCHANGED <<spawned, sending, input, job, collected, fileVars>>

\* Mutant: a task downloads one piece and leaves.
MFinishOnce(w, bytes) ==
  /\ worker[w] = "fetch"
  /\ HashMatches(job[w], bytes)
  /\ output' = Append(output, bytes)
  /\ worker' = [worker EXCEPT ![w] = "ended"]
  /\ UNCHANGED <<spawned, sending, input, job, collected, fileVars>>

(* The blocks of the piece are all there.  The hash decides whether the    *)
(* piece is sent on; if it does not match, download_piece bails out and    *)
(* the `?' ends the task.                                                  *)
FinishPiece(w, bytes) ==
  /\ worker[w] = "fetch"
  /\ IF HashMatches(job[w], bytes)
     THEN /\ output' = Append(output, bytes)
          /\ worker' = [worker EXCEPT ![w] = "receive"]
     ELSE /\ worker' = [worker EXCEPT ![w] = "failed"]
          /\ UNCHANGED output
  /\ UNCHANGED <<spawned, sending, input, job, collected, fileVars>>

\* Mutant: the error goes to `output', where it counts as a piece.
MFailFetch(w) ==
  /\ worker[w] = "fetch"
  /\ worker' = [worker EXCEPT ![w] = "failed"]
  /\ output' = Append(output, Corrupt)
  /\ UNCHANGED <<spawned, sending, input, job, collected, fileVars>>

(* Sending a request or receiving a block fails, the peer sends something  *)
(* else than a piece, or an assertion about the block fails: the task ends *)
(* and the request it took is dropped with it.                             *)
FailFetch(w) ==
  /\ worker[w] = "fetch"
  /\ worker' = [worker EXCEPT ![w] = "failed"]
  /\ UNCHANGED <<spawned, sending, input, job, output, collected, fileVars>>

\* Mutant: try_recv, a task leaves as soon as it finds no request.
MEndWorker(w) ==
  /\ worker[w] = "receive"
  /\ input = <<>>
  /\ worker' = [worker EXCEPT ![w] = "ended"]
  /\ UNCHANGED <<spawned, sending, input, job, output, collected, fileVars>>

(* Once the caller has returned the input channel is closed: a task that   *)
(* waits for a request leaves its loop.                                    *)
EndWorker(w) ==
  /\ worker[w] = "receive"
  /\ Returned
  /\ sending = {}
  /\ input = <<>>
  /\ worker' = [worker EXCEPT ![w] = "ended"]
  /\ UNCHANGED <<spawned, sending, input, job, output, collected, fileVars>>
-----------------------------------------------------------------------------
(* The caller collects and writes.                                         *)

\* One turn of the loop that is left when `enough' pieces are there.
CollectUpTo(enough) ==
  /\ main = "collect"
  /\ output # <<>>
  /\ collected' = Append(collected, Head(output))
  /\ output' = Tail(output)
  /\ main' = IF Len(collected') = enough THEN "mkdir" ELSE "collect"
  /\ UNCHANGED <<spawned, sending, input, taskVars, file>>

\* Mutants: the loop stops one piece early, or one piece late.
MCollectEarly == CollectUpTo(PieceCount - 1)
MCollectLate == CollectUpTo(PieceCount + 1)

Collect == CollectUpTo(PieceCount)

MakeDirectory ==
  /\ main = "mkdir"
  /\ main' \in {"create", "error"}
  /\ UNCHANGED <<spawned, sending, input, taskVars, output, collected, file>>

(* File::create truncates a file that is already there.                    *)
CreateFile ==
  /\ main = "create"
  /\ \/ main' = "write" /\ file' = <<>>
     \/ main' = "error" /\ UNCHANGED file
  /\ UNCHANGED <<spawned, sending, input, taskVars, output, collected>>

(* write_all writes everything, or fails with any part of it written.      *)
WriteFile ==
  /\ main = "write"
  /\ \/ main' = "ok" /\ file' = collected
     \/ /\ main' = "error"
        /\ \E n \in 0 .. Len(collected) - 1 : file' = SubSeq(collected, 1, n)
  /\ UNCHANGED <<spawned, sending, input, taskVars, output, collected>>
-----------------------------------------------------------------------------
EndFetch(w) == FailFetch(w) \/ \E bytes \in Bytes : FinishPiece(w, bytes)

Caller == SpawnSender \/ StartCollecting \/ Collect \/ MakeDirectory
            \/ CreateFile \/ WriteFile

Next ==
  \/ SpawnSender
  \/ StartCollecting
  \/ \E p \in Piece : Send(p)
  \/ \E w \in Worker : TakeRequest(w)
  \/ \E w \in Worker, bytes \in Bytes : FinishPiece(w, bytes)
  \/ \E w \in Worker : FailFetch(w)
  \/ \E w \in Worker : EndWorker(w)
  \/ Collect
  \/ MakeDirectory
  \/ CreateFile
  \/ WriteFile

Spec == Init /\ [][Next]_vars

(* The runtime runs every task that can run.  That a fetch ends is what    *)
(* module PeerSession shows of a connection to this project's uploader.    *)
FairSpec ==
  /\ Spec
  /\ WF_vars(Caller)
  /\ \A p \in Piece : WF_vars(Send(p))
  /\ \A w \in Worker : WF_vars(TakeRequest(w)) /\ WF_vars(EndFetch(w))
                         /\ WF_vars(EndWorker(w))
-----------------------------------------------------------------------------
(* Where a piece can be, from its request to its bytes.                    *)

Unspawned == spawned .. PieceCount - 1
Fetching == {job[w] : w \in {v \in Worker : worker[v] = "fetch"}}
Lost == {job[w] : w \in {v \in Worker : worker[v] = "failed"}}

(* The types of the variables.                                             *)
TypeOK ==
  /\ spawned \in 0 .. PieceCount
  /\ sending \subseteq Piece
  /\ input \in Seq(Piece)
  /\ worker \in [Worker -> {"receive", "fetch", "failed", "ended"}]
  /\ job \in [Worker -> Piece \cup {NoPiece}]
  /\ output \in Seq(Bytes)
  /\ collected \in Seq(Bytes)
  /\ main \in {"spawn", "collect", "mkdir", "create", "write", "ok", "error"}
  /\ file \in Seq(Bytes) \cup {Untouched}

(* However the tasks interleave, a piece is never in two places at once:   *)
(* no two tasks fetch the same piece and no piece is collected twice       *)
(* (the channel hands each request to one receiver only).                  *)
NoPieceTwice ==
  /\ IsInjective(input) /\ IsInjective(output) /\ IsInjective(collected)
  /\ \A v, w \in Worker :
       {worker[v], worker[w]} \subseteq {"fetch", "failed"} /\ job[v] = job[w] => v = w
  /\ Unspawned \cap (sending \cup Range(input) \cup Fetching \cup Lost
                       \cup Range(output) \cup Range(collected)) = {}
  /\ sending \cap (Range(input) \cup Fetching \cup Lost
                     \cup Range(output) \cup Range(collected)) = {}
  /\ Range(input) \cap (Fetching \cup Lost \cup Range(output) \cup Range(collected)) = {}
  /\ (Fetching \cup Lost) \cap (Range(output) \cup Range(collected)) = {}
  /\ Range(output) \cap Range(collected) = {}

(* Every piece is somewhere, and the only way to lose one is a stream task *)
(* that ended while it held the request (the `?' in                        *)
(* start_stream_downloader, or a panic).                                   *)
NoPieceDropped ==
  Piece \subseteq Unspawned \cup sending \cup Range(input) \cup Fetching \cup Lost
                   \cup Range(output) \cup Range(collected)

(* A file reported as downloaded has the verified bytes of every piece,    *)
(* each once.  (In which order is FileInOrder.)                            *)
CompleteFile ==
  main = "ok" => Len(file) = PieceCount /\ Range(file) = Piece

(* What was at output_path survives until every piece is there: counting   *)
(* items up to pieces_to_download is as good as knowing them all.          *)
OutputTouchedOnlyWhenComplete ==
  file # Untouched => Range(collected) = Piece

(* A failure is never recovered: a request is not put back, so once a      *)
(* stream task has failed the caller does not get past the collecting      *)
(* loop, and when it does nothing is left behind in a channel or a task.   *)
NoReturnAfterFailure ==
  main \notin Collecting =>
    /\ \A w \in Worker : worker[w] \in {"receive", "ended"}
    /\ sending = {} /\ input = <<>> /\ output = <<>>

(* No task can do anything and the caller still waits on `output'.         *)
Blocked ==
  /\ main = "collect" /\ output = <<>> /\ sending = {}
  /\ \A w \in Worker : \/ worker[w] \in {"failed", "ended"}
                        \/ /\ worker[w] = "receive"
                           /\ input = <<>>

(* The caller waits forever (it holds a sender of `output', so recv never  *)
(* fails) only after a piece was lost, or if there was no stream or no     *)
(* piece at all: there is no other deadlock between the channels.          *)
BlockedOnlyAfterLoss ==
  Blocked => Lost # {} \/ Worker = {} \/ PieceCount = 0

(* download implements FileFetch: verified pieces are gathered one by one, *)
(* the output is truncated only when all are there, and then completed.    *)
Fetch == INSTANCE FileFetch WITH
           got <- Range(collected),
           out <- IF file = Untouched THEN "untouched"
                  ELSE IF main = "ok" THEN "whole" ELSE "partial"

FetchSpec == Fetch!Spec

(* If no stream task ever fails, the download returns.                     *)
ReturnsUnlessLoss == <>(Returned \/ Lost # {})

(* A failed task takes down only the piece it held: the others are all     *)
(* collected as long as one stream task survives.                          *)
SurvivorsDrain ==
  \A p \in Piece : <>(\/ p \in Range(collected) \cup Lost
                      \/ \A w \in Worker : worker[w] = "failed")

(* README.md:78: "The client assembles the received pieces and saves the   *)
(* complete file": the file has its pieces in the order of the torrent.    *)
FileInOrder == main = "ok" => file = [i \in 1 .. PieceCount |-> i - 1]

(* peer_download.rs:165 logs a piece that failed and goes on collecting:   *)
(* the failure of a stream reaches the caller, and the download ends.      *)
DownloadReturns == <>Returned
=============================================================================
