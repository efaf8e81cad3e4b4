------------------------ MODULE PieceDownload_proofs ------------------------
(* Theorems about PieceDownload, for any number of pieces and streams.     *)
EXTENDS PieceDownload, FiniteSetTheorems, SequenceTheorems, TLAPS

(* Putting an item on a channel adds it to what the channel holds.         *)
LEMMA RangeOfAppend ==
  ASSUME NEW S, NEW q \in Seq(S), NEW e \in S
  PROVE  /\ Append(q, e) \in Seq(S)
         /\ Range(Append(q, e)) = Range(q) \cup {e}
         /\ IsInjective(q) /\ e \notin Range(q) => IsInjective(Append(q, e))
<1> DEFINE r == Append(q, e)
<1>1. /\ r \in Seq(S) /\ Len(r) = Len(q) + 1 /\ Len(q) \in Nat
      /\ DOMAIN q = 1 .. Len(q) /\ DOMAIN r = 1 .. Len(q) + 1
      /\ \A i \in 1 .. Len(q) : r[i] = q[i]
      /\ r[Len(q) + 1] = e
  BY AppendProperties, LenProperties
<1> HIDE DEF r
<1>2. Range(r) = Range(q) \cup {e}
  BY <1>1 DEF Range
<1>3. ASSUME IsInjective(q), e \notin Range(q)
      PROVE  IsInjective(r)
  BY <1>1, <1>3 DEF Range, IsInjective
<1> QED BY <1>1, <1>2, <1>3 DEF r

(* Taking the head of a channel without duplicates removes just that item. *)
LEMMA RangeOfTail ==
  ASSUME NEW S, NEW q \in Seq(S), q # <<>>
  PROVE  /\ Tail(q) \in Seq(S) /\ Head(q) \in S /\ Head(q) \in Range(q)
         /\ Range(q) = Range(Tail(q)) \cup {Head(q)}
         /\ IsInjective(q) => IsInjective(Tail(q)) /\ Head(q) \notin Range(Tail(q))
<1> DEFINE t == Tail(q)
<1>1. /\ t \in Seq(S) /\ Head(q) \in S
      /\ Len(q) \in Nat /\ Len(q) > 0
      /\ DOMAIN q = 1 .. Len(q) /\ DOMAIN t = 1 .. Len(q) - 1
      /\ \A i \in 1 .. Len(q) - 1 : t[i] = q[i + 1]
      /\ Head(q) = q[1]
  BY HeadTailProperties, LenProperties, EmptySeq
<1> HIDE DEF t
<1>2. Range(q) = Range(t) \cup {Head(q)}
  <2>1. ASSUME NEW x \in Range(q) PROVE x \in Range(t) \cup {Head(q)}
    <3>1. PICK i \in 1 .. Len(q) : x = q[i]
      BY <1>1 DEF Range
    <3>2. CASE i = 1
      BY <3>1, <3>2, <1>1
    <3>3. CASE i # 1
      <4>1. i - 1 \in 1 .. Len(q) - 1 /\ t[i - 1] = q[i]
        BY <3>3, <1>1
      <4> QED BY <4>1, <3>1, <1>1 DEF Range
    <3> QED BY <3>2, <3>3
  <2>2. Range(t) \subseteq Range(q) /\ Head(q) \in Range(q)
    BY <1>1 DEF Range
  <2> QED BY <2>1, <2>2
<1>3. ASSUME IsInjective(q) PROVE IsInjective(t) /\ Head(q) \notin Range(t)
  BY <1>1, <1>3 DEF IsInjective, Range
<1> QED BY <1>1, <1>2, <1>3 DEF t

(* A sequence of pieces without duplicates is no longer than there are     *)
(* pieces, and has all of them when it is that long.                       *)
LEMMA InjectiveLength ==
  ASSUME NEW q \in Seq(Piece), IsInjective(q)
  PROVE  /\ Len(q) = PieceCount => Range(q) = Piece
         /\ Range(q) = Piece => Len(q) = PieceCount
<1>1. /\ Len(q) \in Nat /\ q \in [1 .. Len(q) -> Piece] /\ DOMAIN q = 1 .. Len(q)
  BY LenProperties
<1>2. /\ IsFiniteSet(Piece) /\ Cardinality(Piece) = PieceCount
  BY FS_Interval, PieceCountAssumption DEF Piece
<1>3. /\ IsFiniteSet(1 .. Len(q)) /\ Cardinality(1 .. Len(q)) = Len(q)
  BY FS_Interval, <1>1
<1>4. q \in Injection(1 .. Len(q), Piece)
  BY <1>1 DEF IsInjective, Injection
<1>5. Cardinality(1 .. Len(q)) = Cardinality(Piece)
        <=> q \in Surjection(1 .. Len(q), Piece)
  BY <1>2, <1>4, FS_Injection
<1>6. q \in Surjection(1 .. Len(q), Piece) <=> Range(q) = Piece
  BY <1>1 DEF Surjection, Range
<1> QED BY <1>2, <1>3, <1>5, <1>6
-----------------------------------------------------------------------------
(* The inductive invariant: the places of the pieces, plus what ties them  *)
(* to the control state of the tasks and of the caller.                    *)

(* Only verified pieces get past the hash check.                           *)
Verified == output \in Seq(Piece) /\ collected \in Seq(Piece)

TaskInv ==
  \A w \in Worker :
    /\ worker[w] \in {"fetch", "failed"} => job[w] \in Piece
    /\ worker[w] = "ended" => Returned

CallerInv ==
  /\ main = "spawn" => Len(collected) = 0
  /\ main = "collect" => /\ spawned = PieceCount
                         /\ PieceCount = 0 \/ Len(collected) # PieceCount
  /\ main \notin Collecting => Len(collected) = PieceCount
  /\ main \in {"spawn", "collect", "mkdir", "create"} => file = Untouched
  /\ main = "write" => file # Untouched
  /\ main = "ok" => file = collected

IInv == TypeOK /\ Verified /\ TaskInv /\ CallerInv /\ NoPieceTwice /\ NoPieceDropped

(* Constant facts about the sets involved.                                 *)
LEMMA UntouchedIsNoSequence ==
  ASSUME NEW s \in Seq(Bytes) PROVE s # Untouched
BY UntouchedAssumption

LEMMA PiecesAreBytes == Seq(Piece) \subseteq Seq(Bytes)
BY SeqMonotonic DEF Bytes

LEMMA InitIInv == Init => IInv
<1> SUFFICES ASSUME Init PROVE IInv
  OBVIOUS
<1> USE PieceCountAssumption DEF Init
<1>1. <<>> \in Seq(Piece) /\ <<>> \in Seq(Bytes) /\ Len(<<>>) = 0 /\ Range(<<>>) = {}
      /\ IsInjective(<<>>)
  BY EmptySeq DEF Range, IsInjective
<1>2. TypeOK
  BY <1>1 DEF TypeOK
<1>3. Verified /\ TaskInv /\ CallerInv
  BY <1>1 DEF Verified, TaskInv, CallerInv, Collecting
<1>4. Unspawned = Piece /\ Fetching = {} /\ Lost = {}
  BY DEF Unspawned, Piece, Fetching, Lost
<1>5. NoPieceTwice
  BY <1>1, <1>4 DEF NoPieceTwice
<1>6. NoPieceDropped
  BY <1>4 DEF NoPieceDropped
<1> QED BY <1>2, <1>3, <1>5, <1>6 DEF IInv

(* Every step keeps the inductive invariant: each action moves one piece   *)
(* from one place to the next, or none.                                    *)
LEMMA NextIInv == IInv /\ [Next]_vars => IInv'
<1> SUFFICES ASSUME IInv, [Next]_vars PROVE IInv'
  OBVIOUS
<1> USE PieceCountAssumption
<1>0. TypeOK /\ Verified /\ TaskInv /\ CallerInv /\ NoPieceTwice /\ NoPieceDropped
  BY DEF IInv
<1>1. CASE SpawnSender
  <2>0. /\ main = "spawn" /\ spawned < PieceCount /\ spawned' = spawned + 1
        /\ sending' = sending \cup {spawned}
        /\ UNCHANGED <<input, worker, job, output, collected, main, file>>
    BY <1>1 DEF SpawnSender, taskVars, fileVars
  <2>1. spawned \in Unspawned /\ spawned \in Piece /\ Unspawned' = Unspawned \ {spawned}
    BY <2>0, <1>0 DEF Unspawned, Piece, TypeOK
  <2>2. Fetching' = Fetching /\ Lost' = Lost
    BY <2>0 DEF Fetching, Lost
  <2>3. TypeOK' /\ Verified'
    BY <2>0, <2>1, <1>0 DEF TypeOK, Verified
  <2>4. TaskInv' /\ CallerInv'
    BY <2>0, <1>0 DEF TaskInv, CallerInv, Returned, Collecting
  <2>5. NoPieceTwice'
    BY <2>0, <2>1, <2>2, <1>0 DEF NoPieceTwice
  <2>6. NoPieceDropped'
    BY <2>0, <2>1, <2>2, <1>0 DEF NoPieceDropped
  <2> QED BY <2>3, <2>4, <2>5, <2>6 DEF IInv
<1>2. CASE StartCollecting
  <2>0. /\ main = "spawn" /\ spawned = PieceCount /\ main' = "collect"
        /\ UNCHANGED <<spawned, sending, input, worker, job, output, collected, file>>
    BY <1>2 DEF StartCollecting, taskVars
  <2>2. Fetching' = Fetching /\ Lost' = Lost /\ Unspawned' = Unspawned
    BY <2>0 DEF Fetching, Lost, Unspawned
  <2>3. TypeOK' /\ Verified'
    BY <2>0, <1>0 DEF TypeOK, Verified
  <2>4. TaskInv' /\ CallerInv'
    BY <2>0, <1>0 DEF TaskInv, CallerInv, Returned, Collecting
  <2>5. NoPieceTwice' /\ NoPieceDropped'
    BY <2>0, <2>2, <1>0 DEF NoPieceTwice, NoPieceDropped
  <2> QED BY <2>3, <2>4, <2>5 DEF IInv
<1>3. ASSUME NEW p \in Piece, Send(p) PROVE IInv'
  <2>0. /\ p \in sending /\ sending' = sending \ {p} /\ input' = Append(input, p)
        /\ UNCHANGED <<spawned, worker, job, output, collected, main, file>>
    BY <1>3 DEF Send, taskVars, fileVars
  <2>1. /\ input' \in Seq(Piece) /\ Range(input') = Range(input) \cup {p}
        /\ IsInjective(input')
    BY <2>0, <1>0, RangeOfAppend DEF TypeOK, NoPieceTwice
  <2>2. Fetching' = Fetching /\ Lost' = Lost /\ Unspawned' = Unspawned
    BY <2>0 DEF Fetching, Lost, Unspawned
  <2>3. TypeOK' /\ Verified'
    BY <2>0, <2>1, <1>0 DEF TypeOK, Verified
  <2>4. TaskInv' /\ CallerInv'
    BY <2>0, <1>0 DEF TaskInv, CallerInv, Returned, Collecting
  <2>5. NoPieceTwice'
    BY <2>0, <2>1, <2>2, <1>0 DEF NoPieceTwice
  <2>6. NoPieceDropped'
    BY <2>0, <2>1, <2>2, <1>0 DEF NoPieceDropped
  <2> QED BY <2>3, <2>4, <2>5, <2>6 DEF IInv
<1>4. ASSUME NEW w \in Worker, TakeRequest(w) PROVE IInv'
  <2>0. /\ worker[w] = "receive" /\ input # <<>> /\ input' = Tail(input)
        /\ job' = [job EXCEPT ![w] = Head(input)]
        /\ worker' = [worker EXCEPT ![w] = "fetch"]
        /\ UNCHANGED <<spawned, sending, output, collected, main, file>>
    BY <1>4 DEF TakeRequest, fileVars
  <2> DEFINE p == Head(input)
  <2>1. /\ input' \in Seq(Piece) /\ p \in Piece
        /\ Range(input) = Range(input') \cup {p}
        /\ IsInjective(input') /\ p \notin Range(input')
    BY <2>0, <1>0, RangeOfTail DEF TypeOK, NoPieceTwice
  <2> HIDE DEF p
  <2>2. /\ Fetching' = Fetching \cup {p} /\ Lost' = Lost /\ Unspawned' = Unspawned
    BY <2>0, <1>0 DEF Fetching, Lost, Unspawned, TypeOK, p
  <2>3. TypeOK' /\ Verified'
    BY <2>0, <2>1, <1>0 DEF TypeOK, Verified, p
  <2>4. TaskInv' /\ CallerInv'
    BY <2>0, <2>1, <1>0 DEF TaskInv, CallerInv, Returned, Collecting, TypeOK, p
  <2>5. ASSUME NEW v \in Worker, worker[v] \in {"fetch", "failed"} PROVE job[v] # p
    BY <2>1, <2>5, <1>0 DEF NoPieceTwice, Fetching, Lost
  <2>6. \A u, v \in Worker : {worker'[u], worker'[v]} \subseteq {"fetch", "failed"}
                               /\ job'[u] = job'[v] => u = v
    BY <2>0, <2>5, <1>0 DEF NoPieceTwice, TypeOK, p
  <2>7. NoPieceTwice'
    BY <2>0, <2>1, <2>2, <2>6, <1>0 DEF NoPieceTwice
  <2>8. NoPieceDropped'
    BY <2>0, <2>1, <2>2, <1>0 DEF NoPieceDropped
  <2> QED BY <2>3, <2>4, <2>7, <2>8 DEF IInv
<1>5. ASSUME NEW w \in Worker, FailFetch(w) PROVE IInv'
  <2>0. /\ worker[w] = "fetch" /\ worker' = [worker EXCEPT ![w] = "failed"]
        /\ UNCHANGED <<spawned, sending, input, job, output, collected, main, file>>
    BY <1>5 DEF FailFetch, fileVars
  <2>1. job[w] \in Piece /\ job[w] \in Fetching
    BY <2>0, <1>0 DEF TaskInv, Fetching
  <2>2. \A v \in Worker \ {w} : worker[v] = "fetch" => job[v] # job[w]
    BY <2>0, <1>0 DEF NoPieceTwice
  <2>3. /\ Fetching' \cup Lost' = Fetching \cup Lost /\ Unspawned' = Unspawned
    BY <2>0, <1>0 DEF Fetching, Lost, Unspawned, TypeOK
  <2>4. TypeOK' /\ Verified'
    BY <2>0, <1>0 DEF TypeOK, Verified
  <2>5. TaskInv' /\ CallerInv'
    BY <2>0, <2>1, <1>0 DEF TaskInv, CallerInv, Returned, Collecting, TypeOK
  <2>6. \A u, v \in Worker : {worker'[u], worker'[v]} \subseteq {"fetch", "failed"}
                               /\ job'[u] = job'[v] => u = v
    BY <2>0, <1>0 DEF NoPieceTwice, TypeOK
  <2>7. NoPieceTwice'
    BY <2>0, <2>3, <2>6, <1>0 DEF NoPieceTwice
  <2>8. NoPieceDropped'
    BY <2>0, <2>3, <1>0 DEF NoPieceDropped
  <2> QED BY <2>4, <2>5, <2>7, <2>8 DEF IInv
<1>6. ASSUME NEW w \in Worker, NEW bytes \in Bytes, FinishPiece(w, bytes) PROVE IInv'
  <2>1. CASE ~HashMatches(job[w], bytes)
    <3>1. FailFetch(w)
      BY <1>6, <2>1 DEF FinishPiece, FailFetch
    <3> QED BY <3>1, <1>5
  <2>2. CASE HashMatches(job[w], bytes)
    <3> DEFINE p == job[w]
    <3>0. /\ worker[w] = "fetch" /\ worker' = [worker EXCEPT ![w] = "receive"]
          /\ output' = Append(output, p)
          /\ UNCHANGED <<spawned, sending, input, job, collected, main, file>>
      BY <1>6, <2>2 DEF FinishPiece, HashMatches, fileVars
    <3>1. p \in Piece /\ p \in Fetching
      BY <3>0, <1>0 DEF TaskInv, Fetching
    <3>2. p \notin Range(output) /\ p \notin Range(collected)
      BY <3>1, <1>0 DEF NoPieceTwice
    <3>3. /\ output' \in Seq(Piece) /\ Range(output') = Range(output) \cup {p}
          /\ IsInjective(output')
      BY <3>0, <3>1, <3>2, <1>0, RangeOfAppend DEF Verified, NoPieceTwice
    <3> HIDE DEF p
    <3>4. /\ Fetching' = Fetching \ {p} /\ Lost' = Lost /\ Unspawned' = Unspawned
          /\ p \notin Lost
      BY <3>0, <1>0 DEF Fetching, Lost, Unspawned, TypeOK, NoPieceTwice, p
    <3>5. TypeOK'
      BY <3>0, <3>3, <1>0, PiecesAreBytes DEF TypeOK
    <3>6. Verified'
      BY <3>0, <3>3, <1>0 DEF Verified
    <3>7. TaskInv' /\ CallerInv'
      BY <3>0, <1>0 DEF TaskInv, CallerInv, Returned, Collecting, TypeOK
    <3>8. \A u, v \in Worker : {worker'[u], worker'[v]} \subseteq {"fetch", "failed"}
                                 /\ job'[u] = job'[v] => u = v
      BY <3>0, <1>0 DEF NoPieceTwice, TypeOK
    <3>9. NoPieceTwice'
      BY <3>0, <3>1, <3>2, <3>3, <3>4, <3>8, <1>0 DEF NoPieceTwice
    <3>10. NoPieceDropped'
      BY <3>0, <3>3, <3>4, <1>0 DEF NoPieceDropped
    <3> QED BY <3>5, <3>6, <3>7, <3>9, <3>10 DEF IInv
  <2> QED BY <2>1, <2>2
<1>7. ASSUME NEW w \in Worker, EndWorker(w) PROVE IInv'
  <2>0. /\ worker[w] = "receive" /\ Returned
        /\ worker' = [worker EXCEPT ![w] = "ended"]
        /\ UNCHANGED <<spawned, sending, input, job, output, collected, main, file>>
    BY <1>7 DEF EndWorker, fileVars
  <2>1. Fetching' = Fetching /\ Lost' = Lost /\ Unspawned' = Unspawned
    BY <2>0, <1>0 DEF Fetching, Lost, Unspawned, TypeOK
  <2>2. TypeOK' /\ Verified'
    BY <2>0, <1>0 DEF TypeOK, Verified
  <2>3. TaskInv' /\ CallerInv'
    BY <2>0, <1>0 DEF TaskInv, CallerInv, Returned, Collecting, TypeOK
  <2>4. \A u, v \in Worker : {worker'[u], worker'[v]} \subseteq {"fetch", "failed"}
                               /\ job'[u] = job'[v] => u = v
    BY <2>0, <1>0 DEF NoPieceTwice, TypeOK
  <2>5. NoPieceTwice'
    BY <2>0, <2>1, <2>4, <1>0 DEF NoPieceTwice
  <2>6. NoPieceDropped'
    BY <2>0, <2>1, <1>0 DEF NoPieceDropped
  <2> QED BY <2>2, <2>3, <2>5, <2>6 DEF IInv
<1>8. CASE Collect
  <2> DEFINE p == Head(output)
  <2>0. /\ main = "collect" /\ output # <<>>
        /\ collected' = Append(collected, p) /\ output' = Tail(output)
        /\ main' = IF Len(collected') = PieceCount THEN "mkdir" ELSE "collect"
        /\ UNCHANGED <<spawned, sending, input, worker, job, file>>
    BY <1>8 DEF Collect, CollectUpTo, taskVars
  <2>1. /\ output' \in Seq(Piece) /\ p \in Piece
        /\ Range(output) = Range(output') \cup {p}
        /\ IsInjective(output') /\ p \notin Range(output')
    BY <2>0, <1>0, RangeOfTail DEF Verified, NoPieceTwice
  <2>2. p \notin Range(collected)
    BY <2>1, <1>0 DEF NoPieceTwice
  <2> HIDE DEF p
  <2>3. /\ collected' \in Seq(Piece) /\ Range(collected') = Range(collected) \cup {p}
        /\ IsInjective(collected')
    BY <2>0, <2>1, <2>2, <1>0, RangeOfAppend DEF Verified, NoPieceTwice
  <2>4. Fetching' = Fetching /\ Lost' = Lost /\ Unspawned' = Unspawned
    BY <2>0 DEF Fetching, Lost, Unspawned
  <2>5. TypeOK'
    BY <2>0, <2>1, <2>3, <1>0, PiecesAreBytes DEF TypeOK
  <2>6. Verified'
    BY <2>1, <2>3 DEF Verified
  <2>7. TaskInv' /\ CallerInv'
    BY <2>0, <1>0 DEF TaskInv, CallerInv, Returned, Collecting, TypeOK
  <2>8. NoPieceTwice'
    BY <2>0, <2>1, <2>2, <2>3, <2>4, <1>0 DEF NoPieceTwice
  <2>9. NoPieceDropped'
    BY <2>0, <2>1, <2>3, <2>4, <1>0 DEF NoPieceDropped
  <2> QED BY <2>5, <2>6, <2>7, <2>8, <2>9 DEF IInv
<1>9. ASSUME MakeDirectory \/ CreateFile \/ WriteFile PROVE IInv'
  <2>0. /\ main \in {"mkdir", "create", "write"}
        /\ UNCHANGED <<spawned, sending, input, worker, job, output, collected>>
    BY <1>9 DEF MakeDirectory, CreateFile, WriteFile, taskVars
  <2>1. /\ <<>> \in Seq(Bytes) /\ <<>> # Untouched
        /\ collected \in Seq(Bytes)
        /\ \A n \in 0 .. Len(collected) - 1 : SubSeq(collected, 1, n) \in Seq(Bytes)
    <3>1. collected \in Seq(Bytes) /\ Len(collected) \in Nat
          /\ \A i \in 1 .. Len(collected) : collected[i] \in Bytes
      BY <1>0, ElementOfSeq, LenProperties DEF TypeOK
    <3>2. \A n \in 0 .. Len(collected) - 1 : SubSeq(collected, 1, n) \in Seq(Bytes)
      BY <3>1, SubSeqProperties
    <3> QED BY <3>1, <3>2, EmptySeq, UntouchedIsNoSequence
  <2>2. TypeOK'
    BY <1>9, <2>0, <2>1, <1>0 DEF TypeOK, MakeDirectory, CreateFile, WriteFile
  <2>3. Verified'
    BY <2>0, <1>0 DEF Verified
  <2>4. TaskInv'
    BY <2>0, <1>0 DEF TaskInv, Returned
  <2>5. CallerInv'
    BY <1>9, <2>0, <2>1, <1>0
       DEF CallerInv, Collecting, MakeDirectory, CreateFile, WriteFile
  <2>6. Fetching' = Fetching /\ Lost' = Lost /\ Unspawned' = Unspawned
    BY <2>0 DEF Fetching, Lost, Unspawned
  <2>7. NoPieceTwice'
    BY <2>0, <2>6, <1>0 DEF NoPieceTwice
  <2>8. NoPieceDropped'
    BY <2>0, <2>6, <1>0 DEF NoPieceDropped
  <2> QED BY <2>2, <2>3, <2>4, <2>5, <2>7, <2>8 DEF IInv
<1>10. CASE UNCHANGED vars
  <2>0. UNCHANGED <<spawned, sending, input, worker, job, output, collected, main, file>>
    BY <1>10 DEF vars
  <2>1. TypeOK' /\ Verified'
    BY <2>0, <1>0 DEF TypeOK, Verified
  <2>2. TaskInv' /\ CallerInv'
    BY <2>0, <1>0 DEF TaskInv, CallerInv, Returned
  <2>3. Fetching' = Fetching /\ Lost' = Lost /\ Unspawned' = Unspawned
    BY <2>0 DEF Fetching, Lost, Unspawned
  <2>4. NoPieceTwice'
    BY <2>0, <2>3, <1>0 DEF NoPieceTwice
  <2>5. NoPieceDropped'
    BY <2>0, <2>3, <1>0 DEF NoPieceDropped
  <2> QED BY <2>1, <2>2, <2>4, <2>5 DEF IInv
<1> QED BY <1>1, <1>2, <1>3, <1>4, <1>5, <1>6, <1>7, <1>8, <1>9, <1>10
        DEF Next
-----------------------------------------------------------------------------
(* The invariant holds of every reachable state.                           *)
THEOREM Invariance == Spec => []IInv
<1>1. Init => IInv
  BY InitIInv
<1>2. IInv /\ [Next]_vars => IInv'
  BY NextIInv
<1> QED BY <1>1, <1>2, PTL DEF Spec

(* Past the collecting loop the collected pieces are all the pieces.       *)
LEMMA AllCollected ==
  ASSUME IInv, main \notin Collecting
  PROVE  Range(collected) = Piece /\ Len(collected) = PieceCount
BY InjectiveLength DEF IInv, CallerInv, NoPieceTwice, Verified

(* The types of the variables, for any number of pieces and streams.       *)
THEOREM TypeCorrect == Spec => []TypeOK
<1>1. IInv => TypeOK
  BY DEF IInv
<1> QED BY <1>1, Invariance, PTL

(* No piece is fetched or collected twice, in any interleaving of the      *)
(* tasks.                                                                  *)
THEOREM NoDuplication == Spec => []NoPieceTwice
<1>1. IInv => NoPieceTwice
  BY DEF IInv
<1> QED BY <1>1, Invariance, PTL

(* A piece is lost only with the stream task that held its request.        *)
THEOREM NoDrop == Spec => []NoPieceDropped
<1>1. IInv => NoPieceDropped
  BY DEF IInv
<1> QED BY <1>1, Invariance, PTL

(* A download that returns Ok has written the verified bytes of every      *)
(* piece exactly once.                                                     *)
THEOREM Completeness == Spec => []CompleteFile
<1>1. IInv => CompleteFile
  BY AllCollected DEF IInv, CallerInv, CompleteFile, Collecting
<1> QED BY <1>1, Invariance, PTL

(* The output path is not touched before every piece was verified.         *)
THEOREM OutputSafety == Spec => []OutputTouchedOnlyWhenComplete
<1>1. IInv => OutputTouchedOnlyWhenComplete
  BY AllCollected DEF IInv, CallerInv, OutputTouchedOnlyWhenComplete, Collecting
<1> QED BY <1>1, Invariance, PTL

(* The caller gets past the collecting loop only if no stream task failed, *)
(* and then no channel or task holds anything.                             *)
THEOREM FailureIsFinal == Spec => []NoReturnAfterFailure
<1>1. IInv => NoReturnAfterFailure
  <2> SUFFICES ASSUME IInv, main \notin Collecting
               PROVE  /\ \A w \in Worker : worker[w] \in {"receive", "ended"}
                      /\ sending = {} /\ input = <<>> /\ output = <<>>
    BY DEF NoReturnAfterFailure
  <2>0. TypeOK /\ Verified /\ TaskInv /\ NoPieceTwice
    BY DEF IInv
  <2>1. Range(collected) = Piece
    BY AllCollected
  <2>2. sending = {}
    BY <2>0, <2>1 DEF NoPieceTwice, TypeOK
  <2>3. ASSUME NEW q \in Seq(Piece), q # <<>> PROVE Range(q) # {} /\ Range(q) \subseteq Piece
    <3>1. Head(q) \in Range(q)
      BY <2>3, RangeOfTail
    <3>2. Range(q) \subseteq Piece
      BY <2>3, ElementOfSeq, LenProperties DEF Range
    <3> QED BY <3>1, <3>2
  <2>4. input = <<>> /\ output = <<>>
    BY <2>0, <2>1, <2>3 DEF NoPieceTwice, TypeOK, Verified
  <2>5. ASSUME NEW w \in Worker PROVE worker[w] \notin {"fetch", "failed"}
    <3>1. worker[w] \in {"fetch", "failed"} =>
            job[w] \in Piece /\ job[w] \in Fetching \cup Lost
      BY <2>0 DEF TaskInv, Fetching, Lost
    <3> QED BY <3>1, <2>0, <2>1 DEF NoPieceTwice
  <2> QED BY <2>0, <2>2, <2>4, <2>5 DEF TypeOK
<1> QED BY <1>1, Invariance, PTL

(* When no task can do anything while the caller waits, a piece was lost.  *)
LEMMA WaitsOnlyForLoss == IInv => BlockedOnlyAfterLoss
<1> SUFFICES ASSUME IInv, Blocked, Lost = {}, Worker # {} PROVE PieceCount = 0
  BY DEF BlockedOnlyAfterLoss
<1>0. TypeOK /\ Verified /\ TaskInv /\ CallerInv /\ NoPieceTwice /\ NoPieceDropped
  BY DEF IInv
<1>1. PICK w \in Worker : TRUE
  OBVIOUS
<1>2. \A v \in Worker : worker[v] = "receive"
  BY <1>0 DEF Blocked, Lost, TaskInv, Returned
<1>3. input = <<>> /\ output = <<>> /\ sending = {} /\ main = "collect"
  BY <1>1, <1>2 DEF Blocked
<1>4. Fetching = {} /\ Unspawned = {} /\ Range(<<>>) = {}
  <2>1. spawned = PieceCount
    BY <1>0, <1>3 DEF CallerInv
  <2> QED BY <1>2, <2>1, PieceCountAssumption DEF Fetching, Unspawned, Range
<1>5. Piece \subseteq Range(collected)
  BY <1>0, <1>3, <1>4 DEF NoPieceDropped
<1>6. Range(collected) \subseteq Piece
  BY <1>0, ElementOfSeq, LenProperties DEF Verified, Range
<1>7. Len(collected) = PieceCount
  <2>1. collected \in Seq(Piece) /\ IsInjective(collected)
    BY <1>0 DEF Verified, NoPieceTwice
  <2>2. Range(collected) = Piece
    BY <1>5, <1>6
  <2> QED BY <2>1, <2>2, InjectiveLength
<1> QED BY <1>0, <1>3, <1>7 DEF CallerInv

(* The only way to wait forever is a lost piece: the channels themselves   *)
(* never deadlock.                                                         *)
THEOREM NoOtherDeadlock == Spec => []BlockedOnlyAfterLoss
BY WaitsOnlyForLoss, Invariance, PTL
-----------------------------------------------------------------------------
(* download implements FileFetch.                                          *)
THEOREM Refinement == Spec => FetchSpec
<1>1. Init => Fetch!Init
  BY DEF Init, Fetch!Init, Range
<1>2. IInv /\ IInv' /\ [Next]_vars => [Fetch!Next]_(Fetch!vars)
  <2> SUFFICES ASSUME IInv, IInv', [Next]_vars
               PROVE  [Fetch!Next]_(Fetch!vars)
    OBVIOUS
  <2> USE DEF Fetch!vars
  <2>0. /\ TypeOK /\ Verified /\ CallerInv /\ NoPieceTwice
        /\ TypeOK' /\ CallerInv'
    BY DEF IInv
  <2>1. CASE Collect
    <3> DEFINE p == Head(output)
    <3>0. output # <<>> /\ collected' = Append(collected, p) /\ file' = file
      BY <2>1 DEF Collect, CollectUpTo
    <3>1. /\ Range(collected') = Range(collected) \cup {p}
          /\ p \in Range(output) /\ p \in Piece
      <4>1. p \in Range(output) /\ p \in Piece
        BY <2>0, <3>0, RangeOfTail DEF Verified
      <4> HIDE DEF p
      <4> QED BY <2>0, <3>0, <4>1, RangeOfAppend DEF Verified
    <3>2. p \notin Range(collected)
      BY <2>0, <3>1 DEF NoPieceTwice
    <3>3. file = Untouched /\ file' = Untouched
      BY <2>0, <2>1, <3>0 DEF Collect, CollectUpTo, CallerInv
    <3>4. Fetch!Gather(p)
      BY <3>1, <3>2, <3>3 DEF Fetch!Gather
    <3> QED BY <3>1, <3>4 DEF Fetch!Next, Fetch!Piece, Piece
  <2>2. CASE CreateFile
    <3>1. CASE main' = "error" /\ UNCHANGED file
      BY <2>0, <2>2, <3>1 DEF CreateFile, CallerInv
    <3>2. CASE main' = "write" /\ file' = <<>>
      <4>1. file = Untouched /\ file' # Untouched
        BY <2>0, <2>2, <3>2, UntouchedIsNoSequence DEF CreateFile, CallerInv
      <4>2. Range(collected) = Piece
        BY <2>2, AllCollected DEF CreateFile, Collecting
      <4>3. Fetch!Truncate
        BY <2>2, <3>2, <4>1, <4>2 DEF CreateFile, Fetch!Truncate, Fetch!Piece, Piece
      <4> QED BY <4>3 DEF Fetch!Next
    <3> QED BY <2>2, <3>1, <3>2 DEF CreateFile
  <2>3. CASE WriteFile
    <3>0. /\ collected \in Seq(Bytes) /\ Len(collected) \in Nat
          /\ \A i \in 1 .. Len(collected) : collected[i] \in Bytes
      BY <2>0, ElementOfSeq, LenProperties DEF TypeOK
    <3>1. file # Untouched /\ file' # Untouched /\ collected' = collected
      <4>1. \A n \in 0 .. Len(collected) - 1 : SubSeq(collected, 1, n) \in Seq(Bytes)
        BY <3>0, SubSeqProperties
      <4> QED BY <2>0, <2>3, <3>0, <4>1, UntouchedIsNoSequence DEF WriteFile, CallerInv
    <3>2. CASE main' = "ok"
      BY <2>3, <3>1, <3>2 DEF WriteFile, Fetch!Complete, Fetch!Next
    <3>3. CASE main' = "error"
      BY <2>3, <3>1, <3>3 DEF WriteFile
    <3> QED BY <2>3, <3>2, <3>3 DEF WriteFile
  <2>4. CASE SpawnSender \/ StartCollecting \/ MakeDirectory
    BY <2>4 DEF SpawnSender, StartCollecting, MakeDirectory, fileVars
  <2>5. CASE \E p \in Piece : Send(p)
    BY <2>5 DEF Send, fileVars
  <2>6. CASE \E w \in Worker : TakeRequest(w) \/ FailFetch(w) \/ EndWorker(w)
    BY <2>6 DEF TakeRequest, FailFetch, EndWorker, fileVars
  <2>7. CASE \E w \in Worker, bytes \in Bytes : FinishPiece(w, bytes)
    BY <2>7 DEF FinishPiece, fileVars
  <2>8. CASE UNCHANGED vars
    BY <2>8 DEF vars, fileVars
  <2> QED BY <2>1, <2>2, <2>3, <2>4, <2>5, <2>6, <2>7, <2>8 DEF Next
<1>3. QED BY <1>1, <1>2, Invariance, PTL DEF Spec, FetchSpec, Fetch!Spec
=============================================================================
