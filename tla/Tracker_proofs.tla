--------------------------- MODULE Tracker_proofs ---------------------------
(* Theorems about Tracker, for any number of clients, files, addresses and *)
(* registrations.                                                          *)
EXTENDS Tracker, SequenceTheorems, TLAPS

(* A handler is past the listing only for a registration whose file is     *)
(* listed.                                                                 *)
HandlerInv ==
  \A c \in Client : pc[c] = "listed" =>
    req[c] \in Registration /\ listing[req[c].hash] # NoName

(* What was acknowledged is in the peers db.                               *)
AckedInv == \A r \in acked : r[2] \in Range(peers[r[1]])

(* The inductive invariant.  PeersAreListed needs HandlerInv (the push     *)
(* happens after the name was added), and AnswersAreFresh needs that what  *)
(* was acknowledged is still there when the answer is made (AckedInv) and  *)
(* that its file is listed (PeersAreListed).                               *)
IInv == TypeOK /\ HandlerInv /\ AckedInv /\ PeersAreListed /\ AnswersAreFresh

(* A push adds one address to a list of peers and keeps what it starts     *)
(* with.                                                                   *)
LEMMA PushKeeps ==
  ASSUME NEW S, NEW q \in Seq(S), NEW e \in S
  PROVE  /\ Append(q, e) \in Seq(S) /\ Append(q, e) # <<>>
         /\ Range(Append(q, e)) = Range(q) \cup {e}
         /\ IsPrefix(q, Append(q, e))
<1> DEFINE r == Append(q, e)
<1>1. /\ r \in Seq(S) /\ Len(r) = Len(q) + 1 /\ Len(q) \in Nat
      /\ DOMAIN q = 1 .. Len(q) /\ DOMAIN r = 1 .. Len(q) + 1
      /\ \A i \in 1 .. Len(q) : r[i] = q[i]
      /\ r[Len(q) + 1] = e
  BY AppendProperties, LenProperties
<1> HIDE DEF r
<1>2. Range(r) = Range(q) \cup {e}
  BY <1>1 DEF Range
<1>3. r # <<>>
  BY <1>1, EmptySeq
<1>4. IsPrefix(q, r)
  <2>1. /\ Len(SubSeq(q, 1, Len(q))) = Len(q) /\ Len(SubSeq(r, 1, Len(q))) = Len(q)
        /\ SubSeq(q, 1, Len(q)) \in Seq(S) /\ SubSeq(r, 1, Len(q)) \in Seq(S)
        /\ \A i \in 1 .. Len(q) : SubSeq(q, 1, Len(q))[i] = SubSeq(r, 1, Len(q))[i]
    BY <1>1, SubSeqProperties
  <2>2. SubSeq(q, 1, Len(q)) = SubSeq(r, 1, Len(q))
    BY <2>1, SeqEqual
  <2> QED BY <1>1, <2>2 DEF IsPrefix
<1> QED BY <1>1, <1>2, <1>3, <1>4 DEF r

LEMMA PrefixReflexive == ASSUME NEW S, NEW q \in Seq(S) PROVE IsPrefix(q, q)
BY LenProperties DEF IsPrefix

(* An answer is typed if what it is made of is.                            *)
LEMMA AnswerTyped ==
  ASSUME TypeOK, NEW c \in Client, NEW status \in {0, 200, 204, 400, 404, 500},
         NEW ps \in Seq(Addr), NEW fs \in SUBSET FileName, Answer(c, status, ps, fs)
  PROVE  /\ reply' \in [Client -> Response]
         /\ pc' \in [Client -> {"idle", "arrived", "listed"}]
         /\ reply'[c] = [status |-> status, peers |-> ps, files |-> fs]
         /\ pc'[c] = "idle"
         /\ \A d \in Client \ {c} : reply'[d] = reply[d] /\ pc'[d] = pc[d]
BY DEF TypeOK, Answer, Response

(* The initial state satisfies the invariant.                              *)
LEMMA InitIInv == Init => IInv
<1> SUFFICES ASSUME Init PROVE IInv
  OBVIOUS
<1>1. TypeOK
  <2>1. <<>> \in Seq(Addr)
    BY EmptySeq
  <2>2. reply \in [Client -> Response]
    BY <2>1 DEF Init, Response
  <2>3. req \in [Client -> Request]
    BY DEF Init, Request
  <2>4. peers \in [InfoHash -> Seq(Addr)]
    BY <2>1 DEF Init
  <2>5. acked \subseteq InfoHash \X Addr /\ since \in [Client -> SUBSET acked]
    <3>1. acked = {} /\ since = [c \in Client |-> {}]
      BY DEF Init
    <3>2. {} \in SUBSET acked
      OBVIOUS
    <3>3. since \in [Client -> SUBSET acked]
      BY <3>1, <3>2
    <3> QED BY <3>1, <3>3
  <2>6. listing \in [InfoHash -> FileName \cup {NoName}]
    BY DEF Init
  <2>7. pc \in [Client -> {"idle", "arrived", "listed"}]
    BY DEF Init
  <2>8. poisoned \in BOOLEAN /\ posts \in 0 .. MaxPosts
    <3>1. poisoned \in BOOLEAN
      BY DEF Init
    <3>2. posts = 0
      BY DEF Init
    <3>3. posts \in 0 .. MaxPosts
      BY <3>2, MaxPostsAssumption
    <3> QED BY <3>1, <3>3
  <2> QED BY <2>2, <2>3, <2>4, <2>5, <2>6, <2>7, <2>8 DEF TypeOK
<1> QED BY <1>1 DEF Init, IInv, HandlerInv, AckedInv, PeersAreListed, AnswersAreFresh

(* A step that answers and changes neither map keeps the invariant, if a   *)
(* lookup is answered with the peers there are and a listing with all the  *)
(* files.                                                                  *)
LEMMA AnswerKeepsIInv ==
  ASSUME IInv, NEW c \in Client, NEW status \in {0, 200, 204, 400, 404, 500},
         NEW ps \in Seq(Addr), NEW fs \in SUBSET FileName, Answer(c, status, ps, fs),
         UNCHANGED <<listing, peers, req, posts, acked, since>>, poisoned' \in BOOLEAN,
         pc[c] # "idle",
         req[c].op = "lookup" /\ status \in {200, 404} => ps = peers[req[c].hash],
         req[c].op = "files" => fs = Range(listing) \ {NoName}
  PROVE  IInv'
<1>0. TypeOK /\ HandlerInv /\ AckedInv /\ PeersAreListed /\ AnswersAreFresh
  BY DEF IInv
<1>1. /\ reply' \in [Client -> Response]
      /\ pc' \in [Client -> {"idle", "arrived", "listed"}]
      /\ reply'[c] = [status |-> status, peers |-> ps, files |-> fs]
      /\ pc'[c] = "idle"
      /\ \A d \in Client \ {c} : reply'[d] = reply[d] /\ pc'[d] = pc[d]
  BY <1>0, AnswerTyped
<1>2. TypeOK'
  BY <1>0, <1>1 DEF TypeOK
<1>3. HandlerInv'
  BY <1>0, <1>1 DEF HandlerInv
<1>4. AckedInv' /\ PeersAreListed'
  BY <1>0 DEF AckedInv, PeersAreListed
<1>5. ASSUME NEW r \in acked
      PROVE  r[1] \in InfoHash /\ r[2] \in Range(peers[r[1]]) /\ listing[r[1]] # NoName
  <2>1. r[1] \in InfoHash /\ r[2] \in Range(peers[r[1]])
    BY <1>0, <1>5 DEF AckedInv, TypeOK
  <2>2. peers[r[1]] # <<>>
    BY <2>1 DEF Range
  <2> QED BY <2>1, <2>2, <1>0 DEF PeersAreListed
<1>6. AnswersAreFresh'
  <2> SUFFICES ASSUME NEW d \in Client, pc'[d] = "idle", NEW r \in since[d]
               PROVE  /\ req[d].op = "lookup" /\ req[d].hash = r[1]
                           /\ reply'[d].status \in {200, 404} =>
                           r[2] \in Range(reply'[d].peers)
                      /\ req[d].op = "files" => listing[r[1]] \in reply'[d].files
    BY DEF AnswersAreFresh
  <2>1. CASE d # c
    BY <2>1, <1>0, <1>1 DEF AnswersAreFresh
  <2>2. CASE d = c
    <3>1. r \in acked
      BY <1>0 DEF TypeOK
    <3>2. listing[r[1]] \in Range(listing) \ {NoName}
      BY <3>1, <1>5, <1>0 DEF Range, TypeOK
    <3> QED BY <2>2, <3>1, <3>2, <1>1, <1>5
  <2> QED BY <2>1, <2>2
<1> QED BY <1>2, <1>3, <1>4, <1>6 DEF IInv

(* Every step preserves the invariant.                                     *)
LEMMA NextIInv == IInv /\ [Next]_vars => IInv'
<1> SUFFICES ASSUME IInv, [Next]_vars PROVE IInv'
  OBVIOUS
<1>0. TypeOK /\ HandlerInv /\ AckedInv /\ PeersAreListed /\ AnswersAreFresh
  BY DEF IInv
<1>e. <<>> \in Seq(Addr)
  BY EmptySeq
<1>1. ASSUME NEW c \in Client, NEW r \in Request, Arrive(c, r) PROVE IInv'
  <2>1. TypeOK'
    BY <1>0, <1>1, MaxPostsAssumption DEF TypeOK, Arrive
  <2>2. HandlerInv'
    BY <1>0, <1>1 DEF HandlerInv, TypeOK, Arrive
  <2>3. AckedInv' /\ PeersAreListed'
    BY <1>0, <1>1 DEF AckedInv, PeersAreListed, Arrive
  <2>4. AnswersAreFresh'
    <3> SUFFICES ASSUME NEW d \in Client, pc'[d] = "idle", NEW q \in since'[d]
                 PROVE  /\ req'[d].op = "lookup" /\ req'[d].hash = q[1]
                             /\ reply'[d].status \in {200, 404} =>
                             q[2] \in Range(reply'[d].peers)
                        /\ req'[d].op = "files" => listing'[q[1]] \in reply'[d].files
      BY DEF AnswersAreFresh
    <3>1. d # c /\ pc[d] = "idle" /\ req'[d] = req[d] /\ since'[d] = since[d]
      BY <1>0, <1>1 DEF TypeOK, Arrive
    <3> QED BY <3>1, <1>0, <1>1 DEF AnswersAreFresh, Arrive
  <2> QED BY <2>1, <2>2, <2>3, <2>4 DEF IInv
<1>2. ASSUME NEW c \in Client, RejectBody(c) PROVE IInv'
  <2> DEFINE status == 400
             ps == <<>>
             fs == {}
  <2>1. /\ Answer(c, status, ps, fs)
        /\ status \in {0, 200, 204, 400, 404, 500} \ {200, 404}
        /\ ps \in Seq(Addr) /\ fs \in SUBSET FileName
    BY <1>e, <1>2 DEF RejectBody
  <2>2. /\ req[c].op = "garbage" /\ pc[c] # "idle" /\ poisoned' \in BOOLEAN
        /\ UNCHANGED <<listing, peers, req, posts, acked, since>>
    BY <1>0, <1>2 DEF RejectBody, TypeOK
  <2> HIDE DEF status, ps, fs
  <2> QED BY <2>1, <2>2, AnswerKeepsIInv
<1>3. ASSUME NEW c \in Client, AddFile(c) PROVE IInv'
  <2>1. /\ req[c] \in Registration
        /\ listing' = Listed(req[c].name, req[c].hash)
        /\ pc' = [pc EXCEPT ![c] = "listed"]
        /\ UNCHANGED <<peers, poisoned, req, reply, posts, acked, since>>
    BY <1>0, <1>3 DEF AddFile, TypeOK, Request, Registration, Lookup
  <2>2. req[c].hash \in InfoHash /\ req[c].name \in FileName
    BY <2>1 DEF Registration
  <2>3. /\ listing' \in [InfoHash -> FileName \cup {NoName}]
        /\ listing'[req[c].hash] # NoName
        /\ \A h \in InfoHash : listing[h] # NoName => listing'[h] = listing[h]
    BY <1>0, <2>1, <2>2, NoNameAssumption DEF Listed, TypeOK
  <2>4. TypeOK'
    BY <1>0, <2>1, <2>3 DEF TypeOK
  <2>5. HandlerInv'
    BY <1>0, <2>1, <2>3 DEF HandlerInv, TypeOK, Registration
  <2>6. AckedInv' /\ PeersAreListed'
    BY <1>0, <2>1, <2>3 DEF AckedInv, PeersAreListed
  <2>7. AnswersAreFresh'
    <3> SUFFICES ASSUME NEW d \in Client, pc'[d] = "idle", NEW r \in since[d]
                 PROVE  /\ req[d].op = "lookup" /\ req[d].hash = r[1]
                             /\ reply[d].status \in {200, 404} =>
                             r[2] \in Range(reply[d].peers)
                        /\ req[d].op = "files" => listing'[r[1]] \in reply[d].files
      BY <2>1 DEF AnswersAreFresh
    <3>1. pc[d] = "idle"
      BY <1>0, <2>1 DEF TypeOK
    <3>2. r[1] \in InfoHash /\ r[2] \in Range(peers[r[1]])
      BY <1>0 DEF TypeOK, AckedInv
    <3>3. listing[r[1]] # NoName
      BY <1>0, <3>2 DEF PeersAreListed, Range
    <3> QED BY <1>0, <2>3, <3>1, <3>2, <3>3 DEF AnswersAreFresh
  <2> QED BY <2>4, <2>5, <2>6, <2>7 DEF IInv
<1>4. ASSUME NEW c \in Client, PushPeer(c) PROVE IInv'
  <2> DEFINE h == req[c].hash
             a == req[c].addr
             ps == Append(peers[h], a)
  <2>1. /\ h \in InfoHash /\ a \in Addr /\ listing[h] # NoName
        /\ peers' = [peers EXCEPT ![h] = ps] /\ acked' = acked \cup {<<h, a>>}
        /\ Answer(c, 204, <<>>, {})
        /\ UNCHANGED <<listing, poisoned, req, posts, since>>
        /\ req[c].op = "register"
    BY <1>0, <1>4 DEF PushPeer, HandlerInv, Registration
  <2>2. ps \in Seq(Addr) /\ ps # <<>> /\ Range(ps) = Range(peers[h]) \cup {a}
    <3>1. peers[h] \in Seq(Addr)
      BY <1>0, <2>1 DEF TypeOK
    <3> QED BY <2>1, <3>1, PushKeeps
  <2>3. /\ reply' \in [Client -> Response]
        /\ pc' \in [Client -> {"idle", "arrived", "listed"}]
        /\ pc'[c] = "idle"
        /\ \A d \in Client \ {c} : reply'[d] = reply[d] /\ pc'[d] = pc[d]
    <3>1. [status |-> 204, peers |-> <<>>, files |-> {}] \in Response
      BY <1>e DEF Response
    <3> QED BY <3>1, <1>0, <2>1 DEF Answer, TypeOK
  <2> HIDE DEF h, a, ps
  <2>4. peers' \in [InfoHash -> Seq(Addr)] /\ peers'[h] = ps
        /\ \A g \in InfoHash \ {h} : peers'[g] = peers[g]
    BY <1>0, <2>1, <2>2 DEF TypeOK
  <2>5. TypeOK'
    BY <1>0, <2>1, <2>3, <2>4 DEF TypeOK
  <2>6. HandlerInv'
    BY <1>0, <2>1, <2>3 DEF HandlerInv
  <2>7. AckedInv'
    BY <1>0, <2>1, <2>2, <2>4 DEF AckedInv, TypeOK
  <2>8. PeersAreListed'
    BY <1>0, <2>1, <2>4 DEF PeersAreListed
  <2>9. AnswersAreFresh'
    <3> SUFFICES ASSUME NEW d \in Client, pc'[d] = "idle", NEW r \in since[d]
                 PROVE  /\ req[d].op = "lookup" /\ req[d].hash = r[1]
                             /\ reply'[d].status \in {200, 404} =>
                             r[2] \in Range(reply'[d].peers)
                        /\ req[d].op = "files" => listing[r[1]] \in reply'[d].files
      BY <2>1 DEF AnswersAreFresh
    <3>1. CASE d = c
      BY <3>1, <2>1
    <3>2. CASE d # c
      BY <3>2, <1>0, <2>3 DEF AnswersAreFresh
    <3> QED BY <3>1, <3>2
  <2> QED BY <2>5, <2>6, <2>7, <2>8, <2>9 DEF IInv
<1>5. ASSUME NEW c \in Client, PanicOnAddress(c) PROVE IInv'
  <2>1. req[c].op = "register"
    BY <1>0, <1>5 DEF PanicOnAddress, HandlerInv, Registration
  <2> DEFINE status == 0
             ps == <<>>
             fs == {}
  <2>2. /\ Answer(c, status, ps, fs)
        /\ status \in {0, 200, 204, 400, 404, 500} \ {200, 404}
        /\ ps \in Seq(Addr) /\ fs \in SUBSET FileName
    BY <1>e, <1>5 DEF PanicOnAddress
  <2>3. /\ pc[c] # "idle" /\ poisoned' \in BOOLEAN
        /\ UNCHANGED <<listing, peers, req, posts, acked, since>>
    BY <1>0, <1>5 DEF PanicOnAddress, TypeOK
  <2> HIDE DEF status, ps, fs
  <2> QED BY <2>1, <2>2, <2>3, AnswerKeepsIInv
<1>6. ASSUME NEW c \in Client, RefusePoisoned(c) PROVE IInv'
  <2>1. req[c].op # "files"
    BY <1>0, <1>6 DEF RefusePoisoned, HandlerInv, Registration
  <2> DEFINE status == 500
             ps == <<>>
             fs == {}
  <2>2. /\ Answer(c, status, ps, fs)
        /\ status \in {0, 200, 204, 400, 404, 500} \ {200, 404}
        /\ ps \in Seq(Addr) /\ fs \in SUBSET FileName
    BY <1>e, <1>6 DEF RefusePoisoned
  <2>3. /\ pc[c] # "idle" /\ poisoned' \in BOOLEAN
        /\ UNCHANGED <<listing, peers, req, posts, acked, since>>
    BY <1>0, <1>6 DEF RefusePoisoned, TypeOK
  <2> HIDE DEF status, ps, fs
  <2> QED BY <2>1, <2>2, <2>3, AnswerKeepsIInv
<1>7. ASSUME NEW c \in Client, AnswerLookup(c) PROVE IInv'
  <2> DEFINE ps == peers[req[c].hash]
             status == IF ps = <<>> THEN 404 ELSE 200
  <2>1. req[c] \in Lookup
    BY <1>0, <1>7 DEF AnswerLookup, TypeOK, Request, Registration, Lookup
  <2>2. ps \in Seq(Addr) /\ status \in {0, 200, 204, 400, 404, 500}
    BY <1>0, <2>1 DEF TypeOK, Lookup
  <2>3. Answer(c, status, ps, {})
    BY <1>7 DEF AnswerLookup
  <2>4. /\ req[c].op = "lookup" /\ pc[c] # "idle" /\ poisoned' \in BOOLEAN
        /\ UNCHANGED <<listing, peers, req, posts, acked, since>>
    BY <1>0, <1>7 DEF AnswerLookup, TypeOK
  <2>5. ps = peers[req[c].hash]
    OBVIOUS
  <2> HIDE DEF ps, status
  <2> QED BY <2>2, <2>3, <2>4, <2>5, AnswerKeepsIInv
<1>8. ASSUME NEW c \in Client, ListFiles(c) PROVE IInv'
  <2> DEFINE status == 200
             ps == <<>>
             fs == Range(listing) \ {NoName}
  <2>1. fs \in SUBSET FileName
    BY <1>0 DEF TypeOK, Range
  <2>2. /\ Answer(c, status, ps, fs) /\ ps \in Seq(Addr)
        /\ status \in {0, 200, 204, 400, 404, 500}
        /\ req[c].op = "files" /\ pc[c] # "idle" /\ poisoned' \in BOOLEAN
        /\ UNCHANGED <<listing, peers, req, posts, acked, since>>
    BY <1>0, <1>e, <1>8 DEF ListFiles, TypeOK
  <2>3. fs = Range(listing) \ {NoName}
    OBVIOUS
  <2> HIDE DEF status, ps, fs
  <2> QED BY <2>1, <2>2, <2>3, AnswerKeepsIInv
<1>9. CASE UNCHANGED vars
  BY <1>0, <1>9 DEF vars, IInv, TypeOK, HandlerInv, AckedInv, PeersAreListed, AnswersAreFresh
<1> QED
  BY <1>1, <1>2, <1>3, <1>4, <1>5, <1>6, <1>7, <1>8, <1>9 DEF Next, Handle

(* The inductive invariant holds throughout.                               *)
THEOREM Invariance == Spec => []IInv
BY InitIInv, NextIInv, PTL DEF Spec

(* The types of the variables, for any constants.                          *)
THEOREM TypeCorrect == Spec => []TypeOK
<1>1. IInv => TypeOK
  BY DEF IInv
<1> QED BY <1>1, Invariance, PTL

(* At no moment does a file have peers without being listed, although the  *)
(* listing and the peers db are locked one after the other.                *)
THEOREM PeersListed == Spec => []PeersAreListed
<1>1. IInv => PeersAreListed
  BY DEF IInv
<1> QED BY <1>1, Invariance, PTL

(* A registration that was acknowledged before a request arrived is in the *)
(* answer to it.                                                           *)
THEOREM FreshAnswers == Spec => []AnswersAreFresh
<1>1. IInv => AnswersAreFresh
  BY DEF IInv
<1> QED BY <1>1, Invariance, PTL

(* Whatever runs in parallel, the name of a listed file never changes and  *)
(* the peers of a file are only added to at the end.                       *)
THEOREM GrowingRegistry == Spec => RegistryOnlyGrows
<1> DEFINE Grows == \A h \in InfoHash :
             /\ listing[h] # NoName => listing'[h] = listing[h]
             /\ IsPrefix(peers[h], peers'[h])
<1>1. IInv /\ [Next]_vars => [Grows]_vars
  <2> SUFFICES ASSUME IInv, Next PROVE Grows
    BY DEF Grows
  <2>0. TypeOK /\ HandlerInv
    BY DEF IInv
  <2>1. ASSUME UNCHANGED <<listing, peers>> PROVE Grows
    BY <2>0, <2>1, PrefixReflexive DEF TypeOK
  <2>2. ASSUME NEW c \in Client, AddFile(c) PROVE Grows
    <3>1. peers' = peers /\ listing' = Listed(req[c].name, req[c].hash)
      BY <2>2 DEF AddFile
    <3>2. \A h \in InfoHash : listing[h] # NoName => listing'[h] = listing[h]
      BY <2>0, <3>1 DEF Listed, TypeOK
    <3> QED BY <2>0, <3>1, <3>2, PrefixReflexive DEF TypeOK
  <2>3. ASSUME NEW c \in Client, PushPeer(c) PROVE Grows
    <3>1. /\ req[c].hash \in InfoHash /\ req[c].addr \in Addr /\ listing' = listing
          /\ peers' = [peers EXCEPT ![req[c].hash] = Append(@, req[c].addr)]
      BY <2>0, <2>3 DEF PushPeer, HandlerInv, Registration
    <3>2. ASSUME NEW h \in InfoHash PROVE IsPrefix(peers[h], peers'[h])
      <4>1. peers[h] \in Seq(Addr)
        BY <2>0 DEF TypeOK
      <4>2. CASE h = req[c].hash
        <5>1. peers'[h] = Append(peers[h], req[c].addr)
          BY <2>0, <3>1, <4>2 DEF TypeOK
        <5> QED BY <3>1, <4>1, <5>1, PushKeeps
      <4>3. CASE h # req[c].hash
        <5>1. peers'[h] = peers[h]
          BY <2>0, <3>1, <4>3 DEF TypeOK
        <5> QED BY <4>1, <5>1, PrefixReflexive
      <4> QED BY <4>2, <4>3
    <3> QED BY <3>1, <3>2
  <2> QED
    BY <2>1, <2>2, <2>3 DEF Next, Handle, Arrive, RejectBody, PanicOnAddress,
       RefusePoisoned, AnswerLookup, ListFiles
<1> QED BY <1>1, Invariance, PTL DEF Spec, RegistryOnlyGrows

(* Once the peers db is poisoned it stays so, no address is added and every *)
(* request but one for the files is refused.                               *)
THEOREM PoisonedForGood == Spec => PoisonIsFinal
<1> DEFINE Frozen == poisoned =>
             /\ poisoned' /\ peers' = peers
             /\ \A c \in Client : pc[c] # "idle" /\ pc'[c] = "idle" =>
                  reply'[c].status \in {400, 500} \/ req[c].op = "files"
<1>1. IInv /\ [Next]_vars => [Frozen]_vars
  <2> SUFFICES ASSUME IInv, Next, poisoned PROVE Frozen
    BY DEF Frozen
  <2>0. TypeOK
    BY DEF IInv
  <2>1. ASSUME NEW c \in Client, NEW r \in Request, Arrive(c, r) PROVE Frozen
    BY <2>0, <2>1 DEF Arrive, TypeOK
  <2>2. ASSUME NEW c \in Client, AddFile(c) PROVE Frozen
    BY <2>0, <2>2 DEF AddFile, TypeOK
  <2>3. ASSUME NEW c \in Client, RejectBody(c) PROVE Frozen
    BY <2>0, <2>3 DEF RejectBody, Answer, TypeOK
  <2>4. ASSUME NEW c \in Client, RefusePoisoned(c) PROVE Frozen
    BY <2>0, <2>4 DEF RefusePoisoned, Answer, TypeOK
  <2>5. ASSUME NEW c \in Client, ListFiles(c) PROVE Frozen
    BY <2>0, <2>5 DEF ListFiles, Answer, TypeOK
  <2>6. ASSUME NEW c \in Client, PushPeer(c) \/ PanicOnAddress(c) \/ AnswerLookup(c)
        PROVE  FALSE
    BY <2>6 DEF PushPeer, PanicOnAddress, AnswerLookup
  <2> QED BY <2>1, <2>2, <2>3, <2>4, <2>5, <2>6 DEF Next, Handle
<1> QED BY <1>1, Invariance, PTL DEF Spec, PoisonIsFinal
=============================================================================
