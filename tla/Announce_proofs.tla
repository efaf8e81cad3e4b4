--------------------------- MODULE Announce_proofs ---------------------------
(* Theorems about the compact list of peers and about Announce, for any    *)
(* info hashes, any lists of peers and any lists of bytes.                 *)
EXTENDS Announce, TLAPS

(* A port is two bytes, and two bytes are a port.                          *)
LEMMA OctetIs == ASSUME NEW n PROVE n \in Octet <=> n \in Nat /\ n <= 255
BY DEF Octet

LEMMA PortIs == ASSUME NEW n PROVE n \in Port <=> n \in Nat /\ n <= MaxPort
<1>1. MaxPort \in Nat
  BY DEF MaxPort
<1> QED BY <1>1 DEF Port

LEMMA TwoBytes ==
  ASSUME NEW n \in Port
  PROVE  /\ n \div 256 \in Octet /\ n % 256 \in Octet
         /\ ((n \div 256) * 256) + (n % 256) = n
<1>1. n \in Nat /\ n <= 65535
  BY PortIs DEF MaxPort
<1>2. /\ n \div 256 \in Nat /\ n \div 256 <= 255
      /\ n % 256 \in Nat /\ n % 256 <= 255
      /\ ((n \div 256) * 256) + (n % 256) = n
  BY <1>1
<1> QED BY <1>2, OctetIs

LEMMA OnePort ==
  ASSUME NEW m \in Octet, NEW n \in Octet
  PROVE  /\ m * 256 + n \in Port
         /\ (m * 256 + n) \div 256 = m /\ (m * 256 + n) % 256 = n
<1>1. m \in Nat /\ m <= 255 /\ n \in Nat /\ n <= 255
  BY OctetIs
<1>2. m * 256 + n \in Nat /\ m * 256 + n <= 65535
  BY <1>1
<1>3. (m * 256 + n) \div 256 = m /\ (m * 256 + n) % 256 = n
  BY <1>1
<1> QED BY <1>2, <1>3, PortIs DEF MaxPort

(* The compact list has six bytes for each peer.                           *)
LEMMA PackedTyped ==
  ASSUME NEW ps \in Seq(Peer)
  PROVE  Packed(ps) \in Seq(Octet) /\ Len(Packed(ps)) = 6 * Len(ps) /\ ~Ragged(Packed(ps))
<1>1. Len(ps) \in Nat /\ 6 * Len(ps) \in Nat /\ (6 * Len(ps)) % 6 = 0
  OBVIOUS
<1>2. ASSUME NEW k \in 1 .. 6 * Len(ps)
      PROVE  ByteOf(ps[((k - 1) \div 6) + 1], ((k - 1) % 6) + 1) \in Octet
  <2>1. ((k - 1) \div 6) + 1 \in 1 .. Len(ps) /\ ((k - 1) % 6) + 1 \in 1 .. 6
    BY <1>1
  <2> DEFINE p == ps[((k - 1) \div 6) + 1]
             i == ((k - 1) % 6) + 1
  <2>2. p \in Peer /\ i \in 1 .. 6
    BY <2>1
  <2> HIDE DEF p, i
  <2>3. /\ p.port % 256 \in Octet /\ p.port \div 256 \in Octet
        /\ i <= 4 => p.ip[i] \in Octet
    <3>1. p.port \in Port /\ p.ip \in [1 .. 4 -> Octet]
      BY <2>2 DEF Peer
    <3>2. p.port % 256 \in Octet /\ p.port \div 256 \in Octet
      BY <3>1, TwoBytes
    <3>3. i <= 4 => i \in 1 .. 4
      BY <2>2
    <3> QED BY <3>1, <3>2, <3>3
  <2>4. ByteOf(p, i) \in Octet
    BY <2>2, <2>3 DEF ByteOf
  <2> QED BY <2>4 DEF p, i
<1>3. Packed(ps) \in [1 .. 6 * Len(ps) -> Octet]
  BY <1>2 DEF Packed
<1>4. Packed(ps) \in Seq(Octet) /\ Len(Packed(ps)) = 6 * Len(ps)
  BY <1>1, <1>3
<1> QED BY <1>1, <1>4 DEF Ragged

(* The byte at each place of a compact list.                               *)
LEMMA PackedByte ==
  ASSUME NEW ps \in Seq(Peer), NEW i \in 1 .. Len(ps), NEW j \in 1 .. 6
  PROVE  6 * (i - 1) + j \in 1 .. 6 * Len(ps) /\ Packed(ps)[6 * (i - 1) + j] = ByteOf(ps[i], j)
<1> DEFINE k == 6 * (i - 1) + j
<1>1. Len(ps) \in Nat /\ k \in 1 .. 6 * Len(ps)
  OBVIOUS
<1>2. (k - 1) \div 6 = i - 1 /\ (k - 1) % 6 = j - 1
  OBVIOUS
<1>3. ((k - 1) \div 6) + 1 = i /\ ((k - 1) % 6) + 1 = j
  BY <1>2
<1> HIDE DEF k
<1>4. Packed(ps)[k] = ByteOf(ps[i], j)
  BY <1>1, <1>3 DEF Packed
<1> QED BY <1>1, <1>4 DEF k

(* A list of peers survives the compact form: number, order, addresses and *)
(* ports.                                                                  *)
THEOREM RoundTrip ==
  ASSUME NEW ps \in Seq(Peer)
  PROVE  Unpacked(Packed(ps)) = ps
<1> DEFINE b == Packed(ps)
           u == Unpacked(b)
<1>1. Len(ps) \in Nat /\ Len(b) \div 6 = Len(ps)
  BY PackedTyped
<1>2. DOMAIN u = 1 .. Len(ps)
  BY <1>1 DEF Unpacked
<1>3. ASSUME NEW i \in 1 .. Len(ps) PROVE u[i] = ps[i]
  <2>1. u[i] = PeerAt(b, 6 * (i - 1))
    BY <1>1 DEF Unpacked
  <2>2. ps[i] \in Peer
    OBVIOUS
  <2>3. \A j \in 1 .. 6 : b[6 * (i - 1) + j] = ByteOf(ps[i], j)
    BY PackedByte
  <2> HIDE DEF b, u
  <2>4. /\ \A j \in 1 .. 4 : b[6 * (i - 1) + j] = ps[i].ip[j]
        /\ b[6 * (i - 1) + 5] = ps[i].port \div 256
        /\ b[6 * (i - 1) + 6] = ps[i].port % 256
    BY <2>3 DEF ByteOf
  <2>5. ((ps[i].port \div 256) * 256) + (ps[i].port % 256) = ps[i].port
    <3>1. ps[i].port \in Port
      BY <2>2 DEF Peer
    <3> QED BY <3>1, TwoBytes
  <2>6. [j \in 1 .. 4 |-> b[6 * (i - 1) + j]] = ps[i].ip
    BY <2>2, <2>4 DEF Peer
  <2>7. ps[i] = [ip |-> ps[i].ip, port |-> ps[i].port]
    BY <2>2 DEF Peer
  <2> QED BY <2>1, <2>4, <2>5, <2>6, <2>7 DEF PeerAt
<1>4. u \in Seq(Peer) /\ Len(u) = Len(ps)
  <2>1. u = [i \in 1 .. Len(ps) |-> PeerAt(b, 6 * (i - 1))]
    BY <1>1 DEF Unpacked
  <2> HIDE DEF u
  <2>2. u \in [1 .. Len(ps) -> Peer]
    BY <1>3, <2>1
  <2> QED BY <1>1, <2>2
<1> QED BY <1>2, <1>3, <1>4

(* The other way round: a list of bytes that is no peer too short is the   *)
(* compact form of the peers read from it.                                 *)
THEOREM NothingLost ==
  ASSUME NEW b \in Seq(Octet), ~Ragged(b)
  PROVE  Unpacked(b) \in Seq(Peer) /\ Packed(Unpacked(b)) = b
<1> DEFINE n == Len(b) \div 6
           u == Unpacked(b)
<1>1. Len(b) \in Nat /\ n \in Nat /\ Len(b) = 6 * n
  BY DEF Ragged
<1>2. ASSUME NEW i \in 1 .. n
      PROVE  /\ u[i] = PeerAt(b, 6 * (i - 1))
             /\ \A j \in 1 .. 6 : b[6 * (i - 1) + j] \in Octet
  BY <1>1 DEF Unpacked
<1>3. ASSUME NEW i \in 1 .. n PROVE PeerAt(b, 6 * (i - 1)) \in Peer
  <2> DEFINE at == 6 * (i - 1)
  <2>1. \A j \in 1 .. 6 : b[at + j] \in Octet
    BY <1>2
  <2> HIDE DEF at
  <2>2. [j \in 1 .. 4 |-> b[at + j]] \in [1 .. 4 -> Octet]
    BY <2>1
  <2>3. b[at + 5] * 256 + b[at + 6] \in Port
    BY <2>1, OnePort
  <2>4. PeerAt(b, at) \in Peer
    BY <2>2, <2>3 DEF PeerAt, Peer
  <2> QED BY <2>4 DEF at
<1>4. u \in [1 .. n -> Peer]
  BY <1>2, <1>3 DEF Unpacked
<1>5. u \in Seq(Peer) /\ Len(u) = n
  BY <1>1, <1>4
<1>6. Packed(u) \in Seq(Octet) /\ Len(Packed(u)) = Len(b)
  BY <1>1, <1>5, PackedTyped
<1>7. ASSUME NEW k \in 1 .. Len(b) PROVE Packed(u)[k] = b[k]
  <2> DEFINE i == ((k - 1) \div 6) + 1
             j == ((k - 1) % 6) + 1
  <2>1. i \in 1 .. n /\ j \in 1 .. 6 /\ k = 6 * (i - 1) + j
    BY <1>1
  <2>2. \A h \in 1 .. 6 : b[6 * (i - 1) + h] \in Octet
    BY <1>2, <2>1
  <2> HIDE DEF i, j, n, u
  <2>3. Packed(u)[k] = ByteOf(u[i], j)
    BY <1>5, <2>1, PackedByte
  <2>4. u[i] = PeerAt(b, 6 * (i - 1))
    BY <1>2, <2>1
  <2>5. ByteOf(PeerAt(b, 6 * (i - 1)), j) = b[6 * (i - 1) + j]
    <3>1. CASE j \in 1 .. 4
      BY <3>1 DEF ByteOf, PeerAt
    <3>2. CASE j \in {5, 6}
      <4>1. b[6 * (i - 1) + 5] \in Octet /\ b[6 * (i - 1) + 6] \in Octet
        BY <2>2
      <4>2. /\ PeerAt(b, 6 * (i - 1)).port \div 256 = b[6 * (i - 1) + 5]
            /\ PeerAt(b, 6 * (i - 1)).port % 256 = b[6 * (i - 1) + 6]
        BY <4>1, OnePort DEF PeerAt
      <4> QED BY <3>2, <4>2 DEF ByteOf
    <3> QED BY <2>1, <3>1, <3>2
  <2> QED BY <2>1, <2>3, <2>4, <2>5
<1>8. Packed(u) = b
  BY <1>6, <1>7
<1> QED BY <1>5, <1>8
-----------------------------------------------------------------------------
(* Both ends use the same name for a file, and no two files have the same. *)
LEMMA Names ==
  ASSUME NEW h \in InfoHash
  PROVE  /\ Name[h] \in Text /\ Name[h].hash = h /\ Bytes[h] \in Text
         /\ Encoded(Name[h]) \in Text
         /\ Decoded(Encoded(Name[h])) = Name[h]
<1>1. Bytes[h] = [hash |-> h, coded |-> 0] /\ Name[h] = Encoded(Bytes[h])
  BY DEF Bytes, Name
<1>2. CASE h \in PlainHash
  <2>1. Name[h] = [hash |-> h, coded |-> 0] /\ Encoded(Name[h]) = Name[h]
    BY <1>1, <1>2 DEF Encoded
  <2> QED BY <1>1, <1>2, <2>1 DEF Text, Decoded
<1>3. CASE h \notin PlainHash
  <2>1. Name[h] = [hash |-> h, coded |-> 1]
    BY <1>1, <1>3 DEF Encoded
  <2>2. Encoded(Name[h]) = [hash |-> h, coded |-> 2]
    BY <1>3, <2>1 DEF Encoded
  <2> QED BY <1>1, <1>3, <2>1, <2>2 DEF Text, Decoded
<1> QED BY <1>2, <1>3

(* The inductive invariant: the tracker decodes the query to the name of   *)
(* the file that is wanted; its answer has the peers of that file, if it   *)
(* can read them; and the client has made of the answer what its form      *)
(* allows.                                                                 *)
AsksByName == pc = "asked" => Decoded(query) = Name[wanted]

AnswersTheQuestion ==
  answer.by = "tracker" =>
    IF poisoned \/ known[wanted] = <<>> THEN answer.status # 200
    ELSE /\ answer.status = 200 /\ answer.form = "list"
         /\ answer.bytes = Packed(known[wanted])

IsList == answer.status = 200 /\ answer.form = "list"

ClientReads ==
  /\ pc \in {"announce", "asked"} => answer.by = "nobody"
  /\ pc = "ok" => IsList /\ ~Ragged(answer.bytes) /\ found = Unpacked(answer.bytes)
  /\ pc = "error" => answer.by = "nobody" \/ ~IsList
  /\ pc = "panic" => answer.by = "nobody" \/ (IsList /\ Ragged(answer.bytes))

IInv == TypeOK /\ AsksByName /\ AnswersTheQuestion /\ ClientReads

LEMMA InitOK == Init => IInv
<1> SUFFICES ASSUME Init PROVE IInv
  OBVIOUS
<1>1. answer \in Response /\ found \in Seq(Peer) /\ answer.by = "nobody"
  BY DEF Init, NoAnswer, Response
<1>2. query \in Text
  BY Names DEF Init
<1> QED BY <1>1, <1>2
        DEF Init, IInv, TypeOK, AsksByName, AnswersTheQuestion, ClientReads

(* An answer puts down what it is made of, and nothing else happens.       *)
LEMMA RespondOK ==
  ASSUME IInv, NEW by \in {"tracker", "other", "stranger"}, NEW status \in {200, 404, 500},
         NEW form \in {"list", "string", "text"}, NEW bytes \in Seq(Octet),
         Respond(by, status, form, bytes),
         by = "tracker" => IF poisoned \/ known[wanted] = <<>> THEN status # 200
                           ELSE status = 200 /\ form = "list" /\ bytes = Packed(known[wanted])
  PROVE  IInv'
<1>1. /\ pc' = "answered" /\ UNCHANGED <<known, poisoned, wanted, query, found>>
      /\ answer' = [by |-> by, status |-> status, form |-> form, bytes |-> bytes]
  BY DEF Respond
<1>2. answer' \in Response
  BY <1>1 DEF Response
<1>3. /\ answer'.by = by /\ answer'.status = status
      /\ answer'.form = form /\ answer'.bytes = bytes
  BY <1>1
<1>4. TypeOK'
  BY <1>1, <1>2 DEF IInv, TypeOK
<1>5. AnswersTheQuestion'
  BY <1>1, <1>3 DEF AnswersTheQuestion
<1> QED BY <1>1, <1>4, <1>5 DEF IInv, AsksByName, ClientReads

(* This project's tracker finds the file that is wanted or none.           *)
LEMMA TrackerListed ==
  ASSUME IInv, pc = "asked", NEW h \in InfoHash
  PROVE  h \in Listed(Name) <=> h = wanted /\ known[h] # <<>>
<1>1. wanted \in InfoHash /\ Decoded(query) = Name[wanted]
  BY DEF IInv, TypeOK, AsksByName
<1>2. Name[h] = Name[wanted] <=> h = wanted
  BY <1>1, Names
<1> QED BY <1>1, <1>2 DEF Listed

LEMMA PeersKnown ==
  ASSUME IInv, NEW h \in InfoHash PROVE known[h] \in Seq(Peer)
BY PeersAssumption DEF IInv, TypeOK

LEMMA TakeAnswerOK == ASSUME IInv, TakeAnswer PROVE IInv'
<1>1. /\ pc = "answered" /\ UNCHANGED <<known, poisoned, wanted, query, answer>>
      /\ answer.bytes \in Seq(Octet)
  BY DEF TakeAnswer, IInv, TypeOK, Response
<1>2. CASE ~IsList
  <2>1. pc' = "error" /\ found' = found
    BY <1>2 DEF TakeAnswer, IsList
  <2> QED BY <1>1, <1>2, <2>1
          DEF IInv, TypeOK, AsksByName, AnswersTheQuestion, ClientReads, IsList
<1>3. CASE IsList /\ Ragged(answer.bytes)
  <2>1. pc' = "panic" /\ found' = found
    BY <1>3 DEF TakeAnswer, IsList
  <2> QED BY <1>1, <1>3, <2>1
          DEF IInv, TypeOK, AsksByName, AnswersTheQuestion, ClientReads, IsList
<1>4. CASE IsList /\ ~Ragged(answer.bytes)
  <2>1. pc' = "ok" /\ found' = Unpacked(answer.bytes)
    BY <1>4 DEF TakeAnswer, IsList
  <2>2. found' \in Seq(Peer)
    BY <1>1, <1>4, <2>1, NothingLost
  <2> QED BY <1>1, <1>4, <2>1, <2>2
          DEF IInv, TypeOK, AsksByName, AnswersTheQuestion, ClientReads, IsList
<1> QED BY <1>2, <1>3, <1>4

LEMMA NextOK == ASSUME IInv, [Next]_vars PROVE IInv'
<1>1. CASE AskUdp
  BY <1>1 DEF AskUdp, IInv, TypeOK, AsksByName, AnswersTheQuestion, ClientReads, IsList
<1>2. CASE Ask
  <2>1. Decoded(query') = Name[wanted] /\ query' \in Text
    BY <1>2, Names DEF Ask, IInv, TypeOK
  <2> QED BY <1>2, <2>1
          DEF Ask, IInv, TypeOK, AsksByName, AnswersTheQuestion, ClientReads
<1>3. CASE TrackerFinds
  <2>1. PICK h \in Listed(Name) : Respond("tracker", 200, "list", Packed(known[h]))
    BY <1>3 DEF TrackerFinds
  <2>2. h \in InfoHash
    BY DEF Listed
  <2>3. h = wanted /\ known[wanted] # <<>>
    BY <2>1, <2>2, TrackerListed DEF Respond
  <2>4. Packed(known[h]) \in Seq(Octet)
    BY <2>2, PeersKnown, PackedTyped
  <2>5. ~poisoned
    BY <1>3 DEF TrackerFinds
  <2> QED BY <2>1, <2>3, <2>4, <2>5, RespondOK
<1>4. CASE TrackerMisses
  <2>1. pc = "asked" /\ wanted \in InfoHash
    BY <1>4 DEF TrackerMisses, Respond, IInv, TypeOK
  <2>2. known[wanted] = <<>>
    BY <1>4, <2>1, TrackerListed DEF TrackerMisses
  <2>3. Respond("tracker", 404, "text", <<>>) /\ <<>> \in Seq(Octet)
    BY <1>4 DEF TrackerMisses
  <2>4. "tracker" \in {"tracker", "other", "stranger"} /\ 404 \in {200, 404, 500}
        /\ "text" \in {"list", "string", "text"}
    OBVIOUS
  <2> DEFINE bytes == <<>>
  <2>5. Respond("tracker", 404, "text", bytes) /\ bytes \in Seq(Octet)
    BY <2>3
  <2> HIDE DEF bytes
  <2>6. IF poisoned \/ known[wanted] = <<>> THEN 404 # 200
        ELSE 404 = 200 /\ "text" = "list" /\ bytes = Packed(known[wanted])
    BY <2>2
  <2> QED BY <2>4, <2>5, <2>6, RespondOK
<1>5. CASE OtherFinds
  <2>1. PICK h \in Listed(Bytes) : Respond("other", 200, "string", Packed(known[h]))
    BY <1>5 DEF OtherFinds
  <2>2. Packed(known[h]) \in Seq(Octet)
    BY PeersKnown, PackedTyped DEF Listed
  <2> DEFINE bytes == Packed(known[h])
  <2>3. Respond("other", 200, "string", bytes) /\ bytes \in Seq(Octet)
    BY <2>1, <2>2
  <2> HIDE DEF bytes
  <2>4. "other" \in {"tracker", "other", "stranger"} /\ 200 \in {200, 404, 500}
        /\ "string" \in {"list", "string", "text"} /\ "other" # "tracker"
    OBVIOUS
  <2> QED BY <2>3, <2>4, RespondOK
<1>6. CASE OtherMisses
  <2>1. Respond("other", 404, "text", <<>>) /\ <<>> \in Seq(Octet)
    BY <1>6 DEF OtherMisses
  <2>2. "other" \in {"tracker", "other", "stranger"} /\ 404 \in {200, 404, 500}
        /\ "text" \in {"list", "string", "text"} /\ "other" # "tracker"
    OBVIOUS
  <2> QED BY <2>1, <2>2, RespondOK
<1>7. CASE StrangerAnswers
  <2>1. PICK bytes \in ByteLists, form \in {"list", "text"} :
          Respond("stranger", 200, form, bytes)
    BY <1>7 DEF StrangerAnswers
  <2>2. bytes \in Seq(Octet) /\ form \in {"list", "string", "text"}
    BY BytesAssumption
  <2>3. "stranger" \in {"tracker", "other", "stranger"} /\ 200 \in {200, 404, 500}
        /\ "stranger" # "tracker"
    OBVIOUS
  <2> QED BY <2>1, <2>2, <2>3, RespondOK
<1>8. CASE NobodyAnswers
  BY <1>8 DEF NobodyAnswers, IInv, TypeOK, AsksByName, AnswersTheQuestion, ClientReads, IsList
<1>9. CASE TakeAnswer
  BY <1>9, TakeAnswerOK
<1>10. CASE TrackerRefuses
  <2>1. /\ Respond("tracker", 500, "text", <<>>) /\ <<>> \in Seq(Octet)
        /\ "tracker" \in {"tracker", "other", "stranger"} /\ 500 \in {200, 404, 500}
        /\ "text" \in {"list", "string", "text"}
    BY <1>10 DEF TrackerRefuses
  <2> DEFINE bytes == <<>>
  <2>2. Respond("tracker", 500, "text", bytes) /\ bytes \in Seq(Octet)
    BY <2>1
  <2> HIDE DEF bytes
  <2>3. IF poisoned \/ known[wanted] = <<>> THEN 500 # 200
        ELSE 500 = 200 /\ "text" = "list" /\ bytes = Packed(known[wanted])
    BY <1>10 DEF TrackerRefuses
  <2> QED BY <2>1, <2>2, <2>3, RespondOK
<1>11. CASE UNCHANGED vars
  BY <1>11 DEF vars, IInv, TypeOK, AsksByName, AnswersTheQuestion, ClientReads, IsList
<1> QED BY <1>1, <1>2, <1>3, <1>4, <1>5, <1>6, <1>7, <1>8, <1>9, <1>10, <1>11 DEF Next

LEMMA Inductive == Spec => []IInv
BY InitOK, NextOK, PTL DEF Spec

(* Every query is a text, every answer made of bytes, every peer found has *)
(* an address and a port in their range.                                   *)
THEOREM TypeCorrect == Spec => []TypeOK
<1>1. IInv => TypeOK
  BY DEF IInv
<1> QED BY <1>1, Inductive, PTL

(* What this project's tracker has for a file is what the client gets; if  *)
(* it has nothing, or its peers are poisoned, the client fails.            *)
THEOREM Understood == Spec => []TrackerIsUnderstood
<1>1. ASSUME IInv PROVE TrackerIsUnderstood
  <2> SUFFICES ASSUME Done, answer.by = "tracker"
               PROVE  IF poisoned \/ known[wanted] = <<>> THEN pc = "error"
                      ELSE pc = "ok" /\ found = known[wanted]
    BY DEF TrackerIsUnderstood
  <2>1. wanted \in InfoHash /\ known[wanted] \in Seq(Peer)
    BY <1>1, PeersKnown DEF IInv, TypeOK
  <2>2. CASE poisoned \/ known[wanted] = <<>>
    BY <1>1, <2>2 DEF IInv, AnswersTheQuestion, ClientReads, IsList, Done
  <2>3. CASE ~poisoned /\ known[wanted] # <<>>
    <3>1. IsList /\ answer.bytes = Packed(known[wanted])
      BY <1>1, <2>3 DEF IInv, AnswersTheQuestion, IsList
    <3>2. ~Ragged(answer.bytes) /\ Unpacked(answer.bytes) = known[wanted]
      BY <2>1, <3>1, PackedTyped, RoundTrip
    <3> QED BY <1>1, <2>3, <3>1, <3>2 DEF IInv, ClientReads, Done
  <2> QED BY <2>2, <2>3
<1> QED BY <1>1, Inductive, PTL

(* Peers are never made of anything but whole chunks of the answer.        *)
THEOREM NothingMadeUp == Spec => []NothingIsMadeUp
<1>1. ASSUME IInv PROVE NothingIsMadeUp
  <2>1. answer.bytes \in Seq(Octet)
    BY <1>1 DEF IInv, TypeOK, Response
  <2> QED BY <1>1, <2>1, NothingLost DEF IInv, ClientReads, NothingIsMadeUp
<1> QED BY <1>1, Inductive, PTL
=============================================================================
