---------------------------- MODULE ChannelProofs -----------------------------
(***************************************************************************)
(* Theorems about Channel, for any passphrases, any number of requests,    *)
(* any sizes of frames, messages and streams: a passphrase on one end is   *)
(* never silently ignored; a pull fails only for a reason outside the      *)
(* session; and the session implements Rpc.                                *)
(***************************************************************************)
EXTENDS Channel, SequenceTheorems, TLAPS

(***************************************************************************)
(* What an end puts on its stream: frames under its own key, or plain ones *)
(* if it has none.                                                         *)
(***************************************************************************)
NoisePieces(k) ==
    {Selector, Mode} \cup [t : {"hs"}, k : {k}]
    \cup [t : {"head"}, k : {k}, c : Nat, n : Nat]
    \cup [t : {"part"}, k : {k}, c : Nat, u : Payloads]

PlainPieces == [t : {"size"}, n : Nat] \cup [t : {"bytes"}, u : Payloads \ {<<>>}]

Own(e) == IF psk[e] = NoPsk THEN PlainPieces ELSE NoisePieces(psk[e])

Streams(e) == wire[e] \in Seq(Own(e)) /\ out[e] \in Seq(Own(e))

(***************************************************************************)
(* An end with a passphrase has left plain frames behind as soon as it     *)
(* knows what the other end speaks, and only such an end is secure.        *)
(***************************************************************************)
Stage(e) ==
    /\ secure[e] \/ pc[e] = "hs" => psk[e] # NoPsk
    /\ psk[e] # NoPsk /\ pc[e] \notin {"hello", "sniff", "mode", "closed"} => secure[e]
    /\ pc[e] = "body" => need[e] > 0

(***************************************************************************)
(* Until the server has looked at the first piece, that piece is the       *)
(* selector of a client with a passphrase; until it has read the client's  *)
(* handshake message it writes nothing.                                    *)
(***************************************************************************)
Opening ==
    /\ pc["client"] = "hello" => wire["client"] = <<>> /\ out["client"] = <<>>
    /\ pc["server"] \in {"sniff", "mode", "hs"} => wire["server"] = <<>> /\ out["server"] = <<>>
    /\ pc["server"] = "sniff" /\ psk["client"] # NoPsk =>
         /\ pc["client"] \in {"hello", "hs", "closed"}
         /\ wire["client"] # <<>> => Head(wire["client"]) = Selector
         /\ wire["client"] = <<>> /\ out["client"] # <<>> /\ ~cut => Head(out["client"]) = Selector
    /\ pc["server"] = "respond" => acc["server"] # <<>>

(***************************************************************************)
(* The server speaks, and an answer is given or taken, only where the two  *)
(* ends have the same passphrase or none.                                  *)
(***************************************************************************)
Spoken ==
    \/ answered # <<>> \/ got # <<>>
    \/ wire["server"] # <<>> \/ out["server"] # <<>>
    \/ pc["server"] \in {"head", "body", "respond"}

Matched == Spoken => psk["client"] = psk["server"]

CInv == TypeOK /\ (\A e \in Ends : Streams(e) /\ Stage(e)) /\ Opening /\ Matched

-----------------------------------------------------------------------------
(* Sequences of pieces.                                                    *)

LEMMA SubSeqType ==
    ASSUME NEW S, NEW s \in Seq(S), NEW i \in Int, NEW j \in Int, i >= 1, j <= Len(s)
    PROVE  SubSeq(s, i, j) \in Seq(S)
  OBVIOUS

LEMMA SeqNonEmpty ==
    ASSUME NEW S, NEW s \in Seq(S), s # <<>>
    PROVE  Head(s) \in S /\ Tail(s) \in Seq(S) /\ Len(s) > 0 /\ s[1] = Head(s)
  OBVIOUS

LEMMA OwnPieces ==
    ASSUME TypeOK, NEW e \in Ends
    PROVE  Own(e) \subseteq Pieces
<1>1. PlainPieces \subseteq Pieces
  BY DEF PlainPieces, Pieces
<1>2. ASSUME NEW k \in Psks PROVE NoisePieces(k) \subseteq Pieces
  BY DEF NoisePieces, Pieces
<1> QED
  BY <1>1, <1>2 DEF Own, TypeOK

LEMMA Wider ==
    ASSUME NEW S, NEW T, S \subseteq T, NEW s \in Seq(S)
    PROVE  s \in Seq(T)
<1>1. \A i \in 1..Len(s) : s[i] \in T
  BY ElementOfSeq, Zenon
<1> QED
  BY <1>1

(***************************************************************************)
(* chunks() of a payload (secure.rs 186-200), and the pieces of a frame.   *)
(***************************************************************************)
LEMMA PartsType ==
    ASSUME NEW u \in Payloads
    PROVE  Parts(u) \in Nat
<1>1. Len(u) \in Nat /\ MsgCap \in Nat /\ MsgCap > 0
  BY SizesAssumption DEF Payloads
<1> DEFINE a == Len(u) + MsgCap - 1
<1>2. a \in Nat
  BY <1>1
<1> HIDE DEF a
<1>3. a \div MsgCap \in Nat
  BY <1>1, <1>2
<1> QED
  BY <1>3 DEF Parts, a

LEMMA ChunkType ==
    ASSUME NEW u \in Payloads, NEW i \in Nat, i > 0
    PROVE  Chunk(u, i) \in Payloads
<1>1. Len(u) \in Nat /\ MsgCap \in Nat
  BY SizesAssumption DEF Payloads
<1>2. (i - 1) * MsgCap \in Nat /\ i * MsgCap \in Nat
  BY <1>1
<1> DEFINE a == (i - 1) * MsgCap + 1
           b == IF i * MsgCap < Len(u) THEN i * MsgCap ELSE Len(u)
<1>3. a \in Int /\ b \in Int /\ a >= 1 /\ b <= Len(u)
  BY <1>1, <1>2
<1> HIDE DEF a, b
<1>4. SubSeq(u, a, b) \in Seq(Units)
  BY <1>3, SubSeqType DEF Payloads
<1> QED
  BY <1>4 DEF Chunk, Payloads, a, b

LEMMA FrameType ==
    ASSUME TypeOK, NEW e \in Ends, NEW u \in Payloads, secure[e] <=> psk[e] # NoPsk
    PROVE  Frame(e, u) \in Seq(Own(e)) /\ Written(e, u) \in Nat
<1>1. Len(u) \in Nat /\ Parts(u) \in Nat /\ tx[e] \in Nat
  BY PartsType DEF Payloads, TypeOK
<1>2. Written(e, u) \in Nat
  BY <1>1 DEF Written
<1>3. CASE secure[e]
  <2> DEFINE S == NoisePieces(psk[e])
             p == [i \in 1..Parts(u) |-> Part(psk[e], tx[e] + i, Chunk(u, i))]
             h == Head4(psk[e], tx[e], Len(u))
  <2>1. h \in S
    BY <1>1 DEF NoisePieces, Head4
  <2>2. ASSUME NEW i \in 1..Parts(u) PROVE Part(psk[e], tx[e] + i, Chunk(u, i)) \in S
    <3>1. i \in Nat /\ i > 0 /\ tx[e] + i \in Nat
      BY <1>1
    <3>2. Chunk(u, i) \in Payloads
      BY <3>1, ChunkType
    <3> QED
      BY <3>1, <3>2 DEF NoisePieces, Part
  <2>3. p \in Seq(S)
    BY <1>1, <2>2
  <2> HIDE DEF S, p, h
  <2>4. <<h>> \o p \in Seq(S)
    BY <2>1, <2>3
  <2> QED
    BY <1>2, <1>3, <2>4 DEF Frame, NoiseFrame, Own, S, p, h
<1>4. CASE ~secure[e]
  <2>1. Size(0) \in PlainPieces /\ Size(Len(u)) \in PlainPieces
    BY <1>1 DEF PlainPieces, Size
  <2>2. u # <<>> => Bytes(u) \in PlainPieces
    BY DEF PlainPieces, Bytes
  <2>3. PlainFrame(u) \in Seq(PlainPieces)
    BY <2>1, <2>2 DEF PlainFrame
  <2> QED
    BY <1>2, <1>4, <2>3 DEF Frame, Own
<1> QED
  BY <1>3, <1>4

-----------------------------------------------------------------------------
(* The steps.                                                              *)

LEMMA TwoEnds ==
    /\ Ends = {"client", "server"}
    /\ Peer("client") = "server" /\ Peer("server") = "client"
    /\ \A e \in Ends : Peer(e) \in Ends /\ Peer(e) # e /\ Peer(Peer(e)) = e
    /\ \A e, d \in Ends : d = e \/ d = Peer(e)
  BY DEF Ends, Peer

LEMMA InitCInv == Init => CInv
<1> SUFFICES ASSUME Init PROVE CInv
  OBVIOUS
<1>1. <<>> \in Payloads /\ \A S : <<>> \in Seq(S)
  BY DEF Payloads
<1>2. TypeOK
  BY <1>1 DEF Init, TypeOK, PCs, Reasons
<1>3. \A e \in Ends : Streams(e) /\ Stage(e)
  BY <1>1 DEF Init, Streams, Stage
<1>4. Opening /\ Matched
  BY DEF Init, Opening, Matched, Spoken, Ends
<1> QED
  BY <1>2, <1>3, <1>4 DEF CInv

(***************************************************************************)
(* An end closes its socket.                                               *)
(***************************************************************************)
LEMMA CloseCInv ==
    ASSUME CInv, NEW e \in Ends, NEW reason \in Reasons, Close(e, reason)
    PROVE  CInv'
<1>1. /\ pc' = [pc EXCEPT ![e] = "closed"] /\ why' = [why EXCEPT ![e] = reason]
      /\ out' = [out EXCEPT ![e] = <<>>] /\ wire' = [wire EXCEPT ![Peer(e)] = <<>>]
      /\ UNCHANGED <<psk, secure, tx, rx, need, acc, hung, cut, asked, answered, got>>
  BY DEF Close, Goto, readVars, rpcVars
<1>2. TypeOK /\ \A S : <<>> \in Seq(S)
  BY DEF CInv
<1>3. /\ pc'[e] = "closed" /\ out'[e] = <<>> /\ wire'[Peer(e)] = <<>> /\ wire'[e] = wire[e]
      /\ pc'[Peer(e)] = pc[Peer(e)] /\ out'[Peer(e)] = out[Peer(e)]
  BY <1>1, <1>2, TwoEnds DEF TypeOK
<1>4. TypeOK'
  <2>1. pc' \in [Ends -> PCs] /\ why' \in [Ends -> Reasons]
    BY <1>1, <1>2 DEF TypeOK, PCs
  <2>2. out' \in [Ends -> Seq(Pieces)] /\ wire' \in [Ends -> Seq(Pieces)]
    BY <1>1, <1>2 DEF TypeOK
  <2> QED
    BY <1>1, <1>2, <2>1, <2>2 DEF TypeOK
<1>5. ASSUME NEW d \in Ends PROVE Streams(d)' /\ Stage(d)'
  <2>1. Streams(d) /\ Stage(d) /\ (d = e \/ d = Peer(e))
    BY TwoEnds DEF CInv
  <2>2. Own(d)' = Own(d)
    BY <1>1 DEF Own
  <2>3. Streams(d)'
    BY <1>2, <1>3, <2>1, <2>2 DEF Streams
  <2>4. Stage(d)'
    BY <1>1, <1>3, <2>1 DEF Stage
  <2> QED
    BY <2>3, <2>4
<1>6. Opening' /\ Matched'
  <2>1. CASE e = "client"
    BY <1>1, <1>3, <2>1, TwoEnds DEF CInv, Opening, Matched, Spoken
  <2>2. CASE e = "server"
    BY <1>1, <1>3, <2>2, TwoEnds DEF CInv, Opening, Matched, Spoken
  <2> QED
    BY <2>1, <2>2, TwoEnds
<1> QED
  BY <1>4, <1>5, <1>6 DEF CInv

LEMMA FlushCInv ==
    ASSUME CInv, NEW e \in Ends, Flush(e)
    PROVE  CInv'
<1>1. /\ out[e] # <<>> /\ ~cut
      /\ wire' = [wire EXCEPT ![e] = Append(@, Head(out[e]))]
      /\ out' = [out EXCEPT ![e] = Tail(@)]
      /\ UNCHANGED <<psk, secure, pc, tx, rx, need, acc, why, hung, cut, asked, answered, got>>
  BY DEF Flush, WriteFails, readVars, rpcVars
<1>2. TypeOK /\ Streams(e)
  BY DEF CInv
<1>3. /\ wire'[e] = Append(wire[e], Head(out[e])) /\ out'[e] = Tail(out[e])
      /\ \A d \in Ends \ {e} : wire'[d] = wire[d] /\ out'[d] = out[d]
  BY <1>1, <1>2 DEF TypeOK
<1>4. wire'[e] \in Seq(Own(e)) /\ out'[e] \in Seq(Own(e)) /\ Head(out[e]) \in Own(e)
  BY <1>1, <1>2, <1>3, SeqNonEmpty DEF Streams
<1>5. TypeOK'
  <2>1. wire'[e] \in Seq(Pieces) /\ out'[e] \in Seq(Pieces)
    BY <1>2, <1>4, OwnPieces, Wider
  <2>2. wire' \in [Ends -> Seq(Pieces)] /\ out' \in [Ends -> Seq(Pieces)]
    BY <1>1, <1>2, <1>3, <2>1 DEF TypeOK
  <2> QED
    BY <1>1, <1>2, <2>2 DEF TypeOK
<1>6. ASSUME NEW d \in Ends PROVE Streams(d)' /\ Stage(d)'
  <2>1. Streams(d) /\ Stage(d)
    BY DEF CInv
  <2>2. Own(d)' = Own(d)
    BY <1>1 DEF Own
  <2>3. Streams(d)'
    BY <1>3, <1>4, <2>1, <2>2 DEF Streams
  <2>4. Stage(d)'
    BY <1>1, <2>1 DEF Stage
  <2> QED
    BY <2>3, <2>4
<1>7. wire[e] = <<>> => Head(wire'[e]) = Head(out[e])
  BY <1>3
<1>8. wire[e] # <<>> => Head(wire'[e]) = Head(wire[e])
  BY <1>2, <1>3 DEF Streams
<1>9. wire'[e] # <<>>
  BY <1>2, <1>3 DEF Streams
<1>10. Opening' /\ Matched'
  <2>1. CASE e = "client"
    <3>1. pc["client"] # "hello"
      BY <1>1, <2>1 DEF CInv, Opening
    <3> QED
      BY <1>1, <1>3, <1>7, <1>8, <1>9, <2>1, <3>1, TwoEnds DEF CInv, Opening, Matched, Spoken
  <2>2. CASE e = "server"
    BY <1>1, <1>3, <2>2, TwoEnds DEF CInv, Opening, Matched, Spoken
  <2> QED
    BY <2>1, <2>2, TwoEnds
<1> QED
  BY <1>5, <1>6, <1>10 DEF CInv

(***************************************************************************)
(* A read takes the first piece off the peer's stream.                     *)
(***************************************************************************)
LEMMA ReadType ==
    ASSUME CInv, NEW e \in Ends, Arrived(e), wire' = Consumed(e)
    PROVE  /\ wire' \in [Ends -> Seq(Pieces)]
           /\ wire'[Peer(e)] = Tail(wire[Peer(e)]) /\ wire'[e] = wire[e]
           /\ wire'[Peer(e)] \in Seq(Own(Peer(e)))
           /\ Piece(e) \in Own(Peer(e)) /\ Piece(e) \in Pieces
           /\ wire[Peer(e)] # <<>> /\ out[e] = <<>>
<1>1. /\ wire' = [wire EXCEPT ![Peer(e)] = Tail(@)] /\ wire[Peer(e)] # <<>> /\ out[e] = <<>>
  BY DEF Consumed, Arrived, Reads
<1>2. TypeOK /\ wire[Peer(e)] \in Seq(Own(Peer(e))) /\ Peer(e) \in Ends /\ Peer(e) # e
  BY TwoEnds DEF CInv, Streams
<1>3. wire'[Peer(e)] = Tail(wire[Peer(e)]) /\ \A d \in Ends \ {Peer(e)} : wire'[d] = wire[d]
  BY <1>1, <1>2 DEF TypeOK
<1>4. Tail(wire[Peer(e)]) \in Seq(Own(Peer(e))) /\ Piece(e) \in Own(Peer(e))
  BY <1>1, <1>2, SeqNonEmpty DEF Piece
<1>5. Tail(wire[Peer(e)]) \in Seq(Pieces) /\ Piece(e) \in Pieces
  BY <1>2, <1>4, OwnPieces, Wider
<1>6. wire' \in [Ends -> Seq(Pieces)]
  BY <1>1, <1>2, <1>5 DEF TypeOK
<1> QED
  BY <1>1, <1>2, <1>3, <1>4, <1>5, <1>6

(***************************************************************************)
(* What is read tells what it is.                                          *)
(***************************************************************************)
LEMMA PieceFields ==
    ASSUME NEW p \in Pieces
    PROVE  /\ p.t \in {"size", "head"} => p.n \in Nat
           /\ p.t \in {"bytes", "part"} => p.u \in Payloads
<1>1. CASE p \in {Selector, Mode} \cup [t : {"hs"}, k : Psks]
  BY <1>1 DEF Selector, Mode
<1>2. CASE p \in [t : {"size"}, n : Nat] \cup [t : {"head"}, k : Psks, c : Nat, n : Nat]
  BY <1>2
<1>3. CASE p \in [t : {"bytes"}, u : Payloads] \cup [t : {"part"}, k : Psks, c : Nat, u : Payloads]
  BY <1>3
<1> QED
  BY <1>1, <1>2, <1>3 DEF Pieces

LEMMA OwnKey ==
    ASSUME TypeOK, NEW e \in Ends, NEW p \in Own(e)
    PROVE  /\ p.t = "bytes" => p.u # <<>>
           /\ \A k \in Psks : p = Hs(k) => psk[e] = k
           /\ p.t \in {"size", "bytes"} => psk[e] = NoPsk
           /\ psk[e] # NoPsk => p.t \in Encrypted
<1>1. CASE psk[e] = NoPsk
  <2>1. CASE p \in [t : {"size"}, n : Nat]
    BY <1>1, <2>1 DEF Hs
  <2>2. CASE p \in [t : {"bytes"}, u : Payloads \ {<<>>}]
    BY <1>1, <2>2 DEF Hs
  <2> QED
    BY <1>1, <2>1, <2>2 DEF Own, PlainPieces
<1>2. CASE psk[e] # NoPsk
  <2>1. CASE p \in {Selector, Mode}
    BY <1>2, <2>1 DEF Hs, Selector, Mode, Encrypted
  <2>2. CASE p \in [t : {"hs"}, k : {psk[e]}]
    BY <1>2, <2>2 DEF Hs, Encrypted
  <2>3. CASE p \in [t : {"head"}, k : {psk[e]}, c : Nat, n : Nat]
    BY <1>2, <2>3 DEF Hs, Encrypted
  <2>4. CASE p \in [t : {"part"}, k : {psk[e]}, c : Nat, u : Payloads]
    BY <1>2, <2>4 DEF Hs, Encrypted
  <2> QED
    BY <1>2, <2>1, <2>2, <2>3, <2>4 DEF Own, NoisePieces
<1> QED
  BY <1>1, <1>2

(***************************************************************************)
(* A read of an end that is past its opening: the two ends match.          *)
(***************************************************************************)
LEMMA ReadOn ==
    ASSUME CInv, TypeOK', NEW e \in Ends, Arrived(e),
           pc[e] \in {"head", "body"} \/ (e = "client" /\ pc[e] = "hs"),
           wire' = Consumed(e), UNCHANGED <<psk, secure, out, cut, answered>>,
           \A d \in Ends \ {e} : pc'[d] = pc[d] /\ need'[d] = need[d] /\ acc'[d] = acc[d],
           pc'[e] \in {"ask", "head", "body", "respond"},
           pc'[e] = "body" => need'[e] > 0,
           pc'[e] = "respond" => e = "server" /\ acc'[e] # <<>>,
           e = "server" => got' = got
    PROVE  CInv'
<1>1. /\ wire'[Peer(e)] = Tail(wire[Peer(e)]) /\ wire'[e] = wire[e]
      /\ wire'[Peer(e)] \in Seq(Own(Peer(e))) /\ wire[Peer(e)] # <<>> /\ out[e] = <<>>
  BY ReadType
<1>2. ASSUME NEW d \in Ends PROVE Streams(d)' /\ Stage(d)'
  <2>1. Streams(d) /\ Stage(d) /\ (d = e \/ d = Peer(e))
    BY TwoEnds DEF CInv
  <2>2. Own(d)' = Own(d)
    BY DEF Own
  <2>3. Streams(d)'
    BY <1>1, <2>1, <2>2 DEF Streams
  <2>4. CASE d = e
    BY <2>1, <2>3, <2>4 DEF Stage
  <2>5. CASE d # e
    BY <2>1, <2>3, <2>5 DEF Stage
  <2> QED
    BY <2>4, <2>5
<1>3. psk["client"] = psk["server"]
  <2>1. CASE e = "client"
    BY <1>1, <2>1, TwoEnds DEF CInv, Matched, Spoken
  <2>2. CASE e = "server"
    BY <2>2 DEF CInv, Matched, Spoken
  <2> QED
    BY <2>1, <2>2, TwoEnds
<1>4. Opening'
  <2>1. CASE e = "client"
    <3>1. pc["server"] \notin {"sniff", "mode", "hs"} /\ pc'["server"] = pc["server"]
          /\ acc'["server"] = acc["server"]
      BY <1>1, <2>1, TwoEnds DEF CInv, Opening
    <3> QED
      BY <2>1, <3>1 DEF CInv, Opening
  <2>2. CASE e = "server"
    <3>1. pc["client"] # "hello" /\ pc'["client"] = pc["client"]
      BY <1>1, <2>2, TwoEnds DEF CInv, Opening
    <3> QED
      BY <2>2, <3>1 DEF Opening
  <2> QED
    BY <2>1, <2>2, TwoEnds
<1> QED
  BY <1>2, <1>3, <1>4 DEF CInv, Matched

LEMMA ClientHelloCInv ==
    ASSUME CInv, ClientHello
    PROVE  CInv'
<1>1. /\ pc["client"] = "hello"
      /\ UNCHANGED <<psk, wire, tx, rx, need, acc, why, hung, cut, asked, answered, got>>
  BY DEF ClientHello, readVars, rpcVars
<1>2. TypeOK /\ wire["client"] = <<>> /\ out["client"] = <<>> /\ "client" \in Ends
  BY <1>1, TwoEnds DEF CInv, Opening
<1>3. CASE psk["client"] = NoPsk
  <2>1. pc' = [pc EXCEPT !["client"] = "ask"] /\ UNCHANGED <<secure, out>>
    BY <1>3 DEF ClientHello, Goto
  <2>2. pc'["client"] = "ask" /\ pc'["server"] = pc["server"]
    BY <1>2, <2>1, TwoEnds DEF TypeOK
  <2>3. TypeOK'
    BY <1>1, <1>2, <2>1 DEF TypeOK, PCs
  <2>4. ASSUME NEW d \in Ends PROVE Streams(d)' /\ Stage(d)'
    <3>1. Streams(d) /\ Stage(d) /\ Own(d)' = Own(d)
      BY <1>1 DEF CInv, Own
    <3> QED
      BY <1>1, <1>3, <2>1, <2>2, <3>1, TwoEnds DEF Streams, Stage
  <2>5. Opening' /\ Matched'
    BY <1>1, <1>3, <2>1, <2>2 DEF CInv, Opening, Matched, Spoken
  <2> QED
    BY <2>3, <2>4, <2>5 DEF CInv
<1>4. CASE psk["client"] # NoPsk
  <2> DEFINE h == <<Selector, Mode, Hs(psk["client"])>>
  <2>1. /\ pc' = [pc EXCEPT !["client"] = "hs"]
        /\ secure' = [secure EXCEPT !["client"] = TRUE]
        /\ out' = [out EXCEPT !["client"] = h]
    BY <1>4 DEF ClientHello, Goto
  <2>2. h \in Seq(Own("client")) /\ h # <<>> /\ Head(h) = Selector
    BY <1>4 DEF Own, NoisePieces, Hs
  <2> HIDE DEF h
  <2>3. /\ pc'["client"] = "hs" /\ pc'["server"] = pc["server"]
        /\ secure'["client"] /\ secure'["server"] = secure["server"]
        /\ out'["client"] = h /\ out'["server"] = out["server"]
    BY <1>2, <2>1, TwoEnds DEF TypeOK
  <2>4. TypeOK'
    <3>1. h \in Seq(Pieces)
      BY <1>2, <2>2, OwnPieces, Wider
    <3>2. secure' \in [Ends -> BOOLEAN]
      BY <1>2, <2>1 DEF TypeOK
    <3> QED
      BY <1>1, <1>2, <2>1, <3>1, <3>2 DEF TypeOK, PCs
  <2>5. ASSUME NEW d \in Ends PROVE Streams(d)' /\ Stage(d)'
    <3>1. Streams(d) /\ Stage(d) /\ Own(d)' = Own(d)
      BY <1>1 DEF CInv, Own
    <3> QED
      BY <1>1, <1>4, <2>2, <2>3, <3>1, TwoEnds DEF Streams, Stage
  <2>6. Opening' /\ Matched'
    BY <1>1, <1>2, <2>2, <2>3 DEF CInv, Opening, Matched, Spoken
  <2> QED
    BY <2>4, <2>5, <2>6 DEF CInv
<1> QED
  BY <1>3, <1>4

LEMMA SniffSelectorCInv ==
    ASSUME CInv, SniffSelector
    PROVE  CInv'
<1>1. /\ Arrived("server") /\ pc["server"] = "sniff" /\ wire' = Consumed("server")
      /\ pc' = [pc EXCEPT !["server"] = "mode"]
      /\ UNCHANGED <<psk, secure, out, tx, rx, need, acc, why, hung, cut, asked, answered, got>>
  BY DEF SniffSelector, Goto, readVars, rpcVars
<1>2. TypeOK /\ "server" \in Ends
  BY TwoEnds DEF CInv
<1>3. /\ wire' \in [Ends -> Seq(Pieces)] /\ wire'["server"] = wire["server"]
      /\ wire'["client"] \in Seq(Own("client")) /\ wire["client"] # <<>>
  BY <1>1, <1>2, ReadType, TwoEnds
<1>4. pc'["server"] = "mode" /\ pc'["client"] = pc["client"]
  BY <1>1, <1>2, TwoEnds DEF TypeOK
<1>5. TypeOK'
  BY <1>1, <1>2, <1>3 DEF TypeOK, PCs
<1>6. ASSUME NEW d \in Ends PROVE Streams(d)' /\ Stage(d)'
  <2>1. Streams(d) /\ Stage(d) /\ Own(d)' = Own(d)
    BY <1>1 DEF CInv, Own
  <2> QED
    BY <1>1, <1>3, <1>4, <2>1, TwoEnds DEF Streams, Stage
<1>7. Opening' /\ Matched'
  BY <1>1, <1>3, <1>4 DEF CInv, Opening, Matched, Spoken
<1> QED
  BY <1>5, <1>6, <1>7 DEF CInv

LEMMA ReadModeCInv ==
    ASSUME CInv, ReadMode
    PROVE  CInv'
<1>1. CASE ~ServesNoise /\ Close("server", "refused")
  BY <1>1, CloseCInv, TwoEnds DEF Reasons
<1>2. CASE ServesNoise
  <2>1. /\ Arrived("server") /\ pc["server"] = "mode" /\ wire' = Consumed("server")
        /\ psk["server"] # NoPsk
        /\ pc' = [pc EXCEPT !["server"] = "hs"] /\ secure' = [secure EXCEPT !["server"] = TRUE]
        /\ UNCHANGED <<psk, out, tx, rx, need, acc, why, hung, cut, asked, answered, got>>
    BY <1>2 DEF ReadMode, ServesNoise, Goto, readVars, rpcVars
  <2>2. TypeOK /\ "server" \in Ends
    BY TwoEnds DEF CInv
  <2>3. /\ wire' \in [Ends -> Seq(Pieces)] /\ wire'["server"] = wire["server"]
        /\ wire'["client"] \in Seq(Own("client")) /\ wire["client"] # <<>>
    BY <2>1, <2>2, ReadType, TwoEnds
  <2>4. /\ pc'["server"] = "hs" /\ pc'["client"] = pc["client"]
        /\ secure'["server"] /\ secure'["client"] = secure["client"]
    BY <2>1, <2>2, TwoEnds DEF TypeOK
  <2>5. TypeOK'
    <3>1. secure' \in [Ends -> BOOLEAN]
      BY <2>1, <2>2 DEF TypeOK
    <3> QED
      BY <2>1, <2>2, <2>3, <3>1 DEF TypeOK, PCs
  <2>6. ASSUME NEW d \in Ends PROVE Streams(d)' /\ Stage(d)'
    <3>1. Streams(d) /\ Stage(d) /\ Own(d)' = Own(d)
      BY <2>1 DEF CInv, Own
    <3> QED
      BY <2>1, <2>3, <2>4, <3>1, TwoEnds DEF Streams, Stage
  <2>7. Opening' /\ Matched'
    BY <2>1, <2>3, <2>4 DEF CInv, Opening, Matched, Spoken
  <2> QED
    BY <2>5, <2>6, <2>7 DEF CInv
<1> QED
  BY <1>1, <1>2 DEF ReadMode

(***************************************************************************)
(* The first piece of a client with a passphrase is the selector, so what  *)
(* is served plain comes from a client without one.                        *)
(***************************************************************************)
LEMMA SniffPlainCInv ==
    ASSUME CInv, SniffPlain
    PROVE  CInv'
<1> DEFINE n == Piece("server").n
           ok == ServesPlain /\ n \in 1..MaxFrame
<1>1. CASE ~ok
  <2>1. Close("server", IF ServesPlain THEN "oversize" ELSE "refused")
    BY <1>1 DEF SniffPlain
  <2>2. (IF ServesPlain THEN "oversize" ELSE "refused") \in Reasons
    BY DEF Reasons
  <2> QED
    BY <2>1, <2>2, CloseCInv, TwoEnds
<1>2. CASE ok
  <2>1. /\ Arrived("server") /\ pc["server"] = "sniff" /\ wire' = Consumed("server")
        /\ Piece("server") # Selector /\ psk["server"] = NoPsk /\ n \in 1..MaxFrame
        /\ pc' = [pc EXCEPT !["server"] = "body"] /\ need' = [need EXCEPT !["server"] = n]
        /\ UNCHANGED <<psk, secure, out, tx, rx, acc, why, hung, cut, asked, answered, got>>
    BY <1>2 DEF SniffPlain, ServesPlain, Goto, rpcVars
  <2> HIDE DEF n, ok
  <2>2. TypeOK /\ "server" \in Ends
    BY TwoEnds DEF CInv
  <2>3. /\ wire' \in [Ends -> Seq(Pieces)] /\ wire'["server"] = wire["server"]
        /\ wire'["client"] \in Seq(Own("client")) /\ wire["client"] # <<>>
    BY <2>1, <2>2, ReadType, TwoEnds
  <2>4. n \in Nat /\ n > 0
    BY <2>1, SizesAssumption
  <2>5. /\ pc'["server"] = "body" /\ pc'["client"] = pc["client"]
        /\ need'["server"] = n /\ need'["client"] = need["client"]
    BY <2>1, <2>2, TwoEnds DEF TypeOK
  <2>6. TypeOK'
    <3>1. need' \in [Ends -> Nat]
      BY <2>1, <2>2, <2>4 DEF TypeOK
    <3> QED
      BY <2>1, <2>2, <2>3, <3>1 DEF TypeOK, PCs
  <2>7. ASSUME NEW d \in Ends PROVE Streams(d)' /\ Stage(d)'
    <3>1. Streams(d) /\ Stage(d) /\ Own(d)' = Own(d)
      BY <2>1 DEF CInv, Own
    <3> QED
      BY <2>1, <2>3, <2>4, <2>5, <3>1, TwoEnds DEF Streams, Stage
  <2>8. psk["client"] = NoPsk
    BY <2>1, <2>3, TwoEnds DEF CInv, Opening, Piece
  <2>9. Opening' /\ Matched'
    BY <2>1, <2>3, <2>5, <2>8 DEF CInv, Opening, Matched, Spoken
  <2> QED
    BY <2>6, <2>7, <2>9 DEF CInv
<1> QED
  BY <1>1, <1>2

LEMMA HandshakeCInv ==
    ASSUME CInv, NEW e \in Ends, Handshake(e)
    PROVE  CInv'
<1>1. CASE Close(e, "refused")
  BY <1>1, CloseCInv DEF Reasons
<1>2. CASE ~Close(e, "refused")
  <2>1. /\ Arrived(e) /\ pc[e] = "hs" /\ wire' = Consumed(e) /\ Piece(e) = Hs(psk[e])
        /\ pc' = [pc EXCEPT ![e] = IF e = "client" THEN "ask" ELSE "head"]
        /\ out' = IF e = "client" THEN out ELSE [out EXCEPT ![e] = <<Hs(psk[e])>>]
        /\ UNCHANGED <<psk, secure, tx, rx, need, acc, why, hung, cut, asked, answered, got>>
    BY <1>2 DEF Handshake, Goto, readVars, rpcVars
  <2>2. TypeOK /\ psk[e] # NoPsk /\ psk[e] \in Psks
    BY <2>1 DEF CInv, Stage, TypeOK
  <2>3. /\ wire' \in [Ends -> Seq(Pieces)] /\ wire'[e] = wire[e]
        /\ wire'[Peer(e)] \in Seq(Own(Peer(e))) /\ wire[Peer(e)] # <<>>
        /\ Piece(e) \in Own(Peer(e))
    BY <2>1, ReadType
  <2>4. psk[Peer(e)] = psk[e]
    BY <2>1, <2>2, <2>3, OwnKey, TwoEnds
  <2>5. pc' \in [Ends -> PCs] /\ \A d \in Ends \ {e} : pc'[d] = pc[d]
    BY <2>1, <2>2 DEF TypeOK, PCs
  <2>6. CASE e = "client"
    <3>1. out' = out /\ pc'[e] = "ask"
      BY <2>1, <2>2, <2>6 DEF TypeOK
    <3>2. TypeOK'
      BY <2>1, <2>2, <2>3, <2>5, <3>1 DEF TypeOK
    <3> QED
      BY <2>1, <2>5, <2>6, <3>1, <3>2, ReadOn
  <2>7. CASE e = "server"
    <3> DEFINE h == <<Hs(psk[e])>>
    <3>1. h \in Seq(Own(e))
      BY <2>2 DEF Own, NoisePieces, Hs
    <3> HIDE DEF h
    <3>2. out' = [out EXCEPT ![e] = h]
      BY <2>1, <2>7 DEF h
    <3>3. /\ pc'["server"] = "head" /\ pc'["client"] = pc["client"]
          /\ out'["server"] = h /\ out'["client"] = out["client"]
      BY <2>1, <2>2, <2>5, <2>7, <3>2, TwoEnds DEF TypeOK
    <3>4. TypeOK'
      <4>1. h \in Seq(Pieces)
        BY <2>2, <3>1, OwnPieces, Wider
      <4>2. out' \in [Ends -> Seq(Pieces)]
        BY <2>2, <3>2, <4>1 DEF TypeOK
      <4> QED
        BY <2>1, <2>2, <2>3, <2>5, <4>2 DEF TypeOK
    <3>5. ASSUME NEW d \in Ends PROVE Streams(d)' /\ Stage(d)'
      <4>1. Streams(d) /\ Stage(d) /\ Own(d)' = Own(d)
        BY <2>1 DEF CInv, Own
      <4>2. wire'[d] \in Seq(Own(d)) /\ out'[d] \in Seq(Own(d))
        BY <2>3, <2>7, <3>1, <3>3, <4>1, TwoEnds DEF Streams
      <4>3. Streams(d)'
        BY <4>1, <4>2 DEF Streams
      <4>4. pc'[d] = pc[d] \/ (pc[d] = "hs" /\ pc'[d] = "head")
        BY <2>1, <2>7, <3>3, TwoEnds
      <4>5. Stage(d)'
        BY <2>1, <4>1, <4>4 DEF Stage
      <4> QED
        BY <4>3, <4>5
    <3>6. Opening' /\ Matched'
      BY <2>1, <2>3, <2>4, <2>7, <3>3, TwoEnds DEF CInv, Opening, Matched
    <3> QED
      BY <3>4, <3>5, <3>6 DEF CInv
  <2> QED
    BY <2>6, <2>7, TwoEnds
<1> QED
  BY <1>1, <1>2

(***************************************************************************)
(* A frame is complete.                                                    *)
(***************************************************************************)
LEMMA DeliverCInv ==
    ASSUME CInv, NEW e \in Ends, Arrived(e), pc[e] \in {"head", "body"},
           NEW u \in Payloads, e = "server" => u # <<>>,
           rx' \in [Ends -> Nat], Deliver(e, u)
    PROVE  CInv'
<1>1. /\ wire' = Consumed(e) /\ need' = [need EXCEPT ![e] = 0]
      /\ acc' = [acc EXCEPT ![e] = IF e = "client" THEN <<>> ELSE u]
      /\ got' = IF e = "client" THEN Append(got, u) ELSE got
      /\ pc' = [pc EXCEPT ![e] = IF e = "client" THEN "ask" ELSE "respond"]
      /\ UNCHANGED <<psk, secure, out, tx, why, hung, cut, asked, answered>>
  BY DEF Deliver, Goto
<1>2. TypeOK /\ <<>> \in Payloads
  BY DEF CInv, Payloads
<1>3. wire' \in [Ends -> Seq(Pieces)]
  BY <1>1, ReadType
<1>4. TypeOK'
  <2>1. /\ pc' \in [Ends -> PCs] /\ need' \in [Ends -> Nat] /\ acc' \in [Ends -> Payloads]
        /\ got' \in Seq(Payloads)
    BY <1>1, <1>2 DEF TypeOK, PCs
  <2> QED
    BY <1>1, <1>2, <1>3, <2>1 DEF TypeOK
<1>5. /\ pc'[e] = IF e = "client" THEN "ask" ELSE "respond"
      /\ acc'[e] = IF e = "client" THEN <<>> ELSE u
      /\ \A d \in Ends \ {e} : pc'[d] = pc[d] /\ need'[d] = need[d] /\ acc'[d] = acc[d]
  BY <1>1, <1>2 DEF TypeOK
<1> QED
  BY <1>1, <1>4, <1>5, TwoEnds, ReadOn

LEMMA ReadHeadCInv ==
    ASSUME CInv, NEW e \in Ends, ReadHead(e)
    PROVE  CInv'
<1> DEFINE m == Piece(e)
           ok == IF secure[e] THEN m.t = "head" /\ Decrypts(e) ELSE m.t = "size"
           n == m.n
<1>1. Arrived(e) /\ pc[e] = "head" /\ TypeOK
  BY DEF ReadHead, CInv
<1>2. CASE \E reason \in {"garbled", "oversize", "empty"} : Close(e, reason)
  BY <1>2, CloseCInv DEF Reasons
<1>3. CASE ~\E reason \in {"garbled", "oversize", "empty"} : Close(e, reason)
  <2>1. ok /\ rx' = [rx EXCEPT ![e] = IF secure[e] THEN @ + 1 ELSE @]
    BY <1>3 DEF ReadHead
  <2>2. \/ e = "client" /\ Deliver(e, <<>>)
        \/ /\ n > 0 /\ need' = [need EXCEPT ![e] = n] /\ acc' = [acc EXCEPT ![e] = <<>>]
           /\ pc' = [pc EXCEPT ![e] = "body"] /\ wire' = Consumed(e)
           /\ UNCHANGED <<psk, secure, out, tx, why, hung, cut, asked, answered, got>>
    BY <1>3 DEF ReadHead, Goto, rpcVars
  <2>3. rx' \in [Ends -> Nat]
    BY <1>1, <2>1 DEF TypeOK
  <2>4. <<>> \in Payloads
    BY DEF Payloads
  <2>5. CASE e = "client" /\ Deliver(e, <<>>)
    BY <1>1, <2>3, <2>4, <2>5, DeliverCInv
  <2>6. CASE /\ n > 0 /\ need' = [need EXCEPT ![e] = n] /\ acc' = [acc EXCEPT ![e] = <<>>]
             /\ pc' = [pc EXCEPT ![e] = "body"] /\ wire' = Consumed(e)
             /\ UNCHANGED <<psk, secure, out, tx, why, hung, cut, asked, answered, got>>
    <3>1. wire' \in [Ends -> Seq(Pieces)] /\ m \in Pieces
      BY <1>1, <2>6, ReadType
    <3>2. n \in Nat
      BY <2>1, <3>1, PieceFields
    <3> HIDE DEF m, n, ok
    <3>3. TypeOK'
      <4>1. /\ pc' \in [Ends -> PCs] /\ need' \in [Ends -> Nat] /\ acc' \in [Ends -> Payloads]
        BY <1>1, <2>4, <2>6, <3>2 DEF TypeOK, PCs
      <4> QED
        BY <1>1, <2>3, <2>6, <3>1, <4>1 DEF TypeOK
    <3>4. /\ pc'[e] = "body" /\ need'[e] = n
          /\ \A d \in Ends \ {e} : pc'[d] = pc[d] /\ need'[d] = need[d] /\ acc'[d] = acc[d]
      BY <1>1, <2>6 DEF TypeOK
    <3> QED
      BY <1>1, <2>6, <3>3, <3>4, ReadOn
  <2> QED
    BY <2>2, <2>5, <2>6
<1> QED
  BY <1>2, <1>3

LEMMA ReadPlainCInv ==
    ASSUME CInv, NEW e \in Ends, ReadPlain(e)
    PROVE  CInv'
<1>1. /\ Arrived(e) /\ pc[e] = "body" /\ Piece(e).t = "bytes"
      /\ rx' = rx /\ Deliver(e, Piece(e).u)
  BY DEF ReadPlain
<1>2. TypeOK /\ rx' \in [Ends -> Nat]
  BY <1>1 DEF CInv, TypeOK
<1>3. Piece(e) \in Own(Peer(e)) /\ Piece(e) \in Pieces
  BY <1>1, ReadType DEF Deliver
<1>4. Piece(e).u \in Payloads /\ Piece(e).u # <<>>
  BY <1>1, <1>2, <1>3, PieceFields, OwnKey, TwoEnds
<1> QED
  BY <1>1, <1>2, <1>4, DeliverCInv

LEMMA ReadPartCInv ==
    ASSUME CInv, NEW e \in Ends, ReadPart(e)
    PROVE  CInv'
<1> DEFINE m == Piece(e)
           u == acc[e] \o m.u
<1>1. Arrived(e) /\ pc[e] = "body" /\ TypeOK /\ acc[e] \in Payloads
  BY DEF ReadPart, CInv, TypeOK
<1>2. CASE Close(e, "garbled")
  BY <1>2, CloseCInv DEF Reasons
<1>3. CASE ~Close(e, "garbled")
  <2>1. /\ m.t = "part" /\ rx' = [rx EXCEPT ![e] = @ + 1]
        /\ wire' = Consumed(e)
    BY <1>3 DEF ReadPart, Deliver
  <2>2. \/ Enough(e, u) /\ Deliver(e, u)
        \/ /\ acc' = [acc EXCEPT ![e] = u]
           /\ UNCHANGED <<psk, secure, pc, out, tx, need, why, hung, cut, asked, answered, got>>
    BY <1>3 DEF ReadPart, rpcVars
  <2>3. rx' \in [Ends -> Nat]
    BY <1>1, <2>1 DEF TypeOK
  <2>4. wire' \in [Ends -> Seq(Pieces)] /\ m \in Pieces
    BY <1>1, <2>1, ReadType
  <2>5. m.u \in Payloads
    BY <2>1, <2>4, PieceFields
  <2> HIDE DEF m
  <2>6. u \in Payloads
    BY <1>1, <2>5 DEF Payloads
  <2>7. need[e] > 0 /\ need[e] \in Nat
    BY <1>1 DEF CInv, Stage, TypeOK
  <2> HIDE DEF u
  <2>8. CASE Enough(e, u) /\ Deliver(e, u)
    <3>1. u # <<>>
      BY <2>6, <2>7, <2>8 DEF Enough, Payloads
    <3> QED
      BY <1>1, <2>3, <2>6, <2>8, <3>1, DeliverCInv
  <2>9. CASE /\ acc' = [acc EXCEPT ![e] = u]
             /\ UNCHANGED <<psk, secure, pc, out, tx, need, why, hung, cut, asked, answered, got>>
    <3>1. TypeOK'
      <4>1. acc' \in [Ends -> Payloads]
        BY <1>1, <2>6, <2>9 DEF TypeOK
      <4> QED
        BY <1>1, <2>3, <2>4, <2>9, <4>1 DEF TypeOK
    <3>2. \A d \in Ends \ {e} : acc'[d] = acc[d]
      BY <1>1, <2>9 DEF TypeOK
    <3> QED
      BY <1>1, <2>1, <2>7, <2>9, <3>1, <3>2, ReadOn
  <2> QED
    BY <2>2, <2>8, <2>9
<1> QED
  BY <1>2, <1>3

-----------------------------------------------------------------------------

LEMMA AskCInv ==
    ASSUME CInv, NEW n \in ReqSizes, Ask(n)
    PROVE  CInv'
<1> DEFINE u == Request(asked + 1, n)
           f == Frame("client", u)
           w == Written("client", u)
<1>1. /\ pc["client"] = "ask" /\ asked' = asked + 1
      /\ out' = [out EXCEPT !["client"] = f] /\ tx' = [tx EXCEPT !["client"] = w]
      /\ pc' = [pc EXCEPT !["client"] = "head"]
      /\ UNCHANGED <<psk, secure, wire, rx, need, acc, why, hung, cut, answered, got>>
  BY DEF Ask, Goto
<1>2. TypeOK /\ "client" \in Ends /\ n \in Nat /\ asked + 1 \in Nat
  BY TwoEnds, SizesAssumption DEF CInv, TypeOK
<1>3. u \in Payloads
  <2>1. \A j \in 1..n : <<"ask", asked + 1, j>> \in Units
    BY <1>2 DEF Units
  <2> QED
    BY <1>2, <2>1 DEF Request, Payloads
<1> HIDE DEF u
<1>4. f \in Seq(Own("client")) /\ w \in Nat
  <2>1. secure["client"] <=> psk["client"] # NoPsk
    BY <1>1, <1>2 DEF CInv, Stage
  <2> QED
    BY <1>2, <1>3, <2>1, FrameType
<1> HIDE DEF f, w
<1>5. /\ pc'["client"] = "head" /\ out'["client"] = f
      /\ \A d \in Ends \ {"client"} : pc'[d] = pc[d] /\ out'[d] = out[d]
  BY <1>1, <1>2 DEF TypeOK
<1>6. TypeOK'
  <2>1. f \in Seq(Pieces)
    BY <1>2, <1>4, OwnPieces, Wider
  <2> QED
    BY <1>1, <1>2, <1>4, <2>1 DEF TypeOK, PCs
<1>7. ASSUME NEW d \in Ends PROVE Streams(d)' /\ Stage(d)'
  <2>1. Streams(d) /\ Stage(d) /\ Own(d)' = Own(d)
    BY <1>1 DEF CInv, Own
  <2> QED
    BY <1>1, <1>4, <1>5, <2>1 DEF Streams, Stage
<1>8. pc'["server"] = pc["server"] /\ out'["server"] = out["server"]
  BY <1>5, TwoEnds
<1>9. Opening' /\ Matched'
  BY <1>1, <1>5, <1>8 DEF CInv, Opening, Matched, Spoken
<1> QED
  BY <1>6, <1>7, <1>9 DEF CInv

LEMMA RespondCInv ==
    ASSUME CInv, NEW n \in ReplySizes, Respond(n)
    PROVE  CInv'
<1> DEFINE q == acc["server"][1][2]
           u == Reply(q, n)
           f == Frame("server", u)
           w == Written("server", u)
<1>1. CASE Close("server", "oversize")
  BY <1>1, CloseCInv, TwoEnds DEF Reasons
<1>2. CASE ~Close("server", "oversize")
  <2>1. /\ pc["server"] = "respond" /\ answered' = Append(answered, u)
        /\ out' = [out EXCEPT !["server"] = f] /\ tx' = [tx EXCEPT !["server"] = w]
        /\ acc' = [acc EXCEPT !["server"] = <<>>]
        /\ pc' = [pc EXCEPT !["server"] = "head"]
        /\ UNCHANGED <<psk, secure, wire, rx, need, why, hung, cut, asked, got>>
    BY <1>2 DEF Respond, Goto
  <2>2. TypeOK /\ "server" \in Ends /\ n \in Nat /\ <<>> \in Payloads
    BY TwoEnds, SizesAssumption DEF CInv, TypeOK, Payloads
  <2>3. q \in Nat
    <3>1. acc["server"] \in Seq(Units) /\ acc["server"] # <<>>
      BY <2>1, <2>2 DEF CInv, Opening, TypeOK, Payloads
    <3>2. acc["server"][1] \in Units
      BY <3>1
    <3> QED
      BY <3>2 DEF Units
  <2> HIDE DEF q
  <2>4. u \in Payloads
    <3>1. \A j \in 1..n : <<"answer", q, j>> \in Units
      BY <2>2, <2>3 DEF Units
    <3> QED
      BY <2>2, <3>1 DEF Reply, Payloads
  <2> HIDE DEF u
  <2>5. f \in Seq(Own("server")) /\ w \in Nat
    <3>1. secure["server"] <=> psk["server"] # NoPsk
      BY <2>1, <2>2 DEF CInv, Stage
    <3> QED
      BY <2>2, <2>4, <3>1, FrameType
  <2> HIDE DEF f, w
  <2>6. /\ pc'["server"] = "head" /\ out'["server"] = f
        /\ \A d \in Ends \ {"server"} : pc'[d] = pc[d] /\ out'[d] = out[d]
    BY <2>1, <2>2 DEF TypeOK
  <2>7. TypeOK'
    <3>1. f \in Seq(Pieces)
      BY <2>2, <2>5, OwnPieces, Wider
    <3>2. answered' \in Seq(Payloads) /\ acc' \in [Ends -> Payloads]
      BY <2>1, <2>2, <2>4 DEF TypeOK
    <3> QED
      BY <2>1, <2>2, <2>5, <3>1, <3>2 DEF TypeOK, PCs
  <2>8. ASSUME NEW d \in Ends PROVE Streams(d)' /\ Stage(d)'
    <3>1. Streams(d) /\ Stage(d) /\ Own(d)' = Own(d)
      BY <2>1 DEF CInv, Own
    <3> QED
      BY <2>1, <2>5, <2>6, <3>1 DEF Streams, Stage
  <2>9. pc'["client"] = pc["client"] /\ out'["client"] = out["client"]
    BY <2>6, TwoEnds
  <2>10. Opening'
    BY <2>1, <2>6, <2>9 DEF CInv, Opening
  <2>11. Matched'
    BY <2>1 DEF CInv, Matched, Spoken
  <2> QED
    BY <2>7, <2>8, <2>10, <2>11 DEF CInv
<1> QED
  BY <1>1, <1>2

(***************************************************************************)
(* What was in flight when the connection broke arrives in part, but never *)
(* without what was written before it.                                     *)
(***************************************************************************)
LEMMA BreakCInv ==
    ASSUME CInv, Break
    PROVE  CInv'
<1>1. PICK n \in 0..Len(wire["client"]), m \in 0..Len(wire["server"]) :
         wire' = [e \in Ends |-> SubSeq(wire[e], 1, IF e = "client" THEN n ELSE m)]
  BY DEF Break
<1>2. /\ cut' = TRUE
      /\ UNCHANGED <<psk, secure, pc, out, tx, rx, need, acc, why, hung, asked, answered, got>>
  BY DEF Break, readVars, rpcVars
<1>3. TypeOK
  BY DEF CInv
<1>4. ASSUME NEW e \in Ends
      PROVE  /\ wire'[e] \in Seq(Own(e))
             /\ wire'[e] # <<>> => wire[e] # <<>> /\ Head(wire'[e]) = Head(wire[e])
  <2> DEFINE l == IF e = "client" THEN n ELSE m
  <2>1. wire[e] \in Seq(Own(e)) /\ l \in 0..Len(wire[e])
    BY <1>1, TwoEnds DEF CInv, Streams
  <2>2. wire'[e] = SubSeq(wire[e], 1, l)
    BY <1>1
  <2> HIDE DEF l
  <2>3. Len(wire[e]) \in Nat
    BY <2>1
  <2>4. SubSeq(wire[e], 1, l) \in Seq(Own(e))
    BY <2>1, <2>3, SubSeqType
  <2>5. CASE l = 0
    BY <2>1, <2>2, <2>4, <2>5
  <2>6. CASE l > 0
    BY <2>1, <2>2, <2>3, <2>4, <2>6
  <2> QED
    BY <2>1, <2>3, <2>5, <2>6
<1>5. TypeOK'
  <2>1. wire' \in [Ends -> Seq(Pieces)]
    <3>1. ASSUME NEW e \in Ends PROVE wire'[e] \in Seq(Pieces)
      BY <1>3, <1>4, OwnPieces, Wider
    <3> QED
      BY <1>1, <3>1
  <2> QED
    BY <1>2, <1>3, <2>1 DEF TypeOK
<1>6. ASSUME NEW d \in Ends PROVE Streams(d)' /\ Stage(d)'
  <2>1. Streams(d) /\ Stage(d) /\ Own(d)' = Own(d)
    BY <1>2 DEF CInv, Own
  <2> QED
    BY <1>2, <1>4, <2>1 DEF Streams, Stage
<1>7. Opening' /\ Matched'
  BY <1>2, <1>4, TwoEnds DEF CInv, Opening, Matched, Spoken
<1> QED
  BY <1>5, <1>6, <1>7 DEF CInv

LEMMA QuietCInv ==
    ASSUME CInv, hung' \in [Ends -> BOOLEAN],
           UNCHANGED <<psk, secure, pc, out, wire, tx, rx, need, acc, why, cut,
                       asked, answered, got>>
    PROVE  CInv'
<1>1. TypeOK'
  BY DEF CInv, TypeOK
<1>2. ASSUME NEW d \in Ends PROVE Streams(d)' /\ Stage(d)'
  BY DEF CInv, Streams, Stage, Own
<1>3. Opening' /\ Matched'
  BY DEF CInv, Opening, Matched, Spoken
<1> QED
  BY <1>1, <1>2, <1>3 DEF CInv

LEMMA NextCInv == CInv /\ [Next]_vars => CInv'
<1> SUFFICES ASSUME CInv, [Next]_vars PROVE CInv'
  OBVIOUS
<1>1. ASSUME NEW e \in Ends, Flush(e) \/ Handshake(e) \/ ReadHead(e) \/ ReadPlain(e) \/ ReadPart(e)
      PROVE  CInv'
  BY <1>1, FlushCInv, HandshakeCInv, ReadHeadCInv, ReadPlainCInv, ReadPartCInv
<1>2. ASSUME NEW e \in Ends, WriteError(e) \/ EndOfStream(e) \/ Timeout(e) \/ Kill(e)
      PROVE  CInv'
  <2>1. \E reason \in {"lost", "deadlock", "slow", "killed"} : Close(e, reason)
    BY <1>2 DEF WriteError, EndOfStream, Timeout, Kill
  <2> QED
    BY <2>1, CloseCInv DEF Reasons
<1>3. CASE Done \/ RespondFails
  BY <1>3, CloseCInv, TwoEnds DEF Done, RespondFails, Reasons
<1>4. CASE ClientHello \/ SniffSelector \/ ReadMode \/ SniffPlain
  BY <1>4, ClientHelloCInv, SniffSelectorCInv, ReadModeCInv, SniffPlainCInv
<1>5. CASE \E n \in ReqSizes : Ask(n)
  BY <1>5, AskCInv
<1>6. CASE \E n \in ReplySizes : Respond(n)
  BY <1>6, RespondCInv
<1>7. CASE Break
  BY <1>7, BreakCInv
<1>8. ASSUME NEW e \in Ends, Hang(e) PROVE CInv'
  <2>1. hung \in [Ends -> BOOLEAN]
    BY DEF CInv, TypeOK
  <2>2. hung' \in [Ends -> BOOLEAN]
    BY <1>8, <2>1 DEF Hang
  <2> QED
    BY <1>8, <2>2, QuietCInv DEF Hang, readVars, rpcVars
<1>9. CASE UNCHANGED vars
  <2>1. hung' \in [Ends -> BOOLEAN]
    BY <1>9 DEF vars, CInv, TypeOK
  <2> QED
    BY <1>9, <2>1, QuietCInv DEF vars, readVars, rpcVars
<1> QED
  BY <1>1, <1>2, <1>3, <1>4, <1>5, <1>6, <1>7, <1>8, <1>9, TwoEnds
     DEF Next, Client, Server, Common, Fault

LEMMA SpecCInv == Spec => []CInv
  BY InitCInv, NextCInv, PTL DEF Spec

(***************************************************************************)
(* Security is never silently downgraded: whatever the other end sends and *)
(* wherever the connection breaks, an end with a passphrase puts nothing   *)
(* but the selector and Noise messages on the wire, and no answer is given *)
(* or accepted between ends that do not have the same passphrase or none.  *)
(***************************************************************************)
THEOREM NeverDowngraded == Spec => [](TypeOK /\ NoDowngrade)
<1>1. CInv => TypeOK /\ NoDowngrade
  <2> SUFFICES ASSUME CInv PROVE TypeOK /\ NoDowngrade
    OBVIOUS
  <2>1. TypeOK /\ (answered # <<>> \/ got # <<>> => psk["client"] = psk["server"])
    BY DEF CInv, Matched, Spoken
  <2>2. ASSUME NEW e \in Ends, psk[e] # NoPsk, NEW i \in 1..Len(wire[e])
        PROVE  wire[e][i].t \in Encrypted
    <3>1. wire[e] \in Seq(Own(e))
      BY DEF CInv, Streams
    <3>2. wire[e][i] \in Own(e)
      BY <3>1, ElementOfSeq, Zenon
    <3> QED
      BY <2>1, <2>2, <3>2, OwnKey
  <2> QED
    BY <2>1, <2>2 DEF NoDowngrade
<1> QED
  BY <1>1, SpecCInv, PTL

-----------------------------------------------------------------------------
(* Which pieces are in flight.                                             *)

Intact == ~cut /\ Open("client") /\ Open("server")

(***************************************************************************)
(* End d has sent F and its peer has read the first r pieces: the rest is  *)
(* on the wire and still to be written, all of it while nothing is broken  *)
(* or closed, and without a gap in what arrives in any case.               *)
(***************************************************************************)
Flow(d, F, r) ==
    /\ r \in 0..Len(F)
    /\ r + Len(wire[d]) + Len(out[d]) <= Len(F)
    /\ Intact => r + Len(wire[d]) + Len(out[d]) = Len(F)
    /\ \A i \in 1..Len(wire[d]) : wire[d][i] = F[r + i]
    /\ \A i \in 1..Len(out[d]) : out[d][i] = F[Len(F) - Len(out[d]) + i]

Hello == <<Selector, Mode, Hs(psk["client"])>>
Welcome == <<Hs(psk["server"])>>

\* The frame end d wrote last, with payload u.
Sent(d, u) ==
    IF psk[d] = NoPsk THEN PlainFrame(u) ELSE NoiseFrame(psk[d], tx[d] - 1 - Parts(u), u)

\* What i messages carry of a payload.
Upto(u, i) == SubSeq(u, 1, IF i * MsgCap < Len(u) THEN i * MsgCap ELSE Len(u))

(***************************************************************************)
(* End e has read r pieces of a frame of its peer with payload u.          *)
(***************************************************************************)
Within(e, u, r) ==
    LET F == Sent(Peer(e), u)
    IN  /\ Flow(Peer(e), F, r)
        /\ psk[e] # NoPsk => rx[e] + Len(F) = tx[Peer(e)] + r
        /\ pc[e] = "body" <=> r > 0 /\ r < Len(F)
        /\ pc[e] = "body" => need[e] = Len(u) /\ (psk[e] # NoPsk => acc[e] = Upto(u, r - 1))

Idle(d) == wire[d] = <<>> /\ out[d] = <<>>

(***************************************************************************)
(* From the client to the server: nothing yet, the hello, or a request,    *)
(* which is being read, is read, or is answered.                           *)
(***************************************************************************)
Requested(u, r) ==
    LET F == Sent("client", u)
    IN  /\ Within("server", u, r)
        /\ r = 0 => pc["server"] = "head" \/ (pc["server"] = "sniff" /\ psk["server"] = NoPsk)
        /\ r = Len(F) => pc["server"] \in {"head", "respond"}
        /\ pc["server"] = "respond" => acc["server"] = u
        /\ Len(answered) = IF r = Len(F) /\ pc["server"] = "head" THEN asked ELSE asked - 1

Silent ==
    /\ Idle("client") /\ pc["server"] = "sniff"
    /\ psk["client"] = NoPsk \/ pc["client"] = "hello"

Greeting ==
    /\ psk["client"] # NoPsk /\ pc["client"] # "hello"
    /\ \E r \in 0..3 : /\ Flow("client", Hello, r)
                       /\ pc["server"] = <<"sniff", "mode", "hs", "head">>[r + 1]

ToServer ==
    \/ /\ asked = 0 /\ answered = <<>> /\ tx["client"] = 0 /\ rx["server"] = 0
       /\ Silent \/ Greeting
    \/ asked > 0 /\ \E n \in ReqSizes, r \in Nat : Requested(Request(asked, n), r)

(***************************************************************************)
(* From the server to the client: nothing yet, the answer to its hello, or *)
(* the last answer.                                                        *)
(***************************************************************************)
Replied(r) ==
    LET u == answered[Len(answered)]
        F == Sent("server", u)
    IN  /\ Within("client", u, r)
        /\ r < Len(F) => Len(got) < Len(answered) /\ pc["client"] \in {"head", "body"}
        /\ r = Len(F) => Len(got) = Len(answered)

ToClient ==
    \/ /\ answered = <<>> /\ got = <<>> /\ pc["client"] # "body"
       /\ tx["server"] = 0 /\ rx["client"] = 0
       /\ IF pc["client"] = "hs" /\ pc["server"] \notin {"sniff", "mode", "hs"}
          THEN Flow("server", Welcome, 0)
          ELSE Idle("server")
    \/ answered # <<>> /\ \E r \in Nat : Replied(r)

(***************************************************************************)
(* One request at a time.                                                  *)
(***************************************************************************)
Counts ==
    /\ Len(got) <= Len(answered) /\ Len(answered) <= asked /\ asked <= Len(got) + 1
    /\ pc["client"] \in {"hello", "hs"} => asked = 0
    /\ pc["client"] = "ask" => asked = Len(got)
    /\ pc["client"] \in {"head", "body"} => asked = Len(got) + 1
    /\ pc["client"] \notin {"sniff", "mode", "respond"} /\ pc["server"] \notin {"hello", "ask"}
    /\ psk["client"] # NoPsk /\ pc["client"] \in {"ask", "head", "body"} =>
          pc["server"] \notin {"sniff", "mode", "hs"}

InStep ==
    psk["client"] = psk["server"] =>
        /\ Open("server") => ToServer
        /\ Open("client") => ToClient

(***************************************************************************)
(* Why the ends closed.                                                    *)
(***************************************************************************)
Outside == {"killed", "slow", "error", "oversize"}

Causes ==
    /\ \A e \in Ends : Open(e) <=> why[e] = "open"
    /\ psk["client"] = psk["server"] /\ ~Open("server") =>
          why["server"] \in Outside \/ cut \/ ~Open("client")
    /\ FailsForCause

SessionInv == Counts /\ InStep /\ Causes

-----------------------------------------------------------------------------
(* A frame is cut into messages and put together again.                    *)

LEMMA Quotient ==
    ASSUME NEW a \in Nat, NEW m \in Nat, m > 0
    PROVE  /\ a \div m \in Nat
           /\ (a \div m) * m <= a
           /\ a < (a \div m) * m + m
  OBVIOUS

LEMMA Scaled ==
    ASSUME NEW i \in Nat, NEW j \in Nat, i <= j, NEW m \in Nat
    PROVE  i * m <= j * m /\ i * m \in Nat /\ (i + 1) * m = i * m + m
<1>1. (j - i) * m >= 0 /\ (j - i) * m = j * m - i * m
  BY SMT
<1> QED
  BY <1>1, SMT

(***************************************************************************)
(* How many messages carry a payload: all but the last are full.           *)
(***************************************************************************)
LEMMA PartsCover ==
    ASSUME NEW u \in Payloads, NEW i \in Nat
    PROVE  i * MsgCap < Len(u) <=> i < Parts(u)
<1> DEFINE p == Parts(u)
           a == Len(u) + MsgCap - 1
<1>1. Len(u) \in Nat /\ MsgCap \in Nat /\ MsgCap > 0
  BY SizesAssumption DEF Payloads
<1>2. p \in Nat /\ p = a \div MsgCap /\ a \in Nat
  BY <1>1, PartsType DEF Parts
<1> HIDE DEF a
<1>3. p * MsgCap <= a /\ a < p * MsgCap + MsgCap
  BY <1>1, <1>2, Quotient
<1> HIDE DEF p
<1>4. p * MsgCap \in Nat /\ i * MsgCap \in Nat
  BY <1>1, <1>2
<1>5. CASE i < p
  <2>1. i + 1 <= p /\ i + 1 \in Nat
    BY <1>2, <1>5
  <2>2. (i + 1) * MsgCap <= p * MsgCap /\ (i + 1) * MsgCap = i * MsgCap + MsgCap
    BY <1>1, <1>2, <2>1, Scaled
  <2> QED
    BY <1>1, <1>3, <1>4, <1>5, <2>2 DEF a, p
<1>6. CASE p <= i
  <2>1. p * MsgCap <= i * MsgCap
    BY <1>1, <1>2, <1>6, Scaled
  <2> QED
    BY <1>1, <1>2, <1>3, <1>4, <1>6, <2>1 DEF a, p
<1> QED
  BY <1>2, <1>5, <1>6

(***************************************************************************)
(* What i messages carry.                                                  *)
(***************************************************************************)
LEMMA UptoLen ==
    ASSUME NEW u \in Payloads, NEW i \in Nat
    PROVE  /\ Upto(u, i) \in Payloads
           /\ Len(Upto(u, i)) = IF i < Parts(u) THEN i * MsgCap ELSE Len(u)
           /\ Len(Upto(u, i)) <= Len(u)
           /\ i >= Parts(u) => Upto(u, i) = u
           /\ i = 0 => Upto(u, i) = <<>>
<1> DEFINE c == i * MsgCap
           b == IF c < Len(u) THEN c ELSE Len(u)
<1>1. Len(u) \in Nat /\ MsgCap \in Nat /\ u \in Seq(Units) /\ c \in Nat
  BY SizesAssumption DEF Payloads
<1>2. c < Len(u) <=> i < Parts(u)
  BY PartsCover
<1>3. Upto(u, i) = SubSeq(u, 1, b)
  BY DEF Upto
<1>4. i = 0 => c = 0
  BY <1>1
<1>5. Parts(u) \in Nat
  BY PartsType
<1> HIDE DEF c
<1>6. b \in 0..Len(u) /\ b = (IF i < Parts(u) THEN c ELSE Len(u))
  BY <1>1, <1>2
<1> HIDE DEF b
<1>7. SubSeq(u, 1, b) \in Seq(Units) /\ Len(SubSeq(u, 1, b)) = b
  BY <1>1, <1>6
<1>8. b = Len(u) => SubSeq(u, 1, b) = u
  BY <1>1, <1>7
<1>9. i = 0 => b = 0
  BY <1>1, <1>4, <1>6 DEF b
<1> QED
  BY <1>1, <1>3, <1>5, <1>6, <1>7, <1>8, <1>9 DEF Payloads, c

LEMMA UptoNext ==
    ASSUME NEW u \in Payloads, NEW i \in Nat, i < Parts(u)
    PROVE  Upto(u, i) \o Chunk(u, i + 1) = Upto(u, i + 1)
<1> DEFINE c == i * MsgCap
           d == (i + 1) * MsgCap
           b == IF d < Len(u) THEN d ELSE Len(u)
<1>1. Len(u) \in Nat /\ MsgCap \in Nat /\ u \in Seq(Units) /\ c \in Nat /\ MsgCap > 0
  BY SizesAssumption DEF Payloads
<1>2. c < Len(u) /\ d = c + MsgCap
  BY <1>1, PartsCover, Scaled
<1>3. Upto(u, i) = SubSeq(u, 1, c) /\ Upto(u, i + 1) = SubSeq(u, 1, b)
  BY <1>2 DEF Upto
<1>4. Chunk(u, i + 1) = SubSeq(u, c + 1, b)
  <2>1. (i + 1) - 1 = i
    OBVIOUS
  <2> QED
    BY <2>1 DEF Chunk
<1> HIDE DEF c, d
<1>5. b \in Nat /\ c < b /\ b <= Len(u)
  BY <1>1, <1>2
<1> HIDE DEF b
<1>6. SubSeq(u, 1, c) \o SubSeq(u, c + 1, b) = SubSeq(u, 1, b)
  <2> DEFINE x == SubSeq(u, 1, c)
             y == SubSeq(u, c + 1, b)
             z == SubSeq(u, 1, b)
  <2>1. x \in Seq(Units) /\ Len(x) = c /\ \A j \in 1..c : x[j] = u[j]
    BY <1>1, <1>2, <1>5
  <2>2. y \in Seq(Units) /\ Len(y) = b - c /\ \A j \in 1..(b - c) : y[j] = u[c + j]
    BY <1>1, <1>2, <1>5
  <2>3. z \in Seq(Units) /\ Len(z) = b /\ \A j \in 1..b : z[j] = u[j]
    BY <1>1, <1>2, <1>5
  <2> HIDE DEF x, y, z
  <2>4. /\ x \o y \in Seq(Units) /\ Len(x \o y) = Len(x) + Len(y)
        /\ \A j \in 1..(Len(x) + Len(y)) :
              (x \o y)[j] = IF j <= Len(x) THEN x[j] ELSE y[j - Len(x)]
    BY <2>1, <2>2, ConcatProperties
  <2>5. Len(x) + Len(y) = b
    BY <1>1, <1>5, <2>1, <2>2
  <2>6. ASSUME NEW j \in 1..b PROVE (x \o y)[j] = z[j]
    <3>1. CASE j <= c
      <4>1. j \in 1..(Len(x) + Len(y)) /\ j <= Len(x) /\ j \in 1..c
        BY <1>1, <2>1, <2>5, <3>1
      <4>2. (x \o y)[j] = x[j]
        BY <2>4, <4>1
      <4> QED
        BY <2>1, <2>3, <4>1, <4>2
    <3>2. CASE j > c
      <4>1. (x \o y)[j] = y[j - c] /\ j - c \in 1..(b - c)
        <5>1. j \in 1..(Len(x) + Len(y)) /\ ~(j <= Len(x)) /\ Len(x) = c
          BY <1>1, <2>1, <2>5, <3>2
        <5>2. (x \o y)[j] = y[j - Len(x)]
          BY <2>4, <5>1
        <5> QED
          BY <1>1, <1>5, <3>2, <5>1, <5>2
      <4>2. y[j - c] = u[c + (j - c)] /\ c + (j - c) = j
        BY <1>1, <1>5, <2>2, <4>1
      <4> QED
        BY <2>3, <4>1, <4>2
    <3>3. j <= c \/ j > c
      BY <1>1, <1>5
    <3> QED
      BY <3>1, <3>2, <3>3
  <2>7. x \o y = z
    BY <1>5, <2>3, <2>4, <2>5, <2>6, SeqEqual
  <2> QED
    BY <2>7 DEF x, y, z
<1> QED
  BY <1>3, <1>4, <1>6

(***************************************************************************)
(* The pieces of a frame.                                                  *)
(***************************************************************************)
LEMMA NoiseShape ==
    ASSUME NEW k, NEW c \in Int, NEW u \in Payloads
    PROVE  /\ Len(NoiseFrame(k, c, u)) = 1 + Parts(u)
           /\ NoiseFrame(k, c, u)[1] = Head4(k, c, Len(u))
           /\ \A i \in 1..Parts(u) : NoiseFrame(k, c, u)[i + 1] = Part(k, c + i, Chunk(u, i))
           /\ \E S : NoiseFrame(k, c, u) \in Seq(S)
<1> DEFINE h == Head4(k, c, Len(u))
           p == [i \in 1..Parts(u) |-> Part(k, c + i, Chunk(u, i))]
           S == {h} \cup {p[i] : i \in 1..Parts(u)}
<1>1. Parts(u) \in Nat
  BY PartsType
<1>2. NoiseFrame(k, c, u) = <<h>> \o p
  BY DEF NoiseFrame
<1>3. \A i \in 1..Parts(u) : p[i] = Part(k, c + i, Chunk(u, i))
  OBVIOUS
<1>4. p \in Seq(S) /\ Len(p) = Parts(u)
  BY <1>1
<1>5. h \in S
  OBVIOUS
<1> HIDE DEF S, p, h
<1>6. <<h>> \in Seq(S) /\ Len(<<h>>) = 1 /\ <<h>>[1] = h
  BY <1>5
<1>7. /\ Len(<<h>> \o p) = 1 + Parts(u) /\ <<h>> \o p \in Seq(S)
      /\ \A i \in 1..(1 + Parts(u)) : (<<h>> \o p)[i] = IF i <= 1 THEN <<h>>[i] ELSE p[i - 1]
  BY <1>4, <1>6, ConcatProperties
<1>8. (<<h>> \o p)[1] = h
  BY <1>1, <1>6, <1>7
<1>9. ASSUME NEW i \in 1..Parts(u) PROVE (<<h>> \o p)[i + 1] = p[i]
  <2>1. i + 1 \in 1..(1 + Parts(u)) /\ ~(i + 1 <= 1) /\ (i + 1) - 1 = i
    BY <1>1
  <2> QED
    BY <1>7, <2>1
<1> QED
  BY <1>2, <1>3, <1>7, <1>8, <1>9 DEF h

LEMMA PlainShape ==
    ASSUME NEW u \in Payloads
    PROVE  /\ u = <<>> => Len(PlainFrame(u)) = 1
           /\ u # <<>> => Len(PlainFrame(u)) = 2 /\ PlainFrame(u)[2] = Bytes(u)
           /\ PlainFrame(u)[1] = Size(Len(u))
           /\ \E S : PlainFrame(u) \in Seq(S)
<1> DEFINE a == Size(Len(u))
           b == Bytes(u)
<1>2. u = <<>> => Size(0) = a
  BY DEF Payloads
<1>3. PlainFrame(u) = IF u = <<>> THEN <<a>> ELSE <<a, b>>
  BY <1>2 DEF PlainFrame
<1> HIDE DEF a, b
<1>4. <<a>> \in Seq({a, b}) /\ <<a, b>> \in Seq({a, b})
  OBVIOUS
<1>1. PlainFrame(u) \in Seq({a, b})
  BY <1>3, <1>4
<1> QED
  BY <1>1 DEF PlainFrame, Payloads

LEMMA SentShape ==
    ASSUME TypeOK, NEW d \in Ends, NEW u \in Payloads
    PROVE  /\ \E S : Sent(d, u) \in Seq(S)
           /\ Len(Sent(d, u)) \in Nat /\ Len(Sent(d, u)) > 0
           /\ psk[d] # NoPsk => Len(Sent(d, u)) = 1 + Parts(u)
<1>1. Parts(u) \in Nat /\ tx[d] - 1 - Parts(u) \in Int
  BY PartsType DEF TypeOK
<1>2. CASE psk[d] = NoPsk
  BY <1>2, PlainShape DEF Sent
<1>3. CASE psk[d] # NoPsk
  <2> DEFINE F == NoiseFrame(psk[d], tx[d] - 1 - Parts(u), u)
  <2>1. Sent(d, u) = F
    BY <1>3 DEF Sent
  <2>2. Len(F) = 1 + Parts(u) /\ \E S : F \in Seq(S)
    BY <1>1, NoiseShape
  <2> HIDE DEF F
  <2>3. Len(F) \in Nat /\ Len(F) > 0
    BY <1>1, <2>2
  <2> QED
    BY <2>1, <2>2, <2>3
<1> QED
  BY <1>2, <1>3

-----------------------------------------------------------------------------
(* What is in flight, step by step.                                        *)

LEMMA FlowFlush ==
    ASSUME TypeOK, NEW d \in Ends, NEW S, NEW F \in Seq(S), NEW r \in Nat, Flow(d, F, r), Flush(d)
    PROVE  Flow(d, F, r)'
<1> DEFINE w == wire[d]
           o == out[d]
<1>1. /\ o # <<>> /\ wire' = [wire EXCEPT ![d] = Append(@, Head(o))]
      /\ out' = [out EXCEPT ![d] = Tail(@)] /\ UNCHANGED <<cut, pc>>
  BY DEF Flush
<1>2. Intact
  <2>1. ~cut /\ Open(d) /\ Open(Peer(d))
    BY DEF Flush, Runs, WriteFails
  <2> QED
    BY <1>1, <2>1, TwoEnds DEF Intact, Open
<1>3. w \in Seq(Pieces) /\ o \in Seq(Pieces) /\ Len(w) \in Nat /\ Len(o) \in Nat /\ Len(F) \in Nat
  BY DEF TypeOK
<1>4. wire'[d] = Append(w, Head(o)) /\ out'[d] = Tail(o)
  BY <1>1 DEF TypeOK
<1>a. /\ r \in 0..Len(F)
      /\ r + Len(w) + Len(o) <= Len(F)
      /\ Intact => r + Len(w) + Len(o) = Len(F)
      /\ \A i \in 1..Len(w) : w[i] = F[r + i]
      /\ \A i \in 1..Len(o) : o[i] = F[Len(F) - Len(o) + i]
  BY DEF Flow
<1> HIDE DEF w, o
<1>5. r + Len(w) + Len(o) = Len(F)
  BY <1>2, <1>a
<1>6. /\ Len(Tail(o)) = Len(o) - 1 /\ Len(o) > 0 /\ Head(o) = o[1] /\ Head(o) \in Pieces
      /\ \A i \in 1..Len(Tail(o)) : Tail(o)[i] = o[i + 1]
  BY <1>1, <1>3, HeadTailProperties
<1>7. /\ Len(Append(w, Head(o))) = Len(w) + 1
      /\ \A i \in 1..Len(w) : Append(w, Head(o))[i] = w[i]
      /\ Append(w, Head(o))[Len(w) + 1] = Head(o)
  BY <1>3, <1>6, AppendProperties
<1> DEFINE a == Len(w)
           b == Len(o)
           t == Len(Tail(o))
           l == Len(F)
<1>n. a \in Nat /\ b \in Nat /\ l \in Nat /\ t = b - 1 /\ b > 0 /\ r + a + b = l
  BY <1>3, <1>5, <1>6
<1> HIDE DEF a, b, t, l
<1>m. /\ l - b + 1 = r + (a + 1) /\ r + (a + 1) + t = l
      /\ \A i \in 1..t : i + 1 \in 1..b /\ l - b + (i + 1) = l - t + i
  BY <1>n
<1>b. /\ Len(F) - Len(o) + 1 = r + (Len(w) + 1) /\ r + (Len(w) + 1) + Len(Tail(o)) = Len(F)
      /\ \A i \in 1..Len(Tail(o)) :
            i + 1 \in 1..Len(o) /\ Len(F) - Len(o) + (i + 1) = Len(F) - Len(Tail(o)) + i
  BY <1>m DEF a, b, t, l
<1>8. Head(o) = F[r + (Len(w) + 1)]
  <2>1. Len(F) - Len(o) + 1 = r + (Len(w) + 1) /\ 1 \in 1..Len(o)
    BY <1>3, <1>6, <1>b
  <2> QED
    BY <1>a, <1>6, <2>1
<1>9. ASSUME NEW i \in 1..Len(Append(w, Head(o))) PROVE Append(w, Head(o))[i] = F[r + i]
  <2>1. i \in 1..Len(w) \/ i = Len(w) + 1
    BY <1>3, <1>7
  <2> QED
    BY <1>a, <1>7, <1>8, <2>1
<1>10. ASSUME NEW i \in 1..Len(Tail(o)) PROVE Tail(o)[i] = F[Len(F) - Len(Tail(o)) + i]
  <2>1. i + 1 \in 1..Len(o) /\ Len(F) - Len(o) + (i + 1) = Len(F) - Len(Tail(o)) + i
    BY <1>b
  <2>2. Tail(o)[i] = o[i + 1] /\ o[i + 1] = F[Len(F) - Len(o) + (i + 1)]
    BY <1>a, <1>6, <2>1
  <2> QED
    BY <2>1, <2>2
<1> DEFINE w1 == wire'[d]
           o1 == out'[d]
<1>11. w1 = Append(w, Head(o)) /\ o1 = Tail(o)
  BY <1>4
<1> HIDE DEF w1, o1
<1>12. r + Len(w1) + Len(o1) = Len(F)
  BY <1>7, <1>11, <1>b
<1>13. r + Len(w1) + Len(o1) <= Len(F)
  BY <1>3, <1>12
<1>14. /\ \A i \in 1..Len(w1) : w1[i] = F[r + i]
       /\ \A i \in 1..Len(o1) : o1[i] = F[Len(F) - Len(o1) + i]
  BY <1>9, <1>10, <1>11
<1> QED
  BY <1>a, <1>12, <1>13, <1>14 DEF Flow, w1, o1

LEMMA FlowRead ==
    ASSUME TypeOK, NEW e \in Ends, NEW S, NEW F \in Seq(S), NEW r \in Nat, Flow(Peer(e), F, r),
           wire[Peer(e)] # <<>>, wire' = Consumed(e), out'[Peer(e)] = out[Peer(e)],
           Intact' => Intact
    PROVE  /\ Flow(Peer(e), F, r + 1)'
           /\ r \in Nat /\ r < Len(F) /\ Piece(e) = F[r + 1]
<1> DEFINE d == Peer(e)
           w == wire[d]
           o == out[d]
<1>1. d \in Ends /\ w # <<>> /\ wire' = [wire EXCEPT ![d] = Tail(@)] /\ out'[d] = o
  BY TwoEnds DEF Consumed
<1>2. w \in Seq(Pieces) /\ o \in Seq(Pieces) /\ Len(w) \in Nat /\ Len(o) \in Nat /\ Len(F) \in Nat
  BY <1>1 DEF TypeOK
<1>3. wire'[d] = Tail(w) /\ Piece(e) = Head(w)
  BY <1>1 DEF TypeOK, Piece
<1>4. /\ r \in 0..Len(F)
      /\ r + Len(w) + Len(o) <= Len(F)
      /\ Intact => r + Len(w) + Len(o) = Len(F)
      /\ \A i \in 1..Len(w) : w[i] = F[r + i]
      /\ \A i \in 1..Len(o) : o[i] = F[Len(F) - Len(o) + i]
  BY DEF Flow
<1> HIDE DEF w, o, d
<1>5. /\ Len(Tail(w)) = Len(w) - 1 /\ Len(w) > 0 /\ Head(w) = w[1]
      /\ \A i \in 1..Len(Tail(w)) : Tail(w)[i] = w[i + 1]
  BY <1>1, <1>2, HeadTailProperties
<1>6. Head(w) = F[r + 1] /\ r < Len(F)
  BY <1>2, <1>4, <1>5
<1>7. ASSUME NEW i \in 1..Len(Tail(w)) PROVE Tail(w)[i] = F[(r + 1) + i]
  <2>1. i + 1 \in 1..Len(w) /\ r + (i + 1) = (r + 1) + i
    BY <1>2, <1>4, <1>5
  <2>2. Tail(w)[i] = w[i + 1] /\ w[i + 1] = F[r + (i + 1)]
    BY <1>4, <1>5, <2>1
  <2> QED
    BY <2>1, <2>2
<1> DEFINE w1 == wire'[d]
           o1 == out'[d]
<1>8. w1 = Tail(w) /\ o1 = o
  BY <1>1, <1>3
<1> HIDE DEF w1, o1
<1>9. Len(w1) = Len(w) - 1
  BY <1>5, <1>8
<1> DEFINE a == Len(w)
           b == Len(o)
           c == Len(w1)
           l == Len(F)
<1>n. a \in Nat /\ b \in Nat /\ l \in Nat /\ c = a - 1 /\ a > 0 /\ r + a + b <= l
  BY <1>2, <1>4, <1>5, <1>9
<1>i. Intact' => r + a + b = l
  BY <1>4
<1> HIDE DEF a, b, c, l
<1>m. r + 1 \in 0..l /\ (r + 1) + c + b <= l /\ (Intact' => (r + 1) + c + b = l)
  BY <1>n, <1>i
<1>10. /\ r + 1 \in 0..Len(F)
       /\ (r + 1) + Len(w1) + Len(o1) <= Len(F)
       /\ Intact' => (r + 1) + Len(w1) + Len(o1) = Len(F)
  BY <1>m, <1>8 DEF a, b, c, l
<1>11. /\ \A i \in 1..Len(w1) : w1[i] = F[(r + 1) + i]
       /\ \A i \in 1..Len(o1) : o1[i] = F[Len(F) - Len(o1) + i]
  BY <1>4, <1>7, <1>8
<1>12. Flow(d, F, r + 1)'
  BY <1>10, <1>11 DEF Flow, w1, o1
<1> QED
  BY <1>3, <1>6, <1>12 DEF d

(***************************************************************************)
(* Nothing more is written once an end is closed or the connection broken, *)
(* and what arrives is the beginning of what was sent.                     *)
(***************************************************************************)
LEMMA FlowBroken ==
    ASSUME TypeOK, NEW d \in Ends, NEW S, NEW F \in Seq(S), NEW r \in Nat, Flow(d, F, r), ~Intact',
           NEW n \in 0..Len(wire[d]), wire'[d] = SubSeq(wire[d], 1, n),
           out'[d] \in {out[d], <<>>}
    PROVE  Flow(d, F, r)'
<1> DEFINE w == wire[d]
           o == out[d]
           w1 == wire'[d]
           o1 == out'[d]
<1>1. w \in Seq(Pieces) /\ o \in Seq(Pieces)
  BY DEF TypeOK
<1>2. /\ r \in 0..Len(F)
      /\ r + Len(w) + Len(o) <= Len(F)
      /\ Intact => r + Len(w) + Len(o) = Len(F)
      /\ \A i \in 1..Len(w) : w[i] = F[r + i]
      /\ \A i \in 1..Len(o) : o[i] = F[Len(F) - Len(o) + i]
  BY DEF Flow
<1>3. n \in 0..Len(w) /\ w1 = SubSeq(w, 1, n) /\ (o1 = o \/ o1 = <<>>)
  OBVIOUS
<1> HIDE DEF w, o, w1, o1
<1>4. Len(w) \in Nat /\ Len(o) \in Nat /\ Len(F) \in Nat
  BY <1>1
<1>5. Len(w1) = n /\ \A i \in 1..n : w1[i] = w[i]
  BY <1>1, <1>3, <1>4
<1>6. \A i \in 1..Len(w1) : w1[i] = F[r + i]
  BY <1>2, <1>3, <1>4, <1>5
<1>7. Len(o1) \in Nat /\ Len(o1) <= Len(o)
  BY <1>3, <1>4
<1> DEFINE a == Len(w)
           b == Len(o)
           c == Len(o1)
           l == Len(F)
<1>n. a \in Nat /\ b \in Nat /\ l \in Nat /\ c \in Nat /\ c <= b /\ r + a + b <= l /\ n \in 0..a
  BY <1>2, <1>3, <1>4, <1>7
<1> HIDE DEF a, b, c, l
<1>m. r + n + c <= l
  BY <1>n
<1>8. r + Len(w1) + Len(o1) <= Len(F)
  BY <1>5, <1>m DEF c, l
<1>9. \A i \in 1..Len(o1) : o1[i] = F[Len(F) - Len(o1) + i]
  <2>1. CASE o1 = o
    BY <1>2, <2>1
  <2>2. CASE o1 = <<>>
    <3>1. Len(o1) = 0
      BY <2>2
    <3> QED
      BY <3>1
  <2> QED
    BY <1>3, <2>1, <2>2
<1> QED
  BY <1>2, <1>6, <1>8, <1>9 DEF Flow, w1, o1

LEMMA FlowSend ==
    ASSUME TypeOK, NEW d \in Ends, NEW S, NEW F \in Seq(S), wire'[d] = <<>>, out'[d] = F
    PROVE  Flow(d, F, 0)'
<1>1. Len(wire'[d]) = 0
  OBVIOUS
<1> QED
  BY <1>1 DEF Flow

LEMMA FlowStill ==
    ASSUME NEW d \in Ends, NEW F, NEW r \in Nat, Flow(d, F, r), wire'[d] = wire[d], out'[d] = out[d],
           Intact' => Intact
    PROVE  Flow(d, F, r)'
  BY DEF Flow

LEMMA FlowEnds ==
    ASSUME TypeOK, NEW d \in Ends, NEW S, NEW F \in Seq(S), NEW r \in Nat, Flow(d, F, r)
    PROVE  /\ r = Len(F) => Idle(d)
           /\ Intact /\ Idle(d) => r = Len(F)
           /\ r <= Len(F)
<1> DEFINE w == wire[d]
           o == out[d]
<1>1. w \in Seq(Pieces) /\ o \in Seq(Pieces) /\ (Idle(d) <=> w = <<>> /\ o = <<>>)
  BY DEF TypeOK, Idle
<1>2. /\ r \in 0..Len(F)
      /\ r + Len(w) + Len(o) <= Len(F)
      /\ Intact => r + Len(w) + Len(o) = Len(F)
      /\ \A i \in 1..Len(w) : w[i] = F[r + i]
      /\ \A i \in 1..Len(o) : o[i] = F[Len(F) - Len(o) + i]
  BY DEF Flow
<1> HIDE DEF w, o
<1>3. Len(w) \in Nat /\ Len(o) \in Nat /\ Len(F) \in Nat
  BY <1>1
<1>4. Idle(d) <=> Len(w) = 0 /\ Len(o) = 0
  BY <1>1
<1> QED
  BY <1>2, <1>3, <1>4

LEMMA FlowHead ==
    ASSUME TypeOK, NEW e \in Ends, NEW S, NEW F \in Seq(S), NEW r \in Nat, Flow(Peer(e), F, r),
           wire[Peer(e)] # <<>>
    PROVE  r < Len(F) /\ Piece(e) = F[r + 1]
<1> DEFINE d == Peer(e)
           w == wire[d]
           o == out[d]
<1>1. w \in Seq(Pieces) /\ o \in Seq(Pieces) /\ w # <<>> /\ Piece(e) = Head(w)
  BY TwoEnds DEF TypeOK, Piece
<1>2. /\ r \in 0..Len(F)
      /\ r + Len(w) + Len(o) <= Len(F)
      /\ Intact => r + Len(w) + Len(o) = Len(F)
      /\ \A i \in 1..Len(w) : w[i] = F[r + i]
      /\ \A i \in 1..Len(o) : o[i] = F[Len(F) - Len(o) + i]
  BY DEF Flow
<1> HIDE DEF w, o
<1>3. Len(w) \in Nat /\ Len(o) \in Nat /\ Len(F) \in Nat /\ Len(w) > 0 /\ Head(w) = w[1]
  BY <1>1
<1>4. r < Len(F)
  BY <1>2, <1>3
<1>5. w[1] = F[r + 1]
  BY <1>2, <1>3
<1> QED
  BY <1>1, <1>3, <1>4, <1>5

(***************************************************************************)
(* What an end reads next of a frame, and that its counter is in step.     *)
(***************************************************************************)
LEMMA NextPiece ==
    ASSUME TypeOK, NEW e \in Ends, NEW u \in Payloads, NEW r \in Nat, Within(e, u, r),
           psk[Peer(e)] = psk[e], wire[Peer(e)] # <<>>
    PROVE  /\ r < Len(Sent(Peer(e), u))
           /\ psk[e] # NoPsk /\ r = 0 => Piece(e) = Head4(psk[e], rx[e], Len(u))
           /\ psk[e] # NoPsk /\ r > 0 =>
                 r <= Parts(u) /\ Piece(e) = Part(psk[e], rx[e], Chunk(u, r))
           /\ psk[e] = NoPsk /\ r = 0 => Piece(e) = Size(Len(u))
           /\ psk[e] = NoPsk /\ r > 0 =>
                 r = 1 /\ u # <<>> /\ Len(Sent(Peer(e), u)) = 2 /\ Piece(e) = Bytes(u)
<1> DEFINE d == Peer(e)
           F == Sent(d, u)
<1>1. d \in Ends /\ Flow(d, F, r) /\ (psk[e] # NoPsk => rx[e] + Len(F) = tx[d] + r)
  BY TwoEnds DEF Within
<1>2. Len(F) \in Nat /\ (psk[d] # NoPsk => Len(F) = 1 + Parts(u)) /\ \E S : F \in Seq(S)
  BY <1>1, SentShape
<1>3. r < Len(F) /\ Piece(e) = F[r + 1]
  BY <1>1, <1>2, FlowHead
<1>4. CASE psk[e] # NoPsk
  <2> DEFINE c == tx[d] - 1 - Parts(u)
  <2>1. Parts(u) \in Nat /\ tx[d] \in Nat /\ rx[e] \in Nat
    BY <1>1, PartsType DEF TypeOK
  <2>2. Len(F) = 1 + Parts(u) /\ F = NoiseFrame(psk[e], c, u) /\ c \in Int
    BY <1>2, <1>4, <2>1 DEF Sent
  <2>3. rx[e] = c + r
    BY <1>1, <1>4, <2>1, <2>2
  <2>4. r <= Parts(u)
    BY <1>3, <2>1, <2>2
  <2> HIDE DEF c, F
  <2>5. r = 0 => Piece(e) = Head4(psk[e], rx[e], Len(u))
    BY <1>3, <2>2, <2>3, NoiseShape
  <2>6. r > 0 => Piece(e) = Part(psk[e], rx[e], Chunk(u, r))
    <3>1. r > 0 => r \in 1..Parts(u)
      BY <2>1, <2>4
    <3> QED
      BY <1>3, <2>2, <2>3, <3>1, NoiseShape
  <2> QED
    BY <1>3, <1>4, <2>4, <2>5, <2>6 DEF F
<1>5. CASE psk[e] = NoPsk
  <2>1. F = PlainFrame(u)
    BY <1>5 DEF Sent
  <2> HIDE DEF F
  <2>2. r = 0 => Piece(e) = Size(Len(u))
    BY <1>3, <2>1, PlainShape
  <2>3. r > 0 => u # <<>> /\ Len(F) = 2
    BY <1>2, <1>3, <2>1, PlainShape
  <2>4. ASSUME r > 0 PROVE r = 1
    <3>1. r < 2
      BY <1>3, <2>3, <2>4
    <3> QED
      BY <2>4, <3>1
  <2>5. r > 0 => Piece(e) = Bytes(u)
    BY <1>3, <2>1, <2>3, <2>4, PlainShape
  <2> QED
    BY <1>3, <1>5, <2>2, <2>3, <2>4, <2>5 DEF F
<1> QED
  BY <1>4, <1>5

(***************************************************************************)
(* The reader has taken one more piece of the frame, and has the payload   *)
(* as soon as that was the last one.                                       *)
(***************************************************************************)
Took(e, u, r) ==
    /\ wire' = Consumed(e)
    /\ UNCHANGED <<psk, secure, out, tx, why, hung, cut, asked, answered>>
    /\ \A d \in Ends \ {e} :
          pc'[d] = pc[d] /\ need'[d] = need[d] /\ acc'[d] = acc[d] /\ rx'[d] = rx[d]
    /\ Within(e, u, r + 1)'
    /\ IF r + 1 = Len(Sent(Peer(e), u))
       THEN /\ pc'[e] = IF e = "client" THEN "ask" ELSE "respond"
            /\ e = "server" => acc'[e] = u
            /\ got' = IF e = "client" THEN Append(got, u) ELSE got
       ELSE pc'[e] = "body" /\ got' = got

LEMMA StillOpen ==
    ASSUME cut' = cut, NEW e \in Ends, pc[e] # "closed", pc'[Peer(e)] = pc[Peer(e)]
    PROVE  Intact' => Intact
  BY TwoEnds DEF Intact, Open

LEMMA WithinNext ==
    ASSUME TypeOK, NEW e \in Ends, NEW u \in Payloads, NEW r \in Nat, Within(e, u, r),
           pc[e] # "closed", wire[Peer(e)] # <<>>,
           wire' = Consumed(e), UNCHANGED <<psk, out, tx, cut>>, pc'[Peer(e)] = pc[Peer(e)],
           psk[e] # NoPsk => rx'[e] = rx[e] + 1,
           pc'[e] = "body" <=> r + 1 < Len(Sent(Peer(e), u)),
           pc'[e] = "body" => need'[e] = Len(u) /\ (psk[e] # NoPsk => acc'[e] = Upto(u, r))
    PROVE  Within(e, u, r + 1)'
<1> DEFINE d == Peer(e)
<1>0. d \in Ends
  BY TwoEnds
<1>1. PICK S, F : F = Sent(d, u) /\ F \in Seq(S)
  BY <1>0, SentShape
<1>2. Flow(d, F, r) /\ (psk[e] # NoPsk => rx[e] + Len(F) = tx[d] + r)
  BY <1>1 DEF Within
<1>3. Sent(d, u)' = F
  BY <1>1 DEF Sent
<1>4. Intact' => Intact
  BY StillOpen
<1>5. Flow(d, F, r + 1)'
  BY <1>1, <1>2, <1>4, FlowRead
<1>6. tx[d] \in Nat /\ rx[e] \in Nat /\ (r + 1) - 1 = r /\ r + 1 > 0 /\ Len(F) \in Nat
  BY <1>0, <1>1 DEF TypeOK
<1>7. psk'[e] = psk[e] /\ tx'[d] = tx[d]
  OBVIOUS
<1> HIDE DEF d
<1>8. psk[e] # NoPsk => rx'[e] + Len(F) = tx[d] + (r + 1)
  <2> DEFINE l == Len(F)
             x == rx[e]
             y == tx[d]
  <2>1. l \in Nat /\ x \in Nat /\ y \in Nat /\ (psk[e] # NoPsk => x + l = y + r /\ rx'[e] = x + 1)
    BY <1>2, <1>6
  <2> HIDE DEF l, x, y
  <2>2. psk[e] # NoPsk => rx'[e] + l = y + (r + 1)
    BY <2>1
  <2> QED
    BY <2>2 DEF l, y
<1>9. pc'[e] = "body" <=> r + 1 > 0 /\ r + 1 < Len(F)
  BY <1>1, <1>6 DEF d
<1> QED
  BY <1>3, <1>5, <1>6, <1>7, <1>8, <1>9 DEF Within, d

LEMMA TookHead ==
    ASSUME CInv, NEW e \in Ends, NEW u \in Payloads, NEW r \in Nat, Within(e, u, r),
           psk[Peer(e)] = psk[e], e = "server" => u # <<>>, ReadHead(e)
    PROVE  Close(e, "oversize") \/ Took(e, u, r)
<1> DEFINE m == Piece(e)
           F == Sent(Peer(e), u)
           ok == IF secure[e] THEN m.t = "head" /\ Decrypts(e) ELSE m.t = "size"
<1>1. /\ TypeOK /\ pc[e] = "head" /\ wire[Peer(e)] # <<>> /\ Peer(e) \in Ends
      /\ (secure[e] <=> psk[e] # NoPsk)
  BY TwoEnds DEF ReadHead, Arrived, CInv, Stage
<1>2. r < Len(F) /\ r = 0
  BY <1>1, NextPiece DEF Within
<1>3. ok /\ m.n = Len(u)
  <2>1. CASE psk[e] # NoPsk
    <3>1. m = Head4(psk[e], rx[e], Len(u))
      BY <1>1, <1>2, <2>1, NextPiece
    <3>2. m.t = "head" /\ m.k = psk[e] /\ m.c = rx[e] /\ m.n = Len(u)
      BY <3>1 DEF Head4
    <3> QED
      BY <1>1, <2>1, <3>2 DEF Decrypts
  <2>2. CASE psk[e] = NoPsk
    <3>1. m = Size(Len(u))
      BY <1>1, <1>2, <2>2, NextPiece
    <3>2. m.t = "size" /\ m.n = Len(u)
      BY <3>1 DEF Size
    <3> QED
      BY <1>1, <2>2, <3>2
  <2> QED
    BY <2>1, <2>2
<1>4. Len(u) \in Nat /\ (Len(u) = 0 <=> u = <<>>) /\ (Len(u) > 0 <=> u # <<>>)
  BY DEF Payloads
<1>5. u = <<>> <=> Len(F) = 1
  <2>1. CASE psk[e] = NoPsk
    BY <1>1, <2>1, PlainShape DEF Sent
  <2>2. CASE psk[e] # NoPsk
    <3>1. Len(F) = 1 + Parts(u) /\ Parts(u) \in Nat
      BY <1>1, <2>2, SentShape, PartsType
    <3>2. 0 * MsgCap < Len(u) <=> 0 < Parts(u)
      BY PartsCover
    <3>3. 0 * MsgCap = 0
      BY SizesAssumption
    <3> HIDE DEF F
    <3> QED
      BY <1>4, <3>1, <3>2, <3>3
  <2> QED
    BY <2>1, <2>2
<1>6. Len(F) \in Nat
  BY <1>1, SentShape
<1> HIDE DEF F, ok
<1>7. CASE u = <<>>
  <2>1. e = "client" /\ r + 1 = Len(F)
    BY <1>2, <1>5, <1>7, TwoEnds
  <2>2. Close(e, "oversize") \/ (Deliver(e, <<>>) /\ rx' = [rx EXCEPT ![e] = IF secure[e] THEN @ + 1 ELSE @])
    BY <1>3, <1>4, <1>7, <2>1 DEF ReadHead, ok
  <2>3. CASE Deliver(e, <<>>) /\ rx' = [rx EXCEPT ![e] = IF secure[e] THEN @ + 1 ELSE @]
    <3>1. /\ wire' = Consumed(e) /\ need' = [need EXCEPT ![e] = 0]
          /\ acc' = [acc EXCEPT ![e] = <<>>] /\ got' = Append(got, u)
          /\ pc' = [pc EXCEPT ![e] = "ask"]
          /\ UNCHANGED <<psk, secure, out, tx, why, hung, cut, asked, answered>>
      BY <1>7, <2>1, <2>3 DEF Deliver, Goto
    <3>2. /\ pc'[e] = "ask" /\ (psk[e] # NoPsk => rx'[e] = rx[e] + 1)
          /\ \A d \in Ends \ {e} :
                pc'[d] = pc[d] /\ need'[d] = need[d] /\ acc'[d] = acc[d] /\ rx'[d] = rx[d]
      BY <1>1, <2>3, <3>1 DEF TypeOK
    <3>3. ~(r + 1 < Len(F))
      BY <1>6, <2>1
    <3>4. Within(e, u, r + 1)'
      BY <1>1, <3>1, <3>2, <3>3, WithinNext, TwoEnds DEF F
    <3> QED
      BY <2>1, <3>1, <3>2, <3>4 DEF Took, F
  <2> QED
    BY <2>2, <2>3
<1>8. CASE u # <<>>
  <2>1. r + 1 < Len(F)
    <3> DEFINE l == Len(F)
    <3>1. l # 1 /\ l \in Nat /\ 0 < l
      BY <1>2, <1>5, <1>6, <1>8
    <3> HIDE DEF l
    <3>2. 0 + 1 < l
      BY <3>1
    <3> QED
      BY <1>2, <3>2 DEF l
  <2>2. \/ Close(e, "oversize")
        \/ /\ rx' = [rx EXCEPT ![e] = IF secure[e] THEN @ + 1 ELSE @]
           /\ need' = [need EXCEPT ![e] = m.n] /\ acc' = [acc EXCEPT ![e] = <<>>]
           /\ pc' = [pc EXCEPT ![e] = "body"] /\ wire' = Consumed(e)
           /\ UNCHANGED <<psk, secure, out, tx, why, hung, cut, asked, answered, got>>
    BY <1>3, <1>4, <1>8 DEF ReadHead, ok, Goto, rpcVars
  <2>3. CASE /\ rx' = [rx EXCEPT ![e] = IF secure[e] THEN @ + 1 ELSE @]
             /\ need' = [need EXCEPT ![e] = m.n] /\ acc' = [acc EXCEPT ![e] = <<>>]
             /\ pc' = [pc EXCEPT ![e] = "body"] /\ wire' = Consumed(e)
             /\ UNCHANGED <<psk, secure, out, tx, why, hung, cut, asked, answered, got>>
    <3>1. /\ pc'[e] = "body" /\ (psk[e] # NoPsk => rx'[e] = rx[e] + 1)
          /\ need'[e] = Len(u) /\ acc'[e] = <<>>
          /\ \A d \in Ends \ {e} :
                pc'[d] = pc[d] /\ need'[d] = need[d] /\ acc'[d] = acc[d] /\ rx'[d] = rx[d]
      BY <1>1, <1>3, <2>3 DEF TypeOK
    <3>2. acc'[e] = Upto(u, r)
      BY <1>2, <3>1, UptoLen
    <3>3. Within(e, u, r + 1)'
      BY <1>1, <2>1, <2>3, <3>1, <3>2, WithinNext, TwoEnds DEF F
    <3>4. r + 1 # Len(F)
      BY <1>6, <2>1
    <3> QED
      BY <2>3, <3>1, <3>3, <3>4 DEF Took, F
  <2> QED
    BY <2>2, <2>3
<1> QED
  BY <1>7, <1>8

LEMMA TookLast ==
    ASSUME TypeOK, NEW e \in Ends, NEW u \in Payloads, NEW r \in Nat, Within(e, u, r),
           pc[e] # "closed", wire[Peer(e)] # <<>>, r + 1 = Len(Sent(Peer(e), u)),
           \A d \in Ends \ {e} : rx'[d] = rx[d], psk[e] # NoPsk => rx'[e] = rx[e] + 1,
           Deliver(e, u)
    PROVE  Took(e, u, r)
<1>1. /\ wire' = Consumed(e) /\ need' = [need EXCEPT ![e] = 0]
      /\ acc' = [acc EXCEPT ![e] = IF e = "client" THEN <<>> ELSE u]
      /\ got' = IF e = "client" THEN Append(got, u) ELSE got
      /\ pc' = [pc EXCEPT ![e] = IF e = "client" THEN "ask" ELSE "respond"]
      /\ UNCHANGED <<psk, secure, out, tx, why, hung, cut, asked, answered>>
  BY DEF Deliver, Goto
<1>2. /\ pc'[e] = IF e = "client" THEN "ask" ELSE "respond"
      /\ e = "server" => acc'[e] = u
      /\ \A d \in Ends \ {e} : pc'[d] = pc[d] /\ need'[d] = need[d] /\ acc'[d] = acc[d]
  BY <1>1 DEF TypeOK
<1>3. ~(r + 1 < Len(Sent(Peer(e), u))) /\ pc'[e] # "body" /\ pc'[Peer(e)] = pc[Peer(e)]
  BY <1>2, TwoEnds
<1>4. Within(e, u, r + 1)'
  BY <1>1, <1>3, WithinNext
<1> QED
  BY <1>1, <1>2, <1>4 DEF Took

LEMMA TookPlain ==
    ASSUME CInv, NEW e \in Ends, NEW u \in Payloads, NEW r \in Nat, Within(e, u, r),
           psk[Peer(e)] = psk[e], ReadPlain(e)
    PROVE  Took(e, u, r)
<1>1. /\ TypeOK /\ pc[e] = "body" /\ wire[Peer(e)] # <<>> /\ psk[e] = NoPsk /\ rx' = rx
      /\ Deliver(e, Piece(e).u)
  BY DEF ReadPlain, Arrived, CInv, Stage
<1>2. r > 0
  BY <1>1 DEF Within
<1>3. r = 1 /\ Len(Sent(Peer(e), u)) = 2 /\ Piece(e) = Bytes(u)
  BY <1>1, <1>2, NextPiece
<1>4. Piece(e).u = u /\ r + 1 = Len(Sent(Peer(e), u))
  BY <1>3 DEF Bytes
<1> QED
  BY <1>1, <1>4, TookLast

(***************************************************************************)
(* The loop of SecureStream::read_frame ends with the last message of the  *)
(* frame, and has the payload then.                                        *)
(***************************************************************************)
LEMMA TookPart ==
    ASSUME CInv, NEW e \in Ends, NEW u \in Payloads, NEW r \in Nat, Within(e, u, r),
           psk[Peer(e)] = psk[e], ReadPart(e)
    PROVE  Took(e, u, r)
<1> DEFINE m == Piece(e)
           v == acc[e] \o m.u
           F == Sent(Peer(e), u)
           ok == /\ m.t = "part" /\ Decrypts(e)
                 /\ Len(m.u) > 0 /\ Len(acc[e]) + Len(m.u) <= need[e]
<1>1. /\ TypeOK /\ pc[e] = "body" /\ wire[Peer(e)] # <<>> /\ psk[e] # NoPsk /\ Peer(e) \in Ends
  BY TwoEnds DEF ReadPart, Arrived, CInv, Stage
<1>2. r > 0 /\ r < Len(F) /\ need[e] = Len(u) /\ acc[e] = Upto(u, r - 1)
  BY <1>1 DEF Within
<1>3. r <= Parts(u) /\ m = Part(psk[e], rx[e], Chunk(u, r)) /\ Parts(u) \in Nat
  BY <1>1, <1>2, NextPiece, PartsType
<1>4. m.t = "part" /\ m.k = psk[e] /\ m.c = rx[e] /\ m.u = Chunk(u, r)
  BY <1>3 DEF Part
<1>5. r - 1 \in Nat /\ r - 1 < Parts(u) /\ (r - 1) + 1 = r
  BY <1>2, <1>3
<1>6. v = Upto(u, r)
  BY <1>2, <1>4, <1>5, UptoNext
<1>7. Chunk(u, r) \in Payloads /\ acc[e] \in Payloads
  BY <1>1, <1>2, ChunkType DEF TypeOK
<1>8. Len(v) = Len(acc[e]) + Len(m.u)
  <2> DEFINE x == acc[e]
             y == Chunk(u, r)
  <2>1. x \in Seq(Units) /\ y \in Seq(Units)
    BY <1>7 DEF Payloads
  <2> HIDE DEF x, y
  <2>2. Len(x \o y) = Len(x) + Len(y)
    BY <2>1, ConcatProperties
  <2> QED
    BY <1>4, <2>2 DEF x, y
<1>9. Len(Upto(u, r)) <= Len(u)
  BY UptoLen
<1>a. Len(m.u) > 0
  <2> DEFINE a == Len(u)
             b == Len(Upto(u, r))
             c == Len(Upto(u, r - 1))
             d == Len(m.u)
             p == Parts(u)
             x == (r - 1) * MsgCap
             y == r * MsgCap
  <2>1. b = c + d
    BY <1>2, <1>6, <1>8
  <2>2. c = x /\ b = IF r < p THEN y ELSE a
    BY <1>5, UptoLen
  <2>3. x < a
    BY <1>5, PartsCover
  <2>4. MsgCap \in Nat /\ MsgCap > 0
    BY SizesAssumption
  <2>5. y = x + MsgCap /\ x \in Nat /\ y \in Nat
    BY <1>5, <2>4
  <2>6. d \in Nat /\ a \in Nat
    BY <1>4, <1>7 DEF Payloads
  <2> HIDE DEF a, b, c, d, p, x, y
  <2>7. d > 0
    BY <2>1, <2>2, <2>3, <2>4, <2>5, <2>6
  <2> QED
    BY <2>7 DEF d
<1>10. ok
  BY <1>2, <1>4, <1>6, <1>8, <1>9, <1>a DEF Decrypts
<1>11. Len(F) = 1 + Parts(u)
  BY <1>1, SentShape
<1>12. Enough(e, v) <=> r + 1 = Len(F)
  <2> DEFINE a == Len(u)
             b == Len(Upto(u, r))
             p == Parts(u)
  <2>1. a \in Nat /\ p \in Nat /\ r <= p /\ b = (IF r < p THEN r * MsgCap ELSE a)
    BY <1>3, UptoLen DEF Payloads
  <2>2. r * MsgCap < a <=> r < p
    BY PartsCover
  <2>3. r * MsgCap \in Nat
    BY SizesAssumption
  <2> HIDE DEF a, b, p
  <2>4. b >= a <=> r = p
    BY <2>1, <2>2, <2>3
  <2>5. Enough(e, v) <=> b >= a
    BY <1>2, <1>6 DEF Enough, a, b
  <2>6. r + 1 = 1 + p <=> r = p
    BY <2>1
  <2> QED
    BY <1>11, <2>4, <2>5, <2>6 DEF p
<1> HIDE DEF ok, F, m, v
<1>13. /\ rx' = [rx EXCEPT ![e] = @ + 1]
       /\ \/ /\ ~Enough(e, v) /\ acc' = [acc EXCEPT ![e] = v] /\ wire' = Consumed(e)
             /\ UNCHANGED <<psk, secure, pc, out, tx, need, why, hung, cut, asked, answered, got>>
          \/ Enough(e, v) /\ Deliver(e, v)
  BY <1>10 DEF ReadPart, ok, m, v, rpcVars
<1>14. rx'[e] = rx[e] + 1 /\ \A d \in Ends \ {e} : rx'[d] = rx[d]
  BY <1>1, <1>13 DEF TypeOK
<1>15. CASE Enough(e, v)
  <2>1. v = u
    <3>1. r + 1 = 1 + Parts(u)
      BY <1>11, <1>12, <1>15
    <3>2. r >= Parts(u)
      BY <1>3, <3>1
    <3> QED
      BY <1>6, <3>2, UptoLen
  <2> QED
    BY <1>1, <1>12, <1>13, <1>14, <1>15, <2>1, TookLast DEF F
<1>16. CASE ~Enough(e, v)
  <2>1. /\ acc' = [acc EXCEPT ![e] = v] /\ wire' = Consumed(e)
        /\ UNCHANGED <<psk, secure, pc, out, tx, need, why, hung, cut, asked, answered, got>>
    BY <1>13, <1>16
  <2>2. acc'[e] = Upto(u, r) /\ \A d \in Ends \ {e} : acc'[d] = acc[d]
    BY <1>1, <1>6, <2>1 DEF TypeOK
  <2>3. r + 1 < Len(F)
    <3> DEFINE l == Len(F)
    <3>1. l = 1 + Parts(u) /\ r + 1 # l
      BY <1>11, <1>12, <1>16
    <3> HIDE DEF l
    <3>2. r + 1 < l
      BY <1>3, <3>1
    <3> QED
      BY <3>2 DEF l
  <2>4. Within(e, u, r + 1)'
    BY <1>1, <1>2, <1>14, <2>1, <2>2, <2>3, WithinNext DEF F
  <2> QED
    BY <1>1, <1>12, <1>14, <1>16, <2>1, <2>2, <2>4 DEF Took, F
<1> QED
  BY <1>15, <1>16

LEMMA FrameRead ==
    ASSUME CInv, NEW e \in Ends, NEW u \in Payloads, NEW r \in Nat, Within(e, u, r),
           psk[Peer(e)] = psk[e], e = "server" => u # <<>>,
           ReadHead(e) \/ ReadPlain(e) \/ ReadPart(e)
    PROVE  Close(e, "oversize") \/ Took(e, u, r)
  BY TookHead, TookPlain, TookPart

-----------------------------------------------------------------------------
(* A step that leaves what end d has in flight as it is, or lets more of   *)
(* it arrive on the stream or get lost.                                    *)

Kept(d) ==
    /\ \A S : \A F \in Seq(S), r \in Nat : Flow(d, F, r) => Flow(d, F, r)'
    /\ Idle(d) => Idle(d)'

LEMMA KeptStill ==
    ASSUME NEW d \in Ends, wire'[d] = wire[d], out'[d] = out[d], Intact' => Intact
    PROVE  Kept(d)
  BY FlowStill DEF Kept, Idle

LEMMA KeptFlush ==
    ASSUME TypeOK, NEW e \in Ends, Flush(e)
    PROVE  \A d \in Ends : Kept(d)
<1>1. /\ out[e] # <<>> /\ wire' = [wire EXCEPT ![e] = Append(@, Head(out[e]))]
      /\ out' = [out EXCEPT ![e] = Tail(@)] /\ UNCHANGED <<cut, pc>>
  BY DEF Flush
<1>2. Kept(e)
  BY <1>1, FlowFlush DEF Kept, Idle
<1>3. ASSUME NEW d \in Ends, d # e PROVE Kept(d)
  <2>1. wire'[d] = wire[d] /\ out'[d] = out[d]
    BY <1>1, <1>3 DEF TypeOK
  <2>2. Intact' => Intact
    BY <1>1 DEF Intact, Open
  <2> QED
    BY <2>1, <2>2, KeptStill
<1> QED
  BY <1>2, <1>3

LEMMA KeptBroken ==
    ASSUME TypeOK, ~Intact', NEW d \in Ends, NEW n \in 0..Len(wire[d]),
           wire'[d] = SubSeq(wire[d], 1, n), out'[d] \in {out[d], <<>>}
    PROVE  Kept(d)
<1>1. wire[d] \in Seq(Pieces)
  BY DEF TypeOK
<1>2. Idle(d) => Idle(d)'
  <2> SUFFICES ASSUME wire[d] = <<>>, out[d] = <<>> PROVE wire'[d] = <<>> /\ out'[d] = <<>>
    BY DEF Idle
  <2>1. Len(wire[d]) = 0
    OBVIOUS
  <2>2. n = 0
    BY <2>1
  <2>3. wire'[d] = SubSeq(wire[d], 1, 0)
    BY <2>2
  <2> QED
    BY <2>3
<1> QED
  BY <1>2, FlowBroken DEF Kept

LEMMA KeptClose ==
    ASSUME TypeOK, NEW e \in Ends, NEW reason, Close(e, reason)
    PROVE  ~Intact' /\ \A d \in Ends : Kept(d)
<1>1. /\ pc' = [pc EXCEPT ![e] = "closed"] /\ out' = [out EXCEPT ![e] = <<>>]
      /\ wire' = [wire EXCEPT ![Peer(e)] = <<>>]
  BY DEF Close, Goto
<1>2. ~Intact'
  BY <1>1, TwoEnds DEF Intact, Open, TypeOK
<1>3. ASSUME NEW d \in Ends PROVE Kept(d)
  <2>1. wire[d] \in Seq(Pieces)
    BY DEF TypeOK
  <2>2. out'[d] \in {out[d], <<>>} /\ wire'[d] \in {wire[d], <<>>}
    BY <1>1, TwoEnds DEF TypeOK
  <2>3. \E n \in 0..Len(wire[d]) : wire'[d] = SubSeq(wire[d], 1, n)
    <3> DEFINE w == wire[d]
               w1 == wire'[d]
    <3>1. w \in Seq(Pieces) /\ w1 \in {w, <<>>}
      BY <2>1, <2>2
    <3> HIDE DEF w, w1
    <3>2. SubSeq(w, 1, Len(w)) = w /\ SubSeq(w, 1, 0) = <<>> /\ Len(w) \in Nat
      BY <3>1
    <3>3. 0 \in 0..Len(w) /\ Len(w) \in 0..Len(w)
      BY <3>2
    <3>4. \E n \in 0..Len(w) : w1 = SubSeq(w, 1, n)
      BY <3>1, <3>2, <3>3
    <3> QED
      BY <3>4 DEF w, w1
  <2> QED
    BY <1>2, <2>2, <2>3, KeptBroken
<1> QED
  BY <1>2, <1>3

LEMMA KeptBreak ==
    ASSUME TypeOK, Break
    PROVE  ~Intact' /\ \A d \in Ends : Kept(d)
<1>1. PICK n \in 0..Len(wire["client"]), m \in 0..Len(wire["server"]) :
         wire' = [e \in Ends |-> SubSeq(wire[e], 1, IF e = "client" THEN n ELSE m)]
  BY DEF Break
<1>2. cut' = TRUE /\ out' = out
  BY DEF Break
<1>3. ~Intact'
  BY <1>2 DEF Intact
<1>4. ASSUME NEW d \in Ends PROVE Kept(d)
  <2>1. \E i \in 0..Len(wire[d]) : wire'[d] = SubSeq(wire[d], 1, i)
    BY <1>1, TwoEnds
  <2>2. out'[d] \in {out[d], <<>>}
    BY <1>2
  <2> QED
    BY <1>3, <2>1, <2>2, KeptBroken
<1> QED
  BY <1>3, <1>4

LEMMA BrokenIdle ==
    ASSUME NEW d \in Ends, Idle(d)', ~Intact', NEW S, NEW F \in Seq(S)
    PROVE  Flow(d, F, 0)'
<1>1. Len(wire'[d]) = 0 /\ Len(out'[d]) = 0
  BY DEF Idle
<1>2. Len(F) \in Nat
  OBVIOUS
<1>3. 0 + 0 + 0 <= Len(F) /\ 0 \in 0..Len(F)
  BY <1>2
<1> QED
  BY <1>1, <1>3 DEF Flow

(***************************************************************************)
(* What is under way between the ends stays so.                            *)
(***************************************************************************)
LEMMA RequestPayload ==
    ASSUME TypeOK, asked > 0, NEW n \in ReqSizes
    PROVE  /\ Request(asked, n) \in Payloads /\ Request(asked, n) # <<>>
           /\ Request(asked, n)[1][2] = asked
<1>1. n \in Nat /\ n > 0 /\ asked \in Nat
  BY SizesAssumption DEF TypeOK
<1>2. \A j \in 1..n : <<"ask", asked, j>> \in Units
  BY <1>1 DEF Units
<1>3. Request(asked, n) \in Payloads
  BY <1>1, <1>2 DEF Request, Payloads
<1>4. Request(asked, n)[1] = <<"ask", asked, 1>> /\ Len(Request(asked, n)) = n
  BY <1>1 DEF Request
<1>5. Request(asked, n) # <<>>
  BY <1>1, <1>4
<1> QED
  BY <1>3, <1>4, <1>5

LEMMA WithinKept ==
    ASSUME TypeOK, NEW e \in Ends, NEW u \in Payloads, NEW r \in Nat, Within(e, u, r),
           Kept(Peer(e)), psk' = psk, tx'[Peer(e)] = tx[Peer(e)],
           rx'[e] = rx[e], pc'[e] = "body" => need'[e] = need[e] /\ acc'[e] = acc[e],
           pc'[e] = pc[e] \/ (pc[e] # "body" /\ pc'[e] # "body")
    PROVE  Within(e, u, r)' /\ Sent(Peer(e), u)' = Sent(Peer(e), u)
<1>1. PICK S, F : F = Sent(Peer(e), u) /\ F \in Seq(S)
  BY SentShape, TwoEnds
<1>2. Sent(Peer(e), u)' = F
  BY <1>1 DEF Sent
<1>3. Flow(Peer(e), F, r)'
  BY <1>1 DEF Within, Kept
<1> QED
  BY <1>1, <1>2, <1>3 DEF Within

LEMMA ToServerKept ==
    ASSUME TypeOK, ToServer, Kept("client"), UNCHANGED <<psk, asked, answered>>,
           tx'["client"] = tx["client"], rx'["server"] = rx["server"],
           need'["server"] = need["server"], acc'["server"] = acc["server"],
           pc'["server"] = pc["server"],
           pc'["client"] = "hello" => pc["client"] = "hello",
           pc["client"] = "hello" => pc'["client"] = "hello" \/ ~Intact'
    PROVE  ToServer'
<1>1. CASE asked > 0
  <2>1. PICK n \in ReqSizes, r \in Nat : Requested(Request(asked, n), r)
    BY <1>1 DEF ToServer
  <2>2. PICK u : u = Request(asked, n)
    OBVIOUS
  <2>3. u \in Payloads /\ "server" \in Ends
    BY <1>1, <2>2, RequestPayload, TwoEnds
  <2>4. Within("server", u, r)' /\ Sent("client", u)' = Sent("client", u)
    BY <2>1, <2>2, <2>3, WithinKept, TwoEnds DEF Requested
  <2>5. Requested(u, r)'
    BY <2>1, <2>2, <2>4 DEF Requested
  <2>6. u = Request(asked', n)
    BY <2>2
  <2> QED
    BY <1>1, <2>5, <2>6 DEF ToServer
<1>2. CASE ~(asked > 0)
  <2>1. /\ asked = 0 /\ answered = <<>> /\ tx["client"] = 0 /\ rx["server"] = 0
        /\ Silent \/ Greeting
    BY <1>2 DEF ToServer
  <2>2. PICK H : H = Hello
    OBVIOUS
  <2>3. Hello' = H /\ H \in Seq({Selector, Mode, Hs(psk["client"])})
    BY <2>2 DEF Hello
  <2>4. CASE Greeting /\ pc'["client"] # "hello"
    <3>1. PICK r \in 0..3 : /\ Flow("client", Hello, r)
                            /\ pc["server"] = <<"sniff", "mode", "hs", "head">>[r + 1]
      BY <2>4 DEF Greeting
    <3>2. Flow("client", H, r)'
      BY <2>2, <2>3, <3>1 DEF Kept
    <3>3. Greeting'
      BY <2>3, <2>4, <3>1, <3>2 DEF Greeting
    <3> QED
      BY <2>1, <3>3 DEF ToServer
  <2>5. CASE Silent /\ (psk["client"] = NoPsk \/ pc'["client"] = "hello")
    <3>1. Silent'
      BY <2>5 DEF Silent, Kept
    <3> QED
      BY <2>1, <3>1 DEF ToServer
  <2>6. CASE Silent /\ psk["client"] # NoPsk /\ pc'["client"] # "hello"
    <3>1. ~Intact' /\ Idle("client")' /\ "client" \in Ends
      BY <2>6, TwoEnds DEF Silent, Kept
    <3>2. Flow("client", H, 0)'
      BY <2>3, <3>1, BrokenIdle
    <3>3. <<"sniff", "mode", "hs", "head">>[0 + 1] = "sniff" /\ 0 \in 0..3
      OBVIOUS
    <3>4. Greeting'
      BY <2>3, <2>6, <3>2, <3>3 DEF Greeting, Silent
    <3> QED
      BY <2>1, <3>4 DEF ToServer
  <2>7. CASE Greeting /\ pc'["client"] = "hello"
    BY <2>7 DEF Greeting
  <2> QED
    BY <2>1, <2>4, <2>5, <2>6, <2>7
<1> QED
  BY <1>1, <1>2

LEMMA AnswerPayload ==
    ASSUME TypeOK, answered # <<>>
    PROVE  answered[Len(answered)] \in Payloads
  BY DEF TypeOK

Greets == {"sniff", "mode", "hs"}

LEMMA ToClientKept ==
    ASSUME TypeOK, ToClient, Kept("server"), UNCHANGED <<psk, answered, got>>,
           tx'["server"] = tx["server"], rx'["client"] = rx["client"],
           need'["client"] = need["client"], acc'["client"] = acc["client"],
           pc'["client"] = pc["client"],
           pc["server"] \notin Greets => pc'["server"] \notin Greets,
           pc["server"] \in Greets =>
               pc'["server"] \in Greets \/ ~Intact' \/ pc["client"] # "hs"
    PROVE  ToClient'
<1>1. CASE answered # <<>>
  <2>1. PICK r \in Nat : Replied(r)
    BY <1>1 DEF ToClient
  <2>2. PICK u : u = answered[Len(answered)]
    OBVIOUS
  <2>3. u \in Payloads /\ "client" \in Ends
    BY <1>1, <2>2, AnswerPayload, TwoEnds
  <2>4. Within("client", u, r)' /\ Sent("server", u)' = Sent("server", u)
    BY <2>1, <2>2, <2>3, WithinKept, TwoEnds DEF Replied
  <2>5. u = answered'[Len(answered')]
    BY <2>2
  <2>6. Replied(r)'
    BY <2>1, <2>2, <2>4, <2>5 DEF Replied
  <2> QED
    BY <1>1, <2>6 DEF ToClient
<1>2. CASE answered = <<>>
  <2>1. /\ got = <<>> /\ pc["client"] # "body" /\ tx["server"] = 0 /\ rx["client"] = 0
        /\ IF pc["client"] = "hs" /\ pc["server"] \notin Greets
           THEN Flow("server", Welcome, 0) ELSE Idle("server")
    BY <1>2 DEF ToClient, Greets
  <2>2. PICK W : W = Welcome
    OBVIOUS
  <2>3. Welcome' = W /\ W \in Seq({Hs(psk["server"])})
    BY <2>2 DEF Welcome
  <2>4. CASE pc["client"] = "hs" /\ pc'["server"] \notin Greets
    <3>1. Flow("server", W, 0)'
      <4>1. CASE pc["server"] \notin Greets
        BY <2>1, <2>2, <2>3, <2>4, <4>1 DEF Kept
      <4>2. CASE pc["server"] \in Greets
        <5>1. ~Intact' /\ Idle("server")' /\ "server" \in Ends
          BY <2>1, <2>4, <4>2, TwoEnds DEF Kept
        <5> QED
          BY <2>3, <5>1, BrokenIdle
      <4> QED
        BY <4>1, <4>2
    <3> QED
      BY <1>2, <2>1, <2>3, <2>4, <3>1 DEF ToClient, Greets
  <2>5. CASE ~(pc["client"] = "hs" /\ pc'["server"] \notin Greets)
    <3>1. Idle("server")'
      BY <2>1, <2>5 DEF Kept
    <3> QED
      BY <1>2, <2>1, <2>5, <3>1 DEF ToClient, Greets
  <2> QED
    BY <2>4, <2>5
<1> QED
  BY <1>1, <1>2

-----------------------------------------------------------------------------
(* The steps keep the session in step.                                     *)

LEMMA InitSession == Init => SessionInv
<1> SUFFICES ASSUME Init PROVE SessionInv
  OBVIOUS
<1>1. Counts
  BY DEF Init, Counts, Ends
<1>2. Silent
  BY DEF Init, Silent, Idle, Ends
<1>3. ToServer
  BY <1>2 DEF Init, ToServer, Ends
<1>4. ToClient
  BY DEF Init, ToClient, Idle, Ends
<1>5. Causes
  BY DEF Init, Causes, Open, FailsForCause, Ends
<1> QED
  BY <1>1, <1>3, <1>4, <1>5 DEF SessionInv, InStep

LEMMA CausesKept ==
    ASSUME TypeOK, Causes, UNCHANGED <<psk, why>>, cut => cut',
           \A e \in Ends : Open(e)' = Open(e), \A e \in Ends : hung[e] => hung'[e]
    PROVE  Causes'
<1>1. \A e \in Ends : Open(e)' <=> why'[e] = "open"
  BY DEF Causes
<1>2. psk'["client"] = psk'["server"] /\ ~Open("server")' =>
         why'["server"] \in Outside \/ cut' \/ ~Open("client")'
  BY TwoEnds DEF Causes
<1>3. FailsForCause'
  BY DEF Causes, FailsForCause
<1> QED
  BY <1>1, <1>2, <1>3 DEF Causes

\* Flush, Break, Hang and stuttering.
LEMMA QuietSession ==
    ASSUME CInv, SessionInv, \A d \in Ends : Kept(d), cut => cut',
           UNCHANGED <<psk, pc, tx, rx, need, acc, why, asked, answered, got>>,
           \A e \in Ends : hung[e] => hung'[e]
    PROVE  SessionInv'
<1>1. TypeOK /\ Counts /\ InStep /\ Causes /\ Kept("client") /\ Kept("server")
  BY TwoEnds DEF CInv, SessionInv
<1>2. Counts'
  BY <1>1 DEF Counts
<1>3. Causes'
  <2>1. \A e \in Ends : Open(e)' = Open(e)
    BY DEF Open
  <2> QED
    BY <1>1, <2>1, CausesKept
<1>4. ToServer => ToServer'
  BY <1>1, ToServerKept
<1>5. ToClient => ToClient'
  BY <1>1, ToClientKept
<1>6. InStep'
  BY <1>1, <1>4, <1>5 DEF InStep, Open
<1> QED
  BY <1>2, <1>3, <1>6 DEF SessionInv

(***************************************************************************)
(* An end closes its socket for a cause outside the session, or because    *)
(* the other one is gone, or, the client, because it is through.           *)
(***************************************************************************)
Excused(e, reason) ==
    \/ psk["client"] # psk["server"] \/ cut \/ reason \in Outside
    \/ e = "client" /\ reason = "done"
    \/ reason = "lost" /\ ~Open(Peer(e))

LEMMA CloseSession ==
    ASSUME CInv, SessionInv, NEW e \in Ends, Open(e), NEW reason \in Reasons \ {"open"},
           Excused(e, reason), Close(e, reason)
    PROVE  SessionInv'
<1>1. TypeOK /\ Counts /\ InStep /\ Causes /\ "client" \in Ends /\ "server" \in Ends
  BY TwoEnds DEF CInv, SessionInv
<1>2. /\ pc' = [pc EXCEPT ![e] = "closed"] /\ why' = [why EXCEPT ![e] = reason]
      /\ UNCHANGED <<psk, tx, rx, need, acc, hung, cut, asked, answered, got>>
  BY DEF Close, Goto, readVars, rpcVars
<1>3. /\ pc'[e] = "closed" /\ why'[e] = reason
      /\ \A d \in Ends \ {e} : pc'[d] = pc[d] /\ why'[d] = why[d]
  BY <1>1, <1>2 DEF TypeOK
<1>4. ~Intact' /\ Kept("client") /\ Kept("server")
  BY <1>1, KeptClose
<1>5. CASE e = "client"
  <2>1. pc'["client"] = "closed" /\ pc'["server"] = pc["server"]
        /\ why'["client"] = reason /\ why'["server"] = why["server"]
    BY <1>1, <1>3, <1>5
  <2>2. Counts'
    BY <1>1, <1>2, <2>1 DEF Counts
  <2>3. ToServer => ToServer'
    BY <1>1, <1>2, <1>4, <2>1, ToServerKept
  <2>4. InStep'
    BY <1>1, <1>2, <2>1, <2>3 DEF InStep, Open
  <2>5. \A d \in Ends : Open(d)' <=> why'[d] = "open"
    BY <1>1, <1>3 DEF Causes, Open
  <2>6. FailsForCause'
    <3>1. CASE reason = "lost" /\ ~Open("server")
      <4>1. psk["client"] # psk["server"] \/ why["server"] \in Outside \/ cut
        BY <1>1, <1>5, <3>1 DEF Causes
      <4> QED
        BY <1>1, <1>2, <2>1, <4>1 DEF FailsForCause, Outside
    <3>2. CASE ~(reason = "lost" /\ ~Open("server"))
      BY <1>1, <1>2, <1>5, <2>1, <3>2, TwoEnds DEF FailsForCause, Outside, Excused
    <3> QED
      BY <3>1, <3>2
  <2>7. Causes'
    BY <2>1, <2>5, <2>6 DEF Causes, Open
  <2> QED
    BY <2>2, <2>4, <2>7 DEF SessionInv
<1>6. CASE e = "server"
  <2>1. pc'["server"] = "closed" /\ pc'["client"] = pc["client"]
        /\ why'["server"] = reason /\ why'["client"] = why["client"]
    BY <1>1, <1>3, <1>6
  <2>2. Counts'
    BY <1>1, <1>2, <2>1 DEF Counts
  <2>3. ToClient => ToClient'
    BY <1>1, <1>2, <1>4, <2>1, ToClientKept DEF Greets
  <2>4. InStep'
    BY <1>1, <1>2, <2>1, <2>3 DEF InStep, Open
  <2>5. \A d \in Ends : Open(d)' <=> why'[d] = "open"
    BY <1>1, <1>3 DEF Causes, Open
  <2>6. why["server"] = "open"
    BY <1>1, <1>6 DEF Causes
  <2>7. FailsForCause'
    BY <1>1, <1>2, <2>1, <2>6, TwoEnds DEF Causes, FailsForCause
  <2>8. psk'["client"] = psk'["server"] => why'["server"] \in Outside \/ cut' \/ ~Open("client")'
    BY <1>2, <1>6, <2>1, TwoEnds DEF Excused, Open
  <2>9. Causes'
    BY <2>5, <2>7, <2>8 DEF Causes
  <2> QED
    BY <2>2, <2>4, <2>9 DEF SessionInv
<1> QED
  BY <1>5, <1>6, TwoEnds

(***************************************************************************)
(* Whatever the server finds on its stream is the hello or a request, and  *)
(* it expects it.                                                          *)
(***************************************************************************)
LEMMA HelloShape ==
    /\ Hello \in Seq({Selector, Mode, Hs(psk["client"])}) /\ Len(Hello) = 3
    /\ Hello[1] = Selector /\ Hello[2] = Mode /\ Hello[3] = Hs(psk["client"])
  BY DEF Hello

LEMMA WelcomeShape ==
    Welcome \in Seq({Hs(psk["server"])}) /\ Len(Welcome) = 1 /\ Welcome[1] = Hs(psk["server"])
  BY DEF Welcome

LEMMA GreetingRead ==
    ASSUME TypeOK, Greeting, wire["client"] # <<>>
    PROVE  \E r \in 0..2 : /\ Flow("client", Hello, r) /\ Piece("server") = Hello[r + 1]
                           /\ pc["server"] = <<"sniff", "mode", "hs">>[r + 1]
<1>1. PICK r \in 0..3 : /\ Flow("client", Hello, r)
                        /\ pc["server"] = <<"sniff", "mode", "hs", "head">>[r + 1]
  BY DEF Greeting
<1>2. PICK H : H = Hello
  OBVIOUS
<1>3. H \in Seq({Selector, Mode, Hs(psk["client"])}) /\ Len(H) = 3
  BY <1>2, HelloShape
<1>4. r < 3 /\ Piece("server") = H[r + 1]
  BY <1>1, <1>2, <1>3, FlowHead, TwoEnds
<1>5. r \in 0..2
  BY <1>4
<1>6. <<"sniff", "mode", "hs", "head">>[r + 1] = <<"sniff", "mode", "hs">>[r + 1]
  <2>1. r = 0 \/ r = 1 \/ r = 2
    BY <1>5
  <2> QED
    BY <2>1
<1> QED
  BY <1>1, <1>2, <1>4, <1>5, <1>6

LEMMA RequestedRead ==
    ASSUME TypeOK, NEW u \in Payloads, NEW r \in Nat, Requested(u, r), wire["client"] # <<>>
    PROVE  /\ r < Len(Sent("client", u)) /\ Len(answered) = asked - 1
           /\ pc["server"] = IF r > 0 THEN "body" ELSE IF pc["server"] = "sniff" THEN "sniff" ELSE "head"
           /\ pc["server"] = "sniff" => psk["server"] = NoPsk
<1>1. PICK S, F : F = Sent("client", u) /\ F \in Seq(S)
  BY SentShape, TwoEnds
<1>2. Within("server", u, r) /\ Flow("client", F, r)
  BY <1>1, TwoEnds DEF Requested, Within
<1>3. r < Len(F)
  BY <1>1, <1>2, FlowHead, TwoEnds
<1>4. pc["server"] = "body" <=> r > 0 /\ r < Len(F)
  BY <1>1, <1>2, TwoEnds DEF Within
<1>5. r # Len(F)
  BY <1>1, <1>3
<1>6. Len(answered) = asked - 1
  BY <1>1, <1>5 DEF Requested
<1>7. CASE r > 0
  BY <1>1, <1>3, <1>4, <1>6, <1>7
<1>8. CASE r = 0
  BY <1>1, <1>3, <1>6, <1>8 DEF Requested
<1> QED
  BY <1>7, <1>8

LEMMA NoneAnswered ==
    ASSUME TypeOK, Counts, asked = 0
    PROVE  answered = <<>> /\ got = <<>>
<1>1. answered \in Seq(Payloads) /\ got \in Seq(Payloads)
  BY DEF TypeOK
<1>2. Len(answered) \in Nat /\ Len(got) \in Nat
  BY <1>1
<1>3. Len(answered) = 0 /\ Len(got) = 0
  BY <1>2 DEF Counts
<1> QED
  BY <1>1, <1>3

LEMMA ClientHelloSession ==
    ASSUME CInv, SessionInv, ClientHello
    PROVE  SessionInv'
<1>1. /\ pc["client"] = "hello"
      /\ UNCHANGED <<psk, wire, tx, rx, need, acc, why, hung, cut, asked, answered, got>>
  BY DEF ClientHello, readVars, rpcVars
<1>2. /\ TypeOK /\ Counts /\ InStep /\ Causes /\ "client" \in Ends /\ "server" \in Ends
      /\ wire["client"] = <<>> /\ out["client"] = <<>>
  BY <1>1, TwoEnds DEF CInv, SessionInv, Opening
<1>3. asked = 0 /\ answered = <<>> /\ got = <<>>
  BY <1>1, <1>2, NoneAnswered DEF Counts
<1>4. /\ pc' = [pc EXCEPT !["client"] = IF psk["client"] = NoPsk THEN "ask" ELSE "hs"]
      /\ out' = IF psk["client"] = NoPsk THEN out ELSE [out EXCEPT !["client"] = Hello]
  BY DEF ClientHello, Goto, Hello
<1>5. /\ pc'["client"] = (IF psk["client"] = NoPsk THEN "ask" ELSE "hs")
      /\ pc'["server"] = pc["server"] /\ out'["server"] = out["server"]
      /\ out'["client"] = IF psk["client"] = NoPsk THEN <<>> ELSE Hello
  BY <1>2, <1>4, TwoEnds DEF TypeOK
<1>6. Counts'
  BY <1>1, <1>2, <1>3, <1>5 DEF Counts
<1>7. \A d \in Ends : Open(d)' = Open(d)
  BY <1>1, <1>5, TwoEnds DEF Open
<1>8. Causes'
  BY <1>1, <1>2, <1>7, CausesKept
<1>9. ASSUME ToServer PROVE ToServer' /\ pc["server"] = "sniff"
  <2>1. Silent /\ tx["client"] = 0 /\ rx["server"] = 0
    BY <1>1, <1>3, <1>9 DEF ToServer, Greeting
  <2>2. CASE psk["client"] = NoPsk
    <3>1. Silent'
      BY <1>1, <1>5, <2>1, <2>2 DEF Silent, Idle
    <3> QED
      BY <1>1, <1>3, <2>1, <3>1 DEF ToServer, Silent
  <2>3. CASE psk["client"] # NoPsk
    <3>1. PICK H : H = Hello
      OBVIOUS
    <3>2. Hello' = H /\ H \in Seq({Selector, Mode, Hs(psk["client"])})
      BY <1>1, <3>1, HelloShape DEF Hello
    <3>3. Flow("client", H, 0)'
      BY <1>1, <1>2, <1>5, <2>3, <3>1, <3>2, FlowSend
    <3>4. <<"sniff", "mode", "hs", "head">>[0 + 1] = "sniff" /\ 0 \in 0..3
      OBVIOUS
    <3>5. Greeting'
      BY <1>1, <1>5, <2>1, <2>3, <3>2, <3>3, <3>4 DEF Greeting, Silent
    <3> QED
      BY <1>1, <1>3, <2>1, <3>5 DEF ToServer, Silent
  <2> QED
    BY <2>2, <2>3
<1>10. ASSUME ToClient, psk["client"] = psk["server"] PROVE ToClient'
  <2>1. Idle("server") /\ tx["server"] = 0 /\ rx["client"] = 0
    BY <1>1, <1>3, <1>10 DEF ToClient
  <2>2. Idle("server")'
    BY <1>1, <1>5, <2>1 DEF Idle
  <2>3. CASE pc["server"] \in Greets \/ psk["client"] = NoPsk
    BY <1>1, <1>3, <1>5, <2>1, <2>2, <2>3 DEF ToClient, Greets
  <2>4. CASE pc["server"] \notin Greets
    <3>1. ~Intact'
      BY <1>2, <1>5, <1>9, <1>10, <2>4 DEF InStep, Open, Greets, Intact
    <3>2. PICK W : W = Welcome
      OBVIOUS
    <3>3. Welcome' = W /\ W \in Seq({Hs(psk["server"])})
      BY <1>1, <3>2 DEF Welcome
    <3>4. Flow("server", W, 0)'
      BY <1>2, <2>2, <3>1, <3>3, BrokenIdle
    <3> QED
      BY <1>1, <1>3, <1>5, <2>1, <2>2, <3>3, <3>4 DEF ToClient
  <2> QED
    BY <2>3, <2>4
<1>11. InStep'
  BY <1>1, <1>2, <1>7, <1>9, <1>10 DEF InStep
<1> QED
  BY <1>6, <1>8, <1>11 DEF SessionInv

(***************************************************************************)
(* The server reads the next piece of the hello.                           *)
(***************************************************************************)
LEMMA GreetingNext ==
    ASSUME TypeOK, NEW r \in 0..2, Flow("client", Hello, r), psk["client"] # NoPsk,
           pc["client"] # "hello", pc'["client"] = pc["client"], pc["server"] # "closed",
           wire["client"] # <<>>, wire' = Consumed("server"), out'["client"] = out["client"],
           UNCHANGED <<psk, cut>>, pc'["server"] = <<"mode", "hs", "head">>[r + 1]
    PROVE  Greeting'
<1>1. PICK H : H = Hello
  OBVIOUS
<1>2. Hello' = H /\ H \in Seq({Selector, Mode, Hs(psk["client"])})
  BY <1>1, HelloShape DEF Hello
<1>3. Intact' => Intact
  BY StillOpen, TwoEnds
<1>4. Flow("client", H, r + 1)'
  BY <1>1, <1>2, <1>3, FlowRead, TwoEnds
<1>5. r + 1 \in 0..3 /\ <<"sniff", "mode", "hs", "head">>[(r + 1) + 1] = <<"mode", "hs", "head">>[r + 1]
  <2>1. r = 0 \/ r = 1 \/ r = 2
    OBVIOUS
  <2> QED
    BY <2>1
<1> QED
  BY <1>2, <1>4, <1>5 DEF Greeting

LEMMA GreetedWith ==
    ASSUME CInv, ToServer, wire["client"] # <<>>, pc["server"] \in {"mode", "hs"}
    PROVE  /\ asked = 0 /\ answered = <<>> /\ tx["client"] = 0 /\ rx["server"] = 0
           /\ psk["client"] # NoPsk /\ pc["client"] # "hello"
           /\ pc["server"] = "mode" => Flow("client", Hello, 1)
           /\ pc["server"] = "hs" =>
                 Flow("client", Hello, 2) /\ Piece("server") = Hs(psk["client"])
<1>1. TypeOK
  BY DEF CInv
<1>2. ~(asked > 0)
  <2> SUFFICES ASSUME asked > 0 PROVE FALSE
    OBVIOUS
  <2>1. PICK n \in ReqSizes, r \in Nat : Requested(Request(asked, n), r)
    BY DEF ToServer
  <2>2. Request(asked, n) \in Payloads
    BY <1>1, RequestPayload
  <2> QED
    BY <1>1, <2>1, <2>2, RequestedRead
<1>3. /\ asked = 0 /\ answered = <<>> /\ tx["client"] = 0 /\ rx["server"] = 0 /\ Greeting
  BY <1>2 DEF ToServer, Silent
<1>4. PICK r \in 0..2 : /\ Flow("client", Hello, r) /\ Piece("server") = Hello[r + 1]
                        /\ pc["server"] = <<"sniff", "mode", "hs">>[r + 1]
  BY <1>1, <1>3, GreetingRead
<1>5. r = 0 \/ r = 1 \/ r = 2
  OBVIOUS
<1>6. (pc["server"] = "mode" => r = 1) /\ (pc["server"] = "hs" => r = 2)
  BY <1>4, <1>5
<1>7. pc["server"] = "hs" => Piece("server") = Hello[3]
  BY <1>4, <1>6
<1> QED
  BY <1>3, <1>4, <1>6, <1>7, HelloShape DEF Greeting

LEMMA SniffSelectorSession ==
    ASSUME CInv, SessionInv, SniffSelector
    PROVE  SessionInv'
<1>1. /\ pc["server"] = "sniff" /\ wire["client"] # <<>> /\ wire' = Consumed("server")
      /\ Piece("server") = Selector /\ pc' = [pc EXCEPT !["server"] = "mode"]
      /\ UNCHANGED <<psk, out, tx, rx, need, acc, why, hung, cut, asked, answered, got>>
  BY TwoEnds DEF SniffSelector, Arrived, Goto, readVars, rpcVars
<1>2. TypeOK /\ Counts /\ InStep /\ Causes /\ "client" \in Ends /\ "server" \in Ends
  BY TwoEnds DEF CInv, SessionInv
<1>3. /\ pc'["server"] = "mode" /\ pc'["client"] = pc["client"]
      /\ wire'["server"] = wire["server"]
  BY <1>1, <1>2, TwoEnds DEF TypeOK, Consumed
<1>4. Counts'
  BY <1>1, <1>2, <1>3 DEF Counts
<1>5. \A d \in Ends : Open(d)' = Open(d)
  BY <1>1, <1>3, TwoEnds DEF Open
<1>6. Causes'
  BY <1>1, <1>2, <1>5, CausesKept
<1>7. ASSUME ToServer, psk["client"] = psk["server"] PROVE ToServer'
  <2>1. ~(asked > 0)
    <3> SUFFICES ASSUME asked > 0 PROVE FALSE
      OBVIOUS
    <3>1. PICK n \in ReqSizes, r \in Nat : Requested(Request(asked, n), r)
      BY <1>7 DEF ToServer
    <3>2. PICK u : u = Request(asked, n)
      OBVIOUS
    <3>3. u \in Payloads
      BY <1>2, <3>2, RequestPayload
    <3>4. r = 0 /\ psk["server"] = NoPsk
      BY <1>1, <1>2, <3>1, <3>2, <3>3, RequestedRead
    <3>5. Within("server", u, r)
      BY <3>1, <3>2 DEF Requested
    <3>6. Piece("server") = Size(Len(u))
      BY <1>1, <1>2, <1>7, <3>3, <3>4, <3>5, NextPiece, TwoEnds
    <3>7. Selector.t = "selector" /\ Size(Len(u)).t = "size"
      BY DEF Selector, Size
    <3> QED
      BY <1>1, <3>6, <3>7
  <2>2. /\ asked = 0 /\ answered = <<>> /\ tx["client"] = 0 /\ rx["server"] = 0 /\ Greeting
    BY <1>1, <1>7, <2>1 DEF ToServer, Silent, Idle
  <2>3. PICK r \in 0..2 : /\ Flow("client", Hello, r) /\ Piece("server") = Hello[r + 1]
                          /\ pc["server"] = <<"sniff", "mode", "hs">>[r + 1]
    BY <1>1, <1>2, <2>2, GreetingRead
  <2>4. r = 0
    <3>1. r = 0 \/ r = 1 \/ r = 2
      OBVIOUS
    <3> QED
      BY <1>1, <2>3, <3>1
  <2>5. pc'["server"] = <<"mode", "hs", "head">>[r + 1] /\ out'["client"] = out["client"]
    BY <1>1, <1>3, <2>4
  <2>6. Greeting'
    BY <1>1, <1>2, <1>3, <2>2, <2>3, <2>5, GreetingNext DEF Greeting
  <2> QED
    BY <1>1, <2>2, <2>6 DEF ToServer
<1>8. ASSUME ToClient PROVE ToClient'
  <2>1. Intact' => Intact
    BY <1>5, <1>1, <1>2 DEF Intact
  <2>2. Kept("server")
    BY <1>1, <1>2, <1>3, <2>1, KeptStill
  <2> QED
    BY <1>1, <1>2, <1>3, <1>8, <2>2, ToClientKept DEF Greets
<1>9. InStep'
  BY <1>1, <1>2, <1>5, <1>7, <1>8 DEF InStep
<1> QED
  BY <1>4, <1>6, <1>9 DEF SessionInv

LEMMA ReadModeSession ==
    ASSUME CInv, SessionInv, ReadMode
    PROVE  SessionInv'
<1>1. /\ pc["server"] = "mode" /\ wire["client"] # <<>> /\ TypeOK /\ Counts /\ InStep /\ Causes
      /\ "client" \in Ends /\ "server" \in Ends /\ Open("server")
  BY TwoEnds DEF ReadMode, Arrived, CInv, SessionInv, Open
<1>2. CASE ~ServesNoise
  <2>1. Close("server", "refused")
    BY <1>2 DEF ReadMode
  <2>2. psk["client"] # psk["server"]
    BY <1>1, <1>2, GreetedWith DEF InStep, ServesNoise
  <2>3. Excused("server", "refused") /\ "refused" \in Reasons \ {"open"}
    BY <2>2 DEF Excused, Reasons
  <2> QED
    BY <1>1, <2>1, <2>3, CloseSession
<1>3. CASE ServesNoise
  <2>1. /\ wire' = Consumed("server") /\ pc' = [pc EXCEPT !["server"] = "hs"]
        /\ UNCHANGED <<psk, out, tx, rx, need, acc, why, hung, cut, asked, answered, got>>
    BY <1>3 DEF ReadMode, Goto, readVars, rpcVars
  <2>2. /\ pc'["server"] = "hs" /\ pc'["client"] = pc["client"]
        /\ wire'["server"] = wire["server"] /\ out'["client"] = out["client"]
    BY <1>1, <2>1, TwoEnds DEF TypeOK, Consumed
  <2>3. Counts'
    BY <1>1, <2>1, <2>2 DEF Counts
  <2>4. \A d \in Ends : Open(d)' = Open(d)
    BY <1>1, <2>2, TwoEnds DEF Open
  <2>5. Causes'
    BY <1>1, <2>1, <2>4, CausesKept
  <2>6. ASSUME ToServer PROVE ToServer'
    <3>1. /\ asked = 0 /\ answered = <<>> /\ tx["client"] = 0 /\ rx["server"] = 0
          /\ psk["client"] # NoPsk /\ pc["client"] # "hello" /\ Flow("client", Hello, 1)
      BY <1>1, <2>6, GreetedWith
    <3>2. 1 \in 0..2 /\ pc'["server"] = <<"mode", "hs", "head">>[1 + 1]
      BY <2>2
    <3>3. Greeting'
      BY <1>1, <2>1, <2>2, <3>1, <3>2, GreetingNext
    <3> QED
      BY <2>1, <3>1, <3>3 DEF ToServer
  <2>7. ASSUME ToClient PROVE ToClient'
    <3>1. Intact' => Intact
      BY <1>1, <2>1, <2>4 DEF Intact
    <3>2. Kept("server")
      BY <1>1, <2>1, <2>2, <3>1, KeptStill
    <3> QED
      BY <1>1, <2>1, <2>2, <2>7, <3>2, ToClientKept DEF Greets
  <2>8. InStep'
    BY <1>1, <2>1, <2>4, <2>6, <2>7 DEF InStep
  <2> QED
    BY <2>3, <2>5, <2>8 DEF SessionInv
<1> QED
  BY <1>2, <1>3

(***************************************************************************)
(* The server reads a request.                                             *)
(***************************************************************************)
LEMMA ServerRequest ==
    ASSUME CInv, ToServer, wire["client"] # <<>>,
           pc["server"] \in {"head", "body"} \/ (pc["server"] = "sniff" /\ Piece("server") # Selector)
    PROVE  asked > 0 /\ \E n \in ReqSizes, r \in Nat : Requested(Request(asked, n), r)
<1>1. TypeOK
  BY DEF CInv
<1>2. ~Silent
  BY DEF Silent, Idle
<1>3. ~Greeting
  <2> SUFFICES ASSUME Greeting PROVE FALSE
    OBVIOUS
  <2>1. PICK r \in 0..2 : /\ Flow("client", Hello, r) /\ Piece("server") = Hello[r + 1]
                          /\ pc["server"] = <<"sniff", "mode", "hs">>[r + 1]
    BY <1>1, GreetingRead
  <2>2. r = 0 \/ r = 1 \/ r = 2
    OBVIOUS
  <2> QED
    BY <2>1, <2>2, HelloShape
<1> QED
  BY <1>2, <1>3 DEF ToServer

LEMMA ServerTook ==
    ASSUME CInv, SessionInv, asked > 0, NEW n \in ReqSizes, NEW r \in Nat,
           NEW u, u = Request(asked, n), Requested(u, r), wire["client"] # <<>>,
           Took("server", u, r), pc["client"] = "hs" => pc["server"] # "sniff"
    PROVE  SessionInv'
<1>1. TypeOK /\ Counts /\ InStep /\ Causes /\ "client" \in Ends /\ "server" \in Ends
  BY TwoEnds DEF CInv, SessionInv
<1>2. u \in Payloads
  BY <1>1, RequestPayload
<1>3. /\ wire' = Consumed("server")
      /\ UNCHANGED <<psk, out, tx, why, hung, cut, asked, answered>>
      /\ pc'["client"] = pc["client"] /\ need'["client"] = need["client"]
      /\ acc'["client"] = acc["client"] /\ rx'["client"] = rx["client"]
      /\ Within("server", u, r + 1)'
  BY <1>1 DEF Took
<1>4. got' = got
  BY DEF Took
<1>5. IF r + 1 = Len(Sent("client", u))
      THEN pc'["server"] = "respond" /\ acc'["server"] = u ELSE pc'["server"] = "body"
  BY TwoEnds DEF Took
<1>6. pc["server"] \in {"sniff", "head", "body"} /\ Len(answered) = asked - 1
  BY <1>1, <1>2, RequestedRead
<1>7. wire'["server"] = wire["server"] /\ out'["server"] = out["server"]
  BY <1>1, <1>3, TwoEnds DEF TypeOK, Consumed
<1>8. Counts'
  BY <1>1, <1>3, <1>4, <1>5 DEF Counts
<1>9. \A d \in Ends : Open(d)' = Open(d)
  BY <1>3, <1>5, <1>6, TwoEnds DEF Open
<1>10. Causes'
  BY <1>1, <1>3, <1>9, CausesKept
<1>11. ToServer'
  <2>1. Sent("client", u)' = Sent("client", u)
    BY <1>3 DEF Sent
  <2>2. r + 1 \in Nat /\ r + 1 # 0
    OBVIOUS
  <2>3. Requested(u, r + 1)'
    BY <1>3, <1>5, <1>6, <2>1, <2>2 DEF Requested
  <2>4. asked' > 0 /\ u = Request(asked', n)
    BY <1>3
  <2> QED
    BY <2>2, <2>3, <2>4 DEF ToServer
<1>12. ASSUME ToClient PROVE ToClient'
  <2>1. Intact' => Intact
    BY <1>1, <1>3, <1>9 DEF Intact
  <2>2. Kept("server")
    BY <1>1, <1>7, <2>1, KeptStill
  <2>3. pc'["server"] \notin Greets /\ (pc["server"] \in Greets => pc["server"] = "sniff")
    BY <1>5, <1>6 DEF Greets
  <2> QED
    BY <1>1, <1>3, <1>4, <1>12, <2>2, <2>3, ToClientKept
<1>13. InStep'
  BY <1>1, <1>3, <1>9, <1>11, <1>12 DEF InStep
<1> QED
  BY <1>8, <1>10, <1>13 DEF SessionInv

\* The first request of a client without a passphrase.
LEMMA SniffPlainSession ==
    ASSUME CInv, SessionInv, SniffPlain
    PROVE  SessionInv'
<1>1. /\ pc["server"] = "sniff" /\ wire["client"] # <<>> /\ Piece("server") # Selector
      /\ TypeOK /\ Counts /\ InStep /\ Causes
      /\ "client" \in Ends /\ "server" \in Ends /\ Open("server")
  BY TwoEnds DEF SniffPlain, Arrived, CInv, SessionInv, Open
<1>2. psk["client"] = NoPsk
  BY <1>1, TwoEnds DEF CInv, Opening, Piece
<1>3. CASE psk["client"] # psk["server"]
  <2>1. Close("server", "refused")
    BY <1>2, <1>3 DEF SniffPlain, ServesPlain
  <2>2. Excused("server", "refused") /\ "refused" \in Reasons \ {"open"}
    BY <1>3 DEF Excused, Reasons
  <2> QED
    BY <1>1, <2>1, <2>2, CloseSession
<1>4. CASE psk["client"] = psk["server"]
  <2>1. /\ asked > 0
        /\ \E n \in ReqSizes, r \in Nat : Requested(Request(asked, n), r)
    BY <1>1, <1>4, ServerRequest DEF InStep
  <2>2. PICK n \in ReqSizes, r \in Nat : Requested(Request(asked, n), r)
    BY <2>1
  <2>3. PICK u : u = Request(asked, n)
    OBVIOUS
  <2>4. u \in Payloads /\ u # <<>>
    BY <1>1, <2>1, <2>3, RequestPayload
  <2>5. Within("server", u, r) /\ r = 0
    BY <1>1, <2>2, <2>3, <2>4, RequestedRead DEF Requested
  <2>6. Piece("server") = Size(Len(u)) /\ r < Len(Sent("client", u))
    BY <1>1, <1>2, <1>4, <2>4, <2>5, NextPiece, TwoEnds
  <2>7. Piece("server").n = Len(u)
    BY <2>6 DEF Size
  <2>8. \/ Close("server", "oversize")
        \/ /\ wire' = Consumed("server") /\ pc' = [pc EXCEPT !["server"] = "body"]
           /\ need' = [need EXCEPT !["server"] = Piece("server").n]
           /\ UNCHANGED <<psk, secure, out, tx, rx, acc, why, hung, cut, asked, answered, got>>
    BY <1>2, <1>4 DEF SniffPlain, ServesPlain, Goto, rpcVars
  <2>9. CASE Close("server", "oversize")
    <3>1. Excused("server", "oversize") /\ "oversize" \in Reasons \ {"open"}
      BY DEF Excused, Reasons, Outside
    <3> QED
      BY <1>1, <2>9, <3>1, CloseSession
  <2>10. CASE /\ wire' = Consumed("server") /\ pc' = [pc EXCEPT !["server"] = "body"]
              /\ need' = [need EXCEPT !["server"] = Piece("server").n]
              /\ UNCHANGED <<psk, secure, out, tx, rx, acc, why, hung, cut, asked, answered, got>>
    <3>1. /\ pc'["server"] = "body" /\ need'["server"] = Len(u)
          /\ \A d \in Ends \ {"server"} : pc'[d] = pc[d] /\ need'[d] = need[d]
      BY <1>1, <2>7, <2>10 DEF TypeOK
    <3>2. Len(Sent("client", u)) = 2
      BY <1>2, <2>4, PlainShape DEF Sent
    <3>3. r + 1 < Len(Sent("client", u)) /\ r + 1 # Len(Sent("client", u))
      BY <2>5, <3>2
    <3>4. Within("server", u, r + 1)'
      BY <1>1, <1>2, <1>4, <2>4, <2>5, <2>10, <3>1, <3>3, WithinNext, TwoEnds
    <3>5. Took("server", u, r)
      BY <2>10, <3>1, <3>3, <3>4, TwoEnds DEF Took
    <3>6. pc["client"] # "hs"
      BY <1>1, <1>2 DEF CInv, Stage
    <3> QED
      BY <1>1, <2>1, <2>2, <2>3, <3>5, <3>6, ServerTook
  <2> QED
    BY <2>8, <2>9, <2>10
<1> QED
  BY <1>3, <1>4

LEMMA ServerReads ==
    ASSUME CInv, SessionInv, ReadHead("server") \/ ReadPlain("server") \/ ReadPart("server")
    PROVE  SessionInv'
<1>1. /\ pc["server"] \in {"head", "body"} /\ wire["client"] # <<>>
      /\ TypeOK /\ InStep /\ "client" \in Ends /\ "server" \in Ends /\ Open("server")
  BY TwoEnds DEF ReadHead, ReadPlain, ReadPart, Arrived, CInv, SessionInv, Open
<1>2. psk["client"] = psk["server"]
  BY <1>1 DEF CInv, Matched, Spoken
<1>3. asked > 0 /\ \E n \in ReqSizes, r \in Nat : Requested(Request(asked, n), r)
  BY <1>1, <1>2, ServerRequest DEF InStep
<1>4. PICK n \in ReqSizes, r \in Nat : Requested(Request(asked, n), r)
  BY <1>3
<1>5. PICK u : u = Request(asked, n)
  OBVIOUS
<1>6. u \in Payloads /\ u # <<>> /\ Within("server", u, r)
  BY <1>1, <1>3, <1>4, <1>5, RequestPayload DEF Requested
<1>7. Close("server", "oversize") \/ Took("server", u, r)
  BY <1>1, <1>2, <1>6, FrameRead, TwoEnds
<1>8. CASE Close("server", "oversize")
  <2>1. Excused("server", "oversize") /\ "oversize" \in Reasons \ {"open"}
    BY DEF Excused, Reasons, Outside
  <2> QED
    BY <1>1, <1>8, <2>1, CloseSession
<1>9. CASE Took("server", u, r)
  BY <1>1, <1>3, <1>4, <1>5, <1>9, ServerTook
<1> QED
  BY <1>7, <1>8, <1>9

(***************************************************************************)
(* The client reads an answer.                                             *)
(***************************************************************************)
LEMMA ClientAnswer ==
    ASSUME CInv, ToClient, wire["server"] # <<>>, pc["client"] # "hs"
    PROVE  /\ answered # <<>> /\ answered[Len(answered)] \in Payloads
           /\ \E r \in Nat : Replied(r)
  BY AnswerPayload DEF ToClient, Idle, CInv

LEMMA ClientTook ==
    ASSUME CInv, SessionInv, answered # <<>>, NEW r \in Nat, Replied(r),
           NEW u \in Payloads, u = answered[Len(answered)], psk["client"] = psk["server"],
           pc["client"] \in {"head", "body"}, wire["server"] # <<>>, Took("client", u, r)
    PROVE  SessionInv' /\ Len(got) + 1 = Len(answered)
<1>1. TypeOK /\ Counts /\ InStep /\ Causes /\ "client" \in Ends /\ "server" \in Ends
  BY TwoEnds DEF CInv, SessionInv
<1>2. /\ wire' = Consumed("client")
      /\ UNCHANGED <<psk, out, tx, why, hung, cut, asked, answered>>
      /\ pc'["server"] = pc["server"] /\ need'["server"] = need["server"]
      /\ acc'["server"] = acc["server"] /\ rx'["server"] = rx["server"]
      /\ Within("client", u, r + 1)'
  BY <1>1 DEF Took
<1>3. IF r + 1 = Len(Sent("server", u))
      THEN pc'["client"] = "ask" /\ got' = Append(got, u)
      ELSE pc'["client"] = "body" /\ got' = got
  BY TwoEnds DEF Took
<1>4. Within("client", u, r) /\ r < Len(Sent("server", u)) /\ Len(Sent("server", u)) \in Nat
  BY <1>1, NextPiece, SentShape, TwoEnds DEF Replied
<1>5. Len(got) < Len(answered)
  BY <1>4 DEF Replied
<1>6. got \in Seq(Payloads) /\ answered \in Seq(Payloads) /\ asked \in Nat
  BY <1>1 DEF TypeOK
<1>7. Len(got) \in Nat /\ Len(answered) \in Nat /\ Len(Append(got, u)) = Len(got) + 1
  BY <1>6
<1>8. Len(answered) = Len(got) + 1 /\ asked = Len(got) + 1
  BY <1>1, <1>5, <1>6, <1>7 DEF Counts
<1>9. wire'["client"] = wire["client"] /\ out'["client"] = out["client"]
  BY <1>1, <1>2, TwoEnds DEF TypeOK, Consumed
<1>10. Counts'
  <2> DEFINE g == Len(got')
  <2>1. /\ g = IF r + 1 = Len(Sent("server", u)) THEN Len(got) + 1 ELSE Len(got)
    BY <1>3, <1>7
  <2>2. g <= Len(answered) /\ Len(answered) <= asked /\ asked <= g + 1
    BY <1>7, <1>8, <2>1
  <2>3. /\ pc'["client"] = "ask" => asked = g
        /\ pc'["client"] \in {"head", "body"} => asked = g + 1
        /\ pc'["client"] \in {"ask", "body"}
    BY <1>3, <1>8, <2>1
  <2> HIDE DEF g
  <2> QED
    BY <1>1, <1>2, <2>2, <2>3 DEF Counts, g
<1>11. \A d \in Ends : Open(d)' = Open(d)
  BY <1>2, <1>3, TwoEnds DEF Open
<1>12. Causes'
  BY <1>1, <1>2, <1>11, CausesKept
<1>13. ToClient'
  <2>1. Sent("server", u)' = Sent("server", u)
    BY <1>2 DEF Sent
  <2>2. u = answered'[Len(answered')]
    BY <1>2
  <2>3. r + 1 < Len(Sent("server", u)) => Len(got') < Len(answered') /\ pc'["client"] \in {"head", "body"}
    BY <1>2, <1>3, <1>4, <1>5
  <2>4. r + 1 = Len(Sent("server", u)) => Len(got') = Len(answered')
    BY <1>2, <1>3, <1>7, <1>8
  <2>5. Replied(r + 1)'
    BY <1>2, <2>1, <2>2, <2>3, <2>4 DEF Replied
  <2>6. r + 1 \in Nat /\ answered' # <<>>
    BY <1>2
  <2> QED
    BY <2>5, <2>6 DEF ToClient
<1>14. ASSUME ToServer PROVE ToServer'
  <2>1. Intact' => Intact
    BY <1>1, <1>2, <1>11 DEF Intact
  <2>2. Kept("client")
    BY <1>1, <1>9, <2>1, KeptStill
  <2>3. pc["client"] # "hello" /\ pc'["client"] # "hello"
    BY <1>3
  <2> QED
    BY <1>1, <1>2, <1>14, <2>2, <2>3, ToServerKept
<1>15. InStep'
  BY <1>1, <1>2, <1>11, <1>13, <1>14 DEF InStep
<1> QED
  BY <1>8, <1>10, <1>12, <1>15 DEF SessionInv

LEMMA ClientReads ==
    ASSUME CInv, SessionInv, ReadHead("client") \/ ReadPlain("client") \/ ReadPart("client")
    PROVE  SessionInv'
<1>1. /\ pc["client"] \in {"head", "body"} /\ wire["server"] # <<>>
      /\ TypeOK /\ InStep /\ "client" \in Ends /\ "server" \in Ends /\ Open("client")
  BY TwoEnds DEF ReadHead, ReadPlain, ReadPart, Arrived, CInv, SessionInv, Open
<1>2. psk["client"] = psk["server"]
  BY <1>1 DEF CInv, Matched, Spoken
<1>3. /\ answered # <<>> /\ answered[Len(answered)] \in Payloads
      /\ \E r \in Nat : Replied(r)
  BY <1>1, <1>2, ClientAnswer DEF InStep
<1>4. PICK r \in Nat : Replied(r)
  BY <1>3
<1>5. PICK u \in Payloads : u = answered[Len(answered)]
  BY <1>3
<1>6. Within("client", u, r)
  BY <1>4, <1>5 DEF Replied
<1>7. Close("client", "oversize") \/ Took("client", u, r)
  BY <1>1, <1>2, <1>6, FrameRead, TwoEnds
<1>8. CASE Close("client", "oversize")
  <2>1. Excused("client", "oversize") /\ "oversize" \in Reasons \ {"open"}
    BY DEF Excused, Reasons, Outside
  <2> QED
    BY <1>1, <1>8, <2>1, CloseSession
<1>9. CASE Took("client", u, r)
  BY <1>1, <1>2, <1>3, <1>4, <1>5, <1>9, ClientTook
<1> QED
  BY <1>7, <1>8, <1>9

-----------------------------------------------------------------------------
(* The handshake.                                                          *)

LEMMA ServerHandshake ==
    ASSUME CInv, SessionInv, Handshake("server")
    PROVE  SessionInv'
<1>1. /\ pc["server"] = "hs" /\ wire["client"] # <<>> /\ TypeOK /\ Counts /\ InStep /\ Causes
      /\ "client" \in Ends /\ "server" \in Ends /\ Open("server") /\ psk["server"] # NoPsk
      /\ wire["server"] = <<>>
  BY TwoEnds DEF Handshake, Arrived, CInv, SessionInv, Open, Stage, Opening
<1>2. CASE Piece("server") # Hs(psk["server"])
  <2>1. Close("server", "refused")
    BY <1>2 DEF Handshake
  <2>2. psk["client"] # psk["server"]
    BY <1>1, <1>2, GreetedWith DEF InStep
  <2>3. Excused("server", "refused") /\ "refused" \in Reasons \ {"open"}
    BY <2>2 DEF Excused, Reasons
  <2> QED
    BY <1>1, <2>1, <2>3, CloseSession
<1>3. CASE Piece("server") = Hs(psk["server"])
  <2>1. /\ wire' = Consumed("server") /\ pc' = [pc EXCEPT !["server"] = "head"]
        /\ out' = [out EXCEPT !["server"] = <<Hs(psk["server"])>>]
        /\ UNCHANGED <<psk, tx, rx, need, acc, why, hung, cut, asked, answered, got>>
    BY <1>3 DEF Handshake, Goto, readVars, rpcVars
  <2>2. /\ pc'["server"] = "head" /\ pc'["client"] = pc["client"]
        /\ wire'["server"] = <<>> /\ out'["client"] = out["client"]
        /\ out'["server"] = Welcome
    BY <1>1, <2>1, TwoEnds DEF TypeOK, Consumed, Welcome
  <2>3. psk["client"] = psk["server"]
    <3>1. Piece("server") \in Own("client")
      BY <1>1, TwoEnds, SeqNonEmpty DEF CInv, Streams, Piece
    <3>2. psk["server"] \in Psks
      BY <1>1 DEF TypeOK
    <3> QED
      BY <1>1, <1>3, <3>1, <3>2, OwnKey
  <2>4. /\ asked = 0 /\ answered = <<>> /\ tx["client"] = 0 /\ rx["server"] = 0
        /\ psk["client"] # NoPsk /\ pc["client"] # "hello" /\ Flow("client", Hello, 2)
    BY <1>1, <2>3, GreetedWith DEF InStep
  <2>5. Counts'
    BY <1>1, <2>1, <2>2 DEF Counts
  <2>6. \A d \in Ends : Open(d)' = Open(d)
    BY <1>1, <2>2, TwoEnds DEF Open
  <2>7. Causes'
    BY <1>1, <2>1, <2>6, CausesKept
  <2>8. ToServer'
    <3>1. 2 \in 0..2 /\ pc'["server"] = <<"mode", "hs", "head">>[2 + 1]
      BY <2>2
    <3>2. Greeting'
      BY <1>1, <2>1, <2>2, <2>4, <3>1, GreetingNext
    <3> QED
      BY <2>1, <2>4, <3>2 DEF ToServer
  <2>9. ASSUME ToClient, Open("client") PROVE ToClient'
    <3>1. pc["client"] = "hs"
      <4>1. pc["client"] \in PCs
        BY <1>1 DEF TypeOK
      <4> QED
        BY <1>1, <2>4, <2>9, <4>1 DEF Counts, PCs, Open
    <3>2. PICK W : W = Welcome
      OBVIOUS
    <3>3. Welcome' = W /\ W \in Seq({Hs(psk["server"])})
      BY <2>1, <3>2, WelcomeShape DEF Welcome
    <3>4. Flow("server", W, 0)'
      BY <1>1, <2>2, <3>2, <3>3, FlowSend
    <3> QED
      BY <2>1, <2>2, <2>4, <2>9, <3>1, <3>3, <3>4 DEF ToClient
  <2>10. InStep'
    BY <1>1, <2>1, <2>6, <2>8, <2>9 DEF InStep
  <2> QED
    BY <2>5, <2>7, <2>10 DEF SessionInv
<1> QED
  BY <1>2, <1>3

LEMMA ClientHandshake ==
    ASSUME CInv, SessionInv, Handshake("client")
    PROVE  SessionInv'
<1>1. /\ pc["client"] = "hs" /\ wire["server"] # <<>> /\ TypeOK /\ Counts /\ InStep /\ Causes
      /\ "client" \in Ends /\ "server" \in Ends /\ Open("client")
  BY TwoEnds DEF Handshake, Arrived, CInv, SessionInv, Open
<1>2. psk["client"] = psk["server"]
  BY <1>1 DEF CInv, Matched, Spoken
<1>3. asked = 0 /\ answered = <<>> /\ got = <<>>
  BY <1>1, NoneAnswered DEF Counts
<1>4. /\ tx["server"] = 0 /\ rx["client"] = 0 /\ pc["server"] \notin Greets
      /\ Flow("server", Welcome, 0)
  BY <1>1, <1>2, <1>3 DEF InStep, ToClient, Idle, Greets
<1>5. PICK W : W = Welcome
  OBVIOUS
<1>6. W \in Seq({Hs(psk["server"])}) /\ Len(W) = 1 /\ W[1] = Hs(psk["server"])
  BY <1>5, WelcomeShape
<1>7. Piece("client") = Hs(psk["client"])
  BY <1>1, <1>2, <1>4, <1>5, <1>6, FlowHead, TwoEnds
<1>8. /\ wire' = Consumed("client") /\ pc' = [pc EXCEPT !["client"] = "ask"] /\ out' = out
      /\ UNCHANGED <<psk, tx, rx, need, acc, why, hung, cut, asked, answered, got>>
  BY <1>7 DEF Handshake, Goto, readVars, rpcVars
<1>9. /\ pc'["client"] = "ask" /\ pc'["server"] = pc["server"]
      /\ wire'["client"] = wire["client"] /\ wire'["server"] = Tail(wire["server"])
  BY <1>1, <1>8, TwoEnds DEF TypeOK, Consumed
<1>10. Idle("server")'
  <2> DEFINE w == wire["server"]
             o == out["server"]
  <2>1. w \in Seq(Pieces) /\ o \in Seq(Pieces) /\ w # <<>> /\ 0 + Len(w) + Len(o) <= 1
    BY <1>1, <1>4, WelcomeShape DEF TypeOK, Flow
  <2> HIDE DEF w, o
  <2>2. Len(w) \in Nat /\ Len(o) \in Nat /\ Len(w) # 0
    BY <2>1
  <2>3. Len(w) = 1 /\ Len(o) = 0
    BY <2>1, <2>2
  <2>4. Tail(w) \in Seq(Pieces) /\ Len(Tail(w)) = 0
    BY <2>1, <2>3, HeadTailProperties
  <2>5. Tail(w) = <<>> /\ o = <<>>
    BY <2>1, <2>3, <2>4, EmptySeq
  <2> QED
    BY <1>8, <1>9, <2>5 DEF Idle, w, o
<1>11. Counts'
  BY <1>1, <1>3, <1>4, <1>8, <1>9 DEF Counts, Greets
<1>12. \A d \in Ends : Open(d)' = Open(d)
  BY <1>1, <1>9, TwoEnds DEF Open
<1>13. Causes'
  BY <1>1, <1>8, <1>12, CausesKept
<1>14. ToClient'
  BY <1>3, <1>4, <1>8, <1>9, <1>10 DEF ToClient
<1>15. ASSUME ToServer PROVE ToServer'
  <2>1. Intact' => Intact
    BY <1>1, <1>8, <1>12 DEF Intact
  <2>2. Kept("client")
    BY <1>1, <1>8, <1>9, <2>1, KeptStill
  <2>3. pc["client"] # "hello" /\ pc'["client"] # "hello"
    BY <1>1, <1>9
  <2> QED
    BY <1>1, <1>8, <1>9, <1>15, <2>2, <2>3, ToServerKept
<1>16. InStep'
  BY <1>1, <1>8, <1>12, <1>14, <1>15 DEF InStep
<1> QED
  BY <1>11, <1>13, <1>16 DEF SessionInv

-----------------------------------------------------------------------------
(* An end sends a frame.                                                   *)

LEMMA WithinSent ==
    ASSUME TypeOK, NEW d \in Ends, NEW u \in Payloads, secure[d] <=> psk[d] # NoPsk,
           psk[Peer(d)] = psk[d], psk' = psk, Idle(d), wire'[d] = wire[d],
           out'[d] = Frame(d, u), tx'[d] = Written(d, u),
           psk[d] # NoPsk => rx[Peer(d)] = tx[d], rx'[Peer(d)] = rx[Peer(d)],
           pc'[Peer(d)] # "body"
    PROVE  Within(Peer(d), u, 0)' /\ Len(Sent(d, u)') \in Nat /\ Len(Sent(d, u)') > 0
<1>1. tx[d] \in Nat /\ Parts(u) \in Nat /\ Peer(d) \in Ends /\ Peer(Peer(d)) = d
  BY PartsType, TwoEnds DEF TypeOK
<1>2. PICK F : F = Frame(d, u)
  OBVIOUS
<1>3. Sent(d, u)' = F /\ (psk[d] # NoPsk => tx'[d] = tx[d] + (1 + Parts(u)))
  <2>1. CASE psk[d] = NoPsk
    BY <1>2, <2>1 DEF Sent, Frame
  <2>2. CASE psk[d] # NoPsk
    <3>1. tx'[d] = tx[d] + 1 + Parts(u)
      BY <2>2 DEF Written
    <3>2. tx'[d] - 1 - Parts(u) = tx[d]
      BY <1>1, <3>1
    <3>3. F = NoiseFrame(psk[d], tx[d], u)
      BY <1>2, <2>2 DEF Frame
    <3>4. tx'[d] = tx[d] + (1 + Parts(u))
      BY <1>1, <3>1
    <3> QED
      BY <2>2, <3>2, <3>3, <3>4 DEF Sent
  <2> QED
    BY <2>1, <2>2
<1>4. /\ \E S : F \in Seq(S)
      /\ Len(F) \in Nat /\ Len(F) > 0 /\ (psk[d] # NoPsk => Len(F) = 1 + Parts(u))
  <2>1. CASE psk[d] = NoPsk
    BY <1>2, <2>1, PlainShape DEF Frame
  <2>2. CASE psk[d] # NoPsk
    <3>1. tx[d] \in Int
      BY <1>1
    <3>2. (\E S : F \in Seq(S)) /\ Len(F) = 1 + Parts(u)
      BY <1>2, <2>2, <3>1, NoiseShape DEF Frame
    <3> QED
      BY <1>1, <3>2
  <2> QED
    BY <2>1, <2>2
<1>5. Flow(d, F, 0)'
  <2>1. PICK S : F \in Seq(S)
    BY <1>4
  <2> QED
    BY <1>2, <2>1, FlowSend DEF Idle
<1>6. psk[d] # NoPsk => rx'[Peer(d)] + Len(F) = tx'[d] + 0
  <2> DEFINE x == tx[d]
             l == Len(F)
             y == tx'[d]
             z == rx'[Peer(d)]
  <2>1. x \in Nat /\ l \in Nat /\ (psk[d] # NoPsk => y = x + l /\ z = x)
    BY <1>1, <1>3, <1>4
  <2> HIDE DEF x, l, y, z
  <2>2. psk[d] # NoPsk => z + l = y + 0
    BY <2>1
  <2> QED
    BY <2>2 DEF l, y, z
<1>7. ~(0 > 0)
  OBVIOUS
<1> QED
  BY <1>1, <1>3, <1>4, <1>5, <1>6, <1>7 DEF Within

(***************************************************************************)
(* When the client asks, the server has read all that came before.         *)
(***************************************************************************)
LEMMA AskReady ==
    ASSUME CInv, Counts, ToServer, pc["client"] = "ask", psk["client"] = psk["server"]
    PROVE  /\ Idle("client") /\ rx["server"] \in Nat
           /\ psk["client"] # NoPsk => rx["server"] = tx["client"]
           /\ pc["server"] = "head" \/ (pc["server"] = "sniff" /\ psk["server"] = NoPsk)
<1>1. TypeOK /\ "client" \in Ends /\ "server" \in Ends
  BY TwoEnds DEF CInv
<1>2. rx["server"] \in Nat /\ tx["client"] \in Nat /\ asked \in Nat
  BY <1>1 DEF TypeOK
<1>3. CASE ~(asked > 0)
  <2>1. asked = 0 /\ tx["client"] = 0 /\ rx["server"] = 0 /\ (Silent \/ Greeting)
    BY <1>3 DEF ToServer
  <2>2. CASE Silent
    BY <1>2, <2>1, <2>2 DEF Silent
  <2>3. CASE Greeting
    <3>1. PICK r \in 0..3 : /\ Flow("client", Hello, r)
                            /\ pc["server"] = <<"sniff", "mode", "hs", "head">>[r + 1]
      BY <2>3 DEF Greeting
    <3>2. pc["server"] \notin {"sniff", "mode", "hs"}
      BY <2>3 DEF Greeting, Counts
    <3>3. r = 0 \/ r = 1 \/ r = 2 \/ r = 3
      OBVIOUS
    <3>4. r = 3 /\ pc["server"] = "head"
      BY <3>1, <3>2, <3>3
    <3>5. PICK H : H = Hello
      OBVIOUS
    <3>6. H \in Seq({Selector, Mode, Hs(psk["client"])}) /\ Len(H) = 3
      BY <3>5, HelloShape
    <3>7. Idle("client")
      BY <1>1, <3>1, <3>4, <3>5, <3>6, FlowEnds
    <3> QED
      BY <1>2, <2>1, <3>4, <3>7
  <2> QED
    BY <2>1, <2>2, <2>3
<1>4. CASE asked > 0
  <2>1. PICK n \in ReqSizes, r \in Nat : Requested(Request(asked, n), r)
    BY <1>4 DEF ToServer
  <2>2. PICK v : v = Request(asked, n)
    OBVIOUS
  <2>3. v \in Payloads
    BY <1>1, <1>4, <2>2, RequestPayload
  <2>4. PICK S, F : F = Sent("client", v) /\ F \in Seq(S)
    BY <1>1, <2>3, SentShape
  <2>5. /\ Flow("client", F, r) /\ (psk["client"] # NoPsk => rx["server"] + Len(F) = tx["client"] + r)
        /\ Len(answered) = IF r = Len(F) /\ pc["server"] = "head" THEN asked ELSE asked - 1
    BY <2>1, <2>2, <2>4, TwoEnds DEF Requested, Within
  <2>6. Len(answered) = asked
    <3>1. Len(got) <= Len(answered) /\ Len(answered) <= asked /\ asked = Len(got)
      BY DEF Counts
    <3>2. Len(got) \in Nat /\ Len(answered) \in Nat
      BY <1>1 DEF TypeOK
    <3> QED
      BY <1>2, <3>1, <3>2
  <2>7. r = Len(F) /\ pc["server"] = "head"
    BY <1>2, <2>5, <2>6
  <2>8. Idle("client")
    BY <1>1, <2>4, <2>5, <2>7, FlowEnds
  <2>9. psk["client"] # NoPsk => rx["server"] = tx["client"]
    <3> DEFINE x == rx["server"]
               y == tx["client"]
    <3>1. x \in Nat /\ y \in Nat /\ (psk["client"] # NoPsk => x + r = y + r)
      BY <1>2, <2>5, <2>7
    <3> HIDE DEF x, y
    <3>2. psk["client"] # NoPsk => x = y
      BY <3>1
    <3> QED
      BY <3>2 DEF x, y
  <2> QED
    BY <1>2, <2>7, <2>8, <2>9
<1> QED
  BY <1>3, <1>4

LEMMA AskSession ==
    ASSUME CInv, SessionInv, NEW n \in ReqSizes, Ask(n)
    PROVE  SessionInv'
<1>1. /\ pc["client"] = "ask" /\ asked' = asked + 1
      /\ pc' = [pc EXCEPT !["client"] = "head"]
      /\ UNCHANGED <<psk, secure, wire, rx, need, acc, why, hung, cut, answered, got>>
  BY DEF Ask, Goto
<1>2. PICK u : u = Request(asked + 1, n)
  OBVIOUS
<1>3. /\ out' = [out EXCEPT !["client"] = Frame("client", u)]
      /\ tx' = [tx EXCEPT !["client"] = Written("client", u)]
  BY <1>2 DEF Ask
<1>4. TypeOK /\ Counts /\ InStep /\ Causes /\ "client" \in Ends /\ "server" \in Ends
  BY TwoEnds DEF CInv, SessionInv
<1>5. /\ pc'["client"] = "head" /\ out'["client"] = Frame("client", u)
      /\ tx'["client"] = Written("client", u)
      /\ pc'["server"] = pc["server"] /\ out'["server"] = out["server"]
      /\ tx'["server"] = tx["server"]
  BY <1>1, <1>3, <1>4 DEF TypeOK
<1>6. /\ asked \in Nat /\ Len(answered) = asked /\ Len(got) = asked
      /\ asked + 1 \in Nat /\ asked + 1 > 0 /\ (asked + 1) - 1 = asked
  <2>1. Len(got) <= Len(answered) /\ Len(answered) <= asked /\ asked = Len(got)
    BY <1>1, <1>4 DEF Counts
  <2>2. Len(got) \in Nat /\ Len(answered) \in Nat /\ asked \in Nat
    BY <1>4 DEF TypeOK
  <2> QED
    BY <2>1, <2>2
<1>7. u \in Payloads
  <2>1. n \in Nat
    BY SizesAssumption
  <2>2. \A j \in 1..n : <<"ask", asked + 1, j>> \in Units
    BY <1>6, <2>1 DEF Units
  <2> QED
    BY <1>2, <2>1, <2>2 DEF Request, Payloads
<1>8. Counts'
  <2> DEFINE g == Len(got)
             a == Len(answered)
  <2>1. g <= a /\ a <= asked' /\ asked' <= g + 1 /\ asked' = g + 1
    BY <1>1, <1>6
  <2> HIDE DEF g, a
  <2> QED
    BY <1>1, <1>4, <1>5, <2>1 DEF Counts, g, a
<1>9. \A d \in Ends : Open(d)' = Open(d)
  BY <1>1, <1>5, TwoEnds DEF Open
<1>10. Causes'
  BY <1>1, <1>4, <1>9, CausesKept
<1>11. ASSUME ToServer, psk["client"] = psk["server"] PROVE ToServer'
  <2>1. /\ Idle("client") /\ (psk["client"] # NoPsk => rx["server"] = tx["client"])
        /\ pc["server"] = "head" \/ (pc["server"] = "sniff" /\ psk["server"] = NoPsk)
    BY <1>1, <1>4, <1>11, AskReady
  <2>2. secure["client"] <=> psk["client"] # NoPsk
    BY <1>1, <1>4 DEF CInv, Stage
  <2>3. /\ Within("server", u, 0)'
        /\ Len(Sent("client", u)') \in Nat /\ Len(Sent("client", u)') > 0
    BY <1>1, <1>4, <1>5, <1>7, <1>11, <2>1, <2>2, WithinSent, TwoEnds
  <2>4. 0 # Len(Sent("client", u)')
    BY <2>3
  <2>5. Requested(u, 0)'
    BY <1>1, <1>5, <1>6, <2>1, <2>3, <2>4 DEF Requested
  <2>6. asked' > 0 /\ u = Request(asked', n) /\ 0 \in Nat
    BY <1>1, <1>2, <1>6
  <2> QED
    BY <2>5, <2>6 DEF ToServer
<1>12. ASSUME ToClient PROVE ToClient'
  <2>1. Kept("server")
    <3>1. Intact' => Intact
      BY <1>1, <1>4, <1>9 DEF Intact
    <3> QED
      BY <1>1, <1>4, <1>5, <3>1, KeptStill
  <2>2. CASE answered = <<>>
    <3>1. Idle("server")'
      BY <1>1, <1>12, <2>1, <2>2 DEF ToClient, Kept
    <3> QED
      BY <1>1, <1>5, <1>12, <2>2, <3>1 DEF ToClient
  <2>3. CASE answered # <<>>
    <3>1. PICK r \in Nat : Replied(r)
      BY <1>12, <2>3 DEF ToClient
    <3>2. PICK v : v = answered[Len(answered)]
      OBVIOUS
    <3>3. v \in Payloads
      BY <1>4, <2>3, <3>2, AnswerPayload
    <3>4. Within("client", v, r)' /\ Sent("server", v)' = Sent("server", v)
      BY <1>1, <1>4, <1>5, <2>1, <3>1, <3>2, <3>3, WithinKept, TwoEnds DEF Replied
    <3>5. ~(r < Len(Sent("server", v)))
      BY <1>6, <3>1, <3>2 DEF Replied
    <3>6. Replied(r)'
      BY <1>1, <1>6, <3>1, <3>2, <3>4, <3>5 DEF Replied
    <3> QED
      BY <1>1, <2>3, <3>6 DEF ToClient
  <2> QED
    BY <2>2, <2>3
<1>13. InStep'
  BY <1>1, <1>4, <1>9, <1>11, <1>12 DEF InStep
<1> QED
  BY <1>8, <1>10, <1>13 DEF SessionInv

(***************************************************************************)
(* The server answers the request it has read, which is the last one, when *)
(* the client has read all that came before and waits.                     *)
(***************************************************************************)
LEMMA Answering ==
    ASSUME CInv, SessionInv, pc["server"] = "respond"
    PROVE  /\ psk["client"] = psk["server"] /\ asked > 0 /\ Len(answered) = asked - 1
           /\ acc["server"][1][2] = asked
           /\ \E n \in ReqSizes, r \in Nat :
                 Requested(Request(asked, n), r) /\ r = Len(Sent("client", Request(asked, n)))
<1>1. /\ TypeOK /\ Counts /\ psk["client"] = psk["server"]
      /\ ToServer /\ "client" \in Ends /\ "server" \in Ends
  BY TwoEnds DEF CInv, SessionInv, Matched, Spoken, InStep, Open
<1>2. asked > 0
  <2> SUFFICES ASSUME ~(asked > 0) PROVE FALSE
    OBVIOUS
  <2>1. Greeting
    BY <1>1 DEF ToServer, Silent
  <2>2. PICK r \in 0..3 : pc["server"] = <<"sniff", "mode", "hs", "head">>[r + 1]
    BY <2>1 DEF Greeting
  <2>3. r = 0 \/ r = 1 \/ r = 2 \/ r = 3
    OBVIOUS
  <2> QED
    BY <2>2, <2>3
<1>3. PICK n \in ReqSizes, r \in Nat : Requested(Request(asked, n), r)
  BY <1>1, <1>2 DEF ToServer
<1>4. PICK v : v = Request(asked, n)
  OBVIOUS
<1>5. v \in Payloads /\ v[1][2] = asked
  BY <1>1, <1>2, <1>4, RequestPayload
<1>6. PICK S, F : F = Sent("client", v) /\ F \in Seq(S)
  BY <1>1, <1>5, SentShape
<1>7. /\ Flow("client", F, r) /\ (pc["server"] = "body" <=> r > 0 /\ r < Len(F))
      /\ acc["server"] = v /\ r # 0 /\ Len(answered) = asked - 1
  BY <1>3, <1>4, <1>6, TwoEnds DEF Requested, Within
<1>8. r <= Len(F) /\ Len(F) \in Nat
  BY <1>1, <1>6, <1>7, FlowEnds
<1>9. r = Len(F)
  BY <1>7, <1>8
<1> QED
  BY <1>1, <1>2, <1>3, <1>4, <1>5, <1>6, <1>7, <1>9

LEMMA AnswerReady ==
    ASSUME CInv, Counts, ToClient, Open("client"), asked > 0, Len(answered) = asked - 1
    PROVE  /\ Idle("server") /\ pc["client"] = "head" /\ Len(got) = Len(answered)
           /\ psk["client"] # NoPsk => rx["client"] = tx["server"]
<1>1. TypeOK /\ "client" \in Ends /\ "server" \in Ends
  BY TwoEnds DEF CInv
<1>2. /\ Len(got) \in Nat /\ Len(answered) \in Nat /\ asked \in Nat
      /\ rx["client"] \in Nat /\ tx["server"] \in Nat /\ pc["client"] \in PCs
  BY <1>1 DEF TypeOK
<1>3. Len(got) = Len(answered) /\ asked # 0 /\ asked # Len(got)
  BY <1>2 DEF Counts
<1>4. pc["client"] \in {"head", "body"}
  BY <1>2, <1>3 DEF Counts, PCs, Open
<1>5. CASE answered = <<>>
  BY <1>3, <1>4, <1>5 DEF ToClient
<1>6. CASE answered # <<>>
  <2>1. PICK r \in Nat : Replied(r)
    BY <1>6 DEF ToClient
  <2>2. PICK v : v = answered[Len(answered)]
    OBVIOUS
  <2>3. v \in Payloads
    BY <1>1, <1>6, <2>2, AnswerPayload
  <2>4. PICK S, F : F = Sent("server", v) /\ F \in Seq(S)
    BY <1>1, <2>3, SentShape
  <2>5. /\ Flow("server", F, r) /\ (pc["client"] = "body" <=> r > 0 /\ r < Len(F))
        /\ psk["client"] # NoPsk => rx["client"] + Len(F) = tx["server"] + r
        /\ r < Len(F) => Len(got) < Len(answered)
    BY <2>1, <2>2, <2>4, TwoEnds DEF Replied, Within
  <2>6. r <= Len(F) /\ Len(F) \in Nat
    BY <1>1, <2>4, <2>5, FlowEnds
  <2>7. ~(r < Len(F))
    BY <1>2, <1>3, <2>5
  <2>8. r = Len(F)
    BY <2>6, <2>7
  <2>9. Idle("server")
    BY <1>1, <2>4, <2>5, <2>8, FlowEnds
  <2>10. psk["client"] # NoPsk => rx["client"] = tx["server"]
    <3> DEFINE x == rx["client"]
               y == tx["server"]
    <3>1. x \in Nat /\ y \in Nat /\ (psk["client"] # NoPsk => x + r = y + r)
      BY <1>2, <2>5, <2>8
    <3> HIDE DEF x, y
    <3>2. psk["client"] # NoPsk => x = y
      BY <3>1
    <3> QED
      BY <3>2 DEF x, y
  <2> QED
    BY <1>3, <1>4, <2>5, <2>7, <2>9, <2>10
<1> QED
  BY <1>5, <1>6

LEMMA RespondSession ==
    ASSUME CInv, SessionInv, NEW n \in ReplySizes, Respond(n)
    PROVE  SessionInv'
<1>1. /\ TypeOK /\ Counts /\ InStep /\ Causes /\ "client" \in Ends /\ "server" \in Ends
      /\ pc["server"] = "respond" /\ Open("server")
  BY TwoEnds DEF CInv, SessionInv, Respond, Open
<1>2. /\ psk["client"] = psk["server"] /\ asked > 0 /\ Len(answered) = asked - 1
      /\ acc["server"][1][2] = asked
      /\ \E m \in ReqSizes, r \in Nat :
            Requested(Request(asked, m), r) /\ r = Len(Sent("client", Request(asked, m)))
  BY <1>1, Answering
<1>3. PICK u : u = Reply(asked, n)
  OBVIOUS
<1>4. u \in Payloads
  <2>1. n \in Nat /\ asked \in Nat
    BY <1>1, SizesAssumption DEF TypeOK
  <2>2. \A j \in 1..n : <<"answer", asked, j>> \in Units
    BY <2>1 DEF Units
  <2> QED
    BY <1>3, <2>1, <2>2 DEF Reply, Payloads
<1>5. \/ Close("server", "oversize")
      \/ /\ answered' = Append(answered, u)
         /\ out' = [out EXCEPT !["server"] = Frame("server", u)]
         /\ tx' = [tx EXCEPT !["server"] = Written("server", u)]
         /\ pc' = [pc EXCEPT !["server"] = "head"]
         /\ acc' = [acc EXCEPT !["server"] = <<>>]
         /\ UNCHANGED <<psk, secure, wire, rx, need, why, hung, cut, asked, got>>
  BY <1>2, <1>3 DEF Respond, Goto
<1>6. CASE Close("server", "oversize")
  <2>1. Excused("server", "oversize") /\ "oversize" \in Reasons \ {"open"}
    BY DEF Excused, Reasons, Outside
  <2> QED
    BY <1>1, <1>6, <2>1, CloseSession
<1>7. CASE /\ answered' = Append(answered, u)
           /\ out' = [out EXCEPT !["server"] = Frame("server", u)]
           /\ tx' = [tx EXCEPT !["server"] = Written("server", u)]
           /\ pc' = [pc EXCEPT !["server"] = "head"]
           /\ acc' = [acc EXCEPT !["server"] = <<>>]
           /\ UNCHANGED <<psk, secure, wire, rx, need, why, hung, cut, asked, got>>
  <2>1. /\ pc'["server"] = "head" /\ out'["server"] = Frame("server", u)
        /\ tx'["server"] = Written("server", u)
        /\ pc'["client"] = pc["client"] /\ out'["client"] = out["client"]
        /\ tx'["client"] = tx["client"] /\ acc'["client"] = acc["client"]
    BY <1>1, <1>7 DEF TypeOK
  <2>2. /\ answered \in Seq(Payloads) /\ asked \in Nat /\ got \in Seq(Payloads)
    BY <1>1 DEF TypeOK
  <2>3. /\ Len(answered') = Len(answered) + 1 /\ answered' # <<>>
        /\ answered'[Len(answered')] = u
    <3>1. Len(answered) \in Nat
      BY <2>2
    <3>2. Len(Append(answered, u)) = Len(answered) + 1
          /\ Append(answered, u)[Len(answered) + 1] = u
      BY <1>4, <2>2, AppendProperties
    <3>3. Append(answered, u) # <<>>
      BY <3>1, <3>2
    <3> QED
      BY <1>7, <3>2, <3>3
  <2>4. Len(answered) \in Nat /\ Len(got) \in Nat /\ Len(answered') = asked
    BY <1>2, <2>2, <2>3
  <2>5. Counts'
    <3> DEFINE g == Len(got)
               a == Len(answered')
    <3>1. g <= a /\ a <= asked
      BY <1>1, <1>2, <2>3, <2>4 DEF Counts
    <3> HIDE DEF g, a
    <3> QED
      BY <1>1, <1>7, <2>1, <3>1 DEF Counts, g, a
  <2>6. \A d \in Ends : Open(d)' = Open(d)
    BY <1>1, <2>1, TwoEnds DEF Open
  <2>7. Causes'
    BY <1>1, <1>7, <2>6, CausesKept
  <2>8. ToServer'
    <3>1. PICK m \in ReqSizes, r \in Nat :
             Requested(Request(asked, m), r) /\ r = Len(Sent("client", Request(asked, m)))
      BY <1>2
    <3>2. PICK v : v = Request(asked, m)
      OBVIOUS
    <3>3. v \in Payloads
      BY <1>1, <1>2, <3>2, RequestPayload
    <3>4. Len(Sent("client", v)) \in Nat /\ Len(Sent("client", v)) > 0
      BY <1>1, <3>3, SentShape
    <3>5. Kept("client")
      <4>1. Intact' => Intact
        BY <1>1, <1>7, <2>6 DEF Intact
      <4> QED
        BY <1>1, <1>7, <2>1, <4>1, KeptStill
    <3>6. Within("server", v, r)' /\ Sent("client", v)' = Sent("client", v)
      BY <1>1, <1>7, <2>1, <3>1, <3>2, <3>3, <3>5, WithinKept, TwoEnds DEF Requested
    <3>7. r = Len(Sent("client", v)) /\ r # 0
      BY <3>1, <3>2, <3>4
    <3>8. Requested(v, r)'
      BY <1>7, <2>1, <2>4, <3>6, <3>7 DEF Requested
    <3>9. asked' > 0 /\ v = Request(asked', m)
      BY <1>2, <1>7, <3>2
    <3> QED
      BY <3>8, <3>9 DEF ToServer
  <2>9. ASSUME Open("client") PROVE ToClient'
    <3>1. ToClient
      BY <1>1, <1>2, <2>9 DEF InStep
    <3>2. /\ Idle("server") /\ pc["client"] = "head" /\ Len(got) = Len(answered)
          /\ psk["client"] # NoPsk => rx["client"] = tx["server"]
      BY <1>1, <1>2, <2>9, <3>1, AnswerReady
    <3>3. secure["server"] <=> psk["server"] # NoPsk
      BY <1>1 DEF CInv, Stage
    <3>4. /\ Within("client", u, 0)'
          /\ Len(Sent("server", u)') \in Nat /\ Len(Sent("server", u)') > 0
      BY <1>1, <1>2, <1>4, <1>7, <2>1, <3>2, <3>3, WithinSent, TwoEnds
    <3>5. 0 # Len(Sent("server", u)') /\ Len(got) < Len(answered')
      BY <2>3, <2>4, <3>2, <3>4
    <3>6. Replied(0)'
      BY <1>7, <2>1, <2>3, <3>2, <3>4, <3>5 DEF Replied
    <3> QED
      BY <2>3, <3>6 DEF ToClient
  <2>10. InStep'
    BY <1>1, <1>7, <2>6, <2>8, <2>9 DEF InStep
  <2> QED
    BY <2>5, <2>7, <2>10 DEF SessionInv
<1> QED
  BY <1>5, <1>6, <1>7

-----------------------------------------------------------------------------
(***************************************************************************)
(* The two ends never wait for one another: not for a piece, not for room  *)
(* to write one, and not one for the first and one for the second.         *)
(***************************************************************************)
LEMMA NotBothWrite ==
    ASSUME CInv, SessionInv, psk["client"] = psk["server"], Open("client"), Open("server"),
           wire["client"] # <<>>, wire["server"] # <<>>, out["server"] # <<>>
    PROVE  FALSE
<1>1. /\ TypeOK /\ Counts /\ ToServer /\ ToClient /\ "client" \in Ends /\ "server" \in Ends
  BY TwoEnds DEF CInv, SessionInv, InStep
<1>2. Len(got) \in Nat /\ Len(answered) \in Nat /\ asked \in Nat
  BY <1>1 DEF TypeOK
<1>3. CASE answered = <<>>
  <2>1. Flow("server", Welcome, 0)
    BY <1>1, <1>3 DEF ToClient, Idle
  <2> DEFINE w == wire["server"]
             o == out["server"]
  <2>2. w \in Seq(Pieces) /\ o \in Seq(Pieces) /\ w # <<>> /\ o # <<>> /\ 0 + Len(w) + Len(o) <= 1
    BY <1>1, <2>1, WelcomeShape DEF TypeOK, Flow
  <2> HIDE DEF w, o
  <2>3. Len(w) \in Nat /\ Len(o) \in Nat /\ Len(w) # 0 /\ Len(o) # 0
    BY <2>2
  <2> QED
    BY <2>2, <2>3
<1>4. CASE answered # <<>>
  <2>1. PICK r \in Nat : Replied(r)
    BY <1>1, <1>4 DEF ToClient
  <2>2. PICK u \in Payloads : u = answered[Len(answered)]
    BY <1>1, <1>4, AnswerPayload
  <2>3. r < Len(Sent("server", u))
    BY <1>1, <2>1, <2>2, NextPiece, TwoEnds DEF Replied
  <2>4. Len(got) < Len(answered)
    BY <2>1, <2>2, <2>3 DEF Replied
  <2>5. asked > 0 /\ Len(answered) = asked
    BY <1>1, <1>2, <2>4 DEF Counts
  <2>6. PICK n \in ReqSizes, s \in Nat : Requested(Request(asked, n), s)
    BY <1>1, <2>5 DEF ToServer
  <2>7. Request(asked, n) \in Payloads
    BY <1>1, <2>5, RequestPayload
  <2>8. Len(answered) = asked - 1
    BY <1>1, <2>6, <2>7, RequestedRead
  <2> QED
    BY <1>2, <2>5, <2>8
<1> QED
  BY <1>3, <1>4

LEMMA NotBothRead ==
    ASSUME CInv, SessionInv, psk["client"] = psk["server"], Intact,
           Idle("client"), Idle("server"), pc["client"] \in {"hs", "head", "body"},
           pc["server"] \in {"sniff", "mode", "hs", "head", "body"}
    PROVE  FALSE
<1>1. /\ TypeOK /\ Counts /\ ToServer /\ ToClient /\ "client" \in Ends /\ "server" \in Ends
  BY TwoEnds DEF CInv, SessionInv, InStep, Intact
<1>2. Len(got) \in Nat /\ Len(answered) \in Nat /\ asked \in Nat
  BY <1>1 DEF TypeOK
<1>3. CASE pc["client"] = "hs"
  <2>1. asked = 0 /\ answered = <<>> /\ psk["client"] # NoPsk
    BY <1>1, <1>3, NoneAnswered DEF Counts, CInv, Stage
  <2>2. pc["server"] \in Greets
    <3> SUFFICES ASSUME pc["server"] \notin Greets PROVE FALSE
      OBVIOUS
    <3>1. Flow("server", Welcome, 0)
      BY <1>1, <1>3, <2>1 DEF ToClient, Greets
    <3>2. PICK W : W = Welcome
      OBVIOUS
    <3>3. W \in Seq({Hs(psk["server"])}) /\ Len(W) = 1
      BY <3>2, WelcomeShape
    <3>4. 0 = Len(W)
      BY <1>1, <3>1, <3>2, <3>3, FlowEnds
    <3> QED
      BY <3>3, <3>4
  <2>3. Greeting
    BY <1>1, <1>2, <1>3, <2>1 DEF ToServer, Silent
  <2>4. PICK r \in 0..3 : /\ Flow("client", Hello, r)
                          /\ pc["server"] = <<"sniff", "mode", "hs", "head">>[r + 1]
    BY <2>3 DEF Greeting
  <2>5. PICK H : H = Hello
    OBVIOUS
  <2>6. H \in Seq({Selector, Mode, Hs(psk["client"])}) /\ Len(H) = 3
    BY <2>5, HelloShape
  <2>7. r = 3
    <3>1. r \in Nat /\ Flow("client", H, r)
      BY <2>4, <2>5
    <3>2. r = Len(H)
      BY <1>1, <2>6, <3>1, FlowEnds
    <3> QED
      BY <2>6, <3>2
  <2> QED
    BY <2>2, <2>4, <2>7 DEF Greets
<1>4. CASE pc["client"] \in {"head", "body"}
  <2>1. asked = Len(got) + 1 /\ asked > 0
    BY <1>1, <1>2, <1>4 DEF Counts
  <2>2. PICK n \in ReqSizes, r \in Nat : Requested(Request(asked, n), r)
    BY <1>1, <2>1 DEF ToServer
  <2>3. PICK v : v = Request(asked, n)
    OBVIOUS
  <2>4. v \in Payloads
    BY <1>1, <2>1, <2>3, RequestPayload
  <2>5. PICK S, F : F = Sent("client", v) /\ F \in Seq(S)
    BY <1>1, <2>4, SentShape
  <2>6. /\ Flow("client", F, r) /\ (r = Len(F) => pc["server"] \in {"head", "respond"})
        /\ Len(answered) = IF r = Len(F) /\ pc["server"] = "head" THEN asked ELSE asked - 1
    BY <2>2, <2>3, <2>5, TwoEnds DEF Requested, Within
  <2>7. r = Len(F)
    BY <1>1, <2>5, <2>6, FlowEnds
  <2>8. Len(answered) = Len(got) + 1
    BY <2>1, <2>6, <2>7
  <2>9. answered # <<>>
    BY <1>2, <2>8
  <2>10. PICK s \in Nat : Replied(s)
    BY <1>1, <2>9 DEF ToClient
  <2>11. PICK u : u = answered[Len(answered)]
    OBVIOUS
  <2>12. u \in Payloads
    BY <1>1, <2>9, <2>11, AnswerPayload
  <2>13. PICK T, G : G = Sent("server", u) /\ G \in Seq(T)
    BY <1>1, <2>12, SentShape
  <2>14. Flow("server", G, s) /\ (s = Len(G) => Len(got) = Len(answered))
    BY <2>10, <2>11, <2>13, TwoEnds DEF Replied, Within
  <2>15. s = Len(G)
    BY <1>1, <2>13, <2>14, FlowEnds
  <2> QED
    BY <1>2, <2>8, <2>14, <2>15
<1> QED
  BY <1>3, <1>4

LEMMA NoDeadlock ==
    ASSUME CInv, SessionInv, psk["client"] = psk["server"], Stalled("client"), Stalled("server")
    PROVE  FALSE
<1>1. /\ Open("client") /\ Open("server") /\ ~cut
      /\ IF out["client"] = <<>>
         THEN pc["client"] \in {"sniff", "mode", "hs", "head", "body"} /\ wire["server"] = <<>>
         ELSE Len(wire["client"]) >= Room
      /\ IF out["server"] = <<>>
         THEN pc["server"] \in {"sniff", "mode", "hs", "head", "body"} /\ wire["client"] = <<>>
         ELSE Len(wire["server"]) >= Room
  BY TwoEnds DEF Stalled
<1>2. Len(wire["client"]) >= Room => wire["client"] # <<>>
  BY SizesAssumption
<1>3. Len(wire["server"]) >= Room => wire["server"] # <<>>
  BY SizesAssumption
<1>4. CASE out["client"] # <<>>
  BY <1>1, <1>2, <1>3, <1>4, NotBothWrite
<1>5. CASE out["client"] = <<>>
  <2>1. /\ Idle("client") /\ Idle("server") /\ pc["client"] \in {"hs", "head", "body"}
        /\ pc["server"] \in {"sniff", "mode", "hs", "head", "body"}
    BY <1>1, <1>3, <1>5 DEF Idle, SessionInv, Counts
  <2> QED
    BY <1>1, <2>1, NotBothRead DEF Intact
<1> QED
  BY <1>4, <1>5

LEMMA EndSession ==
    ASSUME CInv, SessionInv, NEW e \in Ends,
           WriteError(e) \/ EndOfStream(e) \/ Timeout(e) \/ Kill(e)
    PROVE  SessionInv'
<1>1. "lost" \in Reasons \ {"open"} /\ "slow" \in Reasons \ {"open"} /\ "killed" \in Reasons \ {"open"}
      /\ "deadlock" \in Reasons \ {"open"}
  BY DEF Reasons
<1>2. CASE WriteError(e) \/ EndOfStream(e)
  <2>1. Open(e) /\ Close(e, "lost") /\ (cut \/ ~Open(Peer(e)))
    BY <1>2 DEF WriteError, EndOfStream, Runs, Reads, WriteFails
  <2>2. Excused(e, "lost")
    BY <2>1 DEF Excused
  <2> QED
    BY <1>1, <2>1, <2>2, CloseSession
<1>3. CASE Kill(e)
  BY <1>1, <1>3, CloseSession DEF Kill, Excused, Outside
<1>4. CASE Timeout(e)
  <2>1. CASE Stalled(Peer(e)) /\ ~hung[Peer(e)]
    <3>1. Open(e) /\ Close(e, "deadlock") /\ Stalled(e)
      BY <1>4, <2>1 DEF Timeout, Stalled
    <3>2. Stalled("client") /\ Stalled("server")
      BY <2>1, <3>1, TwoEnds
    <3>3. Excused(e, "deadlock")
      BY <3>2, NoDeadlock DEF Excused
    <3> QED
      BY <1>1, <3>1, <3>3, CloseSession
  <2>2. CASE ~(Stalled(Peer(e)) /\ ~hung[Peer(e)])
    <3>1. Open(e) /\ Close(e, "slow")
      BY <1>4, <2>2 DEF Timeout, Stalled
    <3> QED
      BY <1>1, <3>1, CloseSession DEF Excused, Outside
  <2> QED
    BY <2>1, <2>2
<1> QED
  BY <1>2, <1>3, <1>4

LEMMA NextSession == CInv /\ SessionInv /\ [Next]_vars => SessionInv'
<1> SUFFICES ASSUME CInv, SessionInv, [Next]_vars PROVE SessionInv'
  OBVIOUS
<1>0. TypeOK
  BY DEF CInv
<1>1. ASSUME NEW e \in Ends, Flush(e) PROVE SessionInv'
  <2>1. \A d \in Ends : Kept(d)
    BY <1>0, <1>1, KeptFlush
  <2> QED
    BY <1>1, <2>1, QuietSession DEF Flush, readVars, rpcVars
<1>2. ASSUME NEW e \in Ends, WriteError(e) \/ EndOfStream(e) \/ Timeout(e) \/ Kill(e)
      PROVE  SessionInv'
  BY <1>2, EndSession
<1>3. ASSUME NEW e \in Ends, Handshake(e) \/ ReadHead(e) \/ ReadPlain(e) \/ ReadPart(e)
      PROVE  SessionInv'
  BY <1>3, ServerHandshake, ClientHandshake, ServerReads, ClientReads, TwoEnds
<1>4. CASE Done \/ RespondFails
  BY <1>4, CloseSession, TwoEnds DEF Done, RespondFails, Runs, Reasons, Excused, Outside
<1>5. CASE ClientHello \/ SniffSelector \/ ReadMode \/ SniffPlain
  BY <1>5, ClientHelloSession, SniffSelectorSession, ReadModeSession, SniffPlainSession
<1>6. CASE \E n \in ReqSizes : Ask(n)
  BY <1>6, AskSession
<1>7. CASE \E n \in ReplySizes : Respond(n)
  BY <1>7, RespondSession
<1>8. CASE Break
  <2>1. \A d \in Ends : Kept(d)
    BY <1>0, <1>8, KeptBreak
  <2> QED
    BY <1>8, <2>1, QuietSession DEF Break, readVars, rpcVars
<1>9. ASSUME NEW e \in Ends, Hang(e) PROVE SessionInv'
  <2>1. \A d \in Ends : Kept(d)
    BY <1>9, KeptStill DEF Hang, Intact, Open
  <2>2. \A d \in Ends : hung[d] => hung'[d]
    BY <1>0, <1>9 DEF Hang, TypeOK
  <2> QED
    BY <1>9, <2>1, <2>2, QuietSession DEF Hang, readVars, rpcVars
<1>10. CASE UNCHANGED vars
  <2>1. \A d \in Ends : Kept(d)
    BY <1>10, KeptStill DEF vars, Intact, Open
  <2> QED
    BY <1>10, <2>1, QuietSession DEF vars, readVars, rpcVars
<1> QED
  BY <1>1, <1>2, <1>3, <1>4, <1>5, <1>6, <1>7, <1>8, <1>9, <1>10, TwoEnds
     DEF Next, Client, Server, Common, Fault

LEMMA SpecSession == Spec => [](CInv /\ SessionInv)
<1>1. Init => CInv /\ SessionInv
  BY InitCInv, InitSession
<1>2. (CInv /\ SessionInv) /\ [Next]_vars => (CInv /\ SessionInv)'
  BY NextCInv, NextSession
<1> QED
  BY <1>1, <1>2, PTL DEF Spec

(***************************************************************************)
(* A pull fails only for a reason outside the session: the two ends never  *)
(* wait for one another, and the streams never get out of step, whatever   *)
(* the sizes of frames and messages and however small the streams.         *)
(***************************************************************************)
THEOREM SessionFailsForCause == Spec => []FailsForCause
<1>1. CInv /\ SessionInv => FailsForCause
  BY DEF SessionInv, Causes
<1> QED
  BY <1>1, SpecSession, PTL

-----------------------------------------------------------------------------
(* The session implements Rpc.                                             *)

LEMMA RpcStep ==
    ASSUME CInv, SessionInv, [Next]_vars
    PROVE  [R!Next]_(R!vars)
<1>1. TypeOK /\ Counts
  BY DEF CInv, SessionInv
<1>2. CASE UNCHANGED <<asked, answered, got>>
  BY <1>2 DEF R!vars
<1>3. ASSUME NEW n \in ReqSizes, Ask(n) PROVE R!Next
  BY <1>1, <1>3 DEF Ask, Counts, R!Next, R!Ask
<1>4. ASSUME NEW n \in ReplySizes, Respond(n), ~UNCHANGED <<asked, answered, got>> PROVE R!Next
  <2>1. /\ answered' = Append(answered, Reply(acc["server"][1][2], n))
        /\ UNCHANGED <<asked, got>> /\ pc["server"] = "respond"
    BY <1>4 DEF Respond, Close, rpcVars
  <2>2. asked > 0 /\ Len(answered) = asked - 1 /\ acc["server"][1][2] = asked
    BY <2>1, Answering
  <2>3. Len(answered) < asked
    BY <1>1, <2>2 DEF TypeOK
  <2>4. Reply(asked, n) \in ReplyTo(asked)
    BY DEF ReplyTo
  <2> QED
    BY <2>1, <2>2, <2>3, <2>4 DEF R!Next, R!Answer
<1>5. ASSUME ReadHead("client") \/ ReadPlain("client") \/ ReadPart("client"),
             ~UNCHANGED <<asked, answered, got>>
      PROVE  R!Next
  <2>1. /\ pc["client"] \in {"head", "body"} /\ wire["server"] # <<>>
        /\ InStep /\ "client" \in Ends /\ "server" \in Ends /\ Open("client")
    BY <1>5, TwoEnds DEF ReadHead, ReadPlain, ReadPart, Arrived, SessionInv, Open
  <2>2. psk["client"] = psk["server"]
    BY <2>1 DEF CInv, Matched, Spoken
  <2>3. /\ answered # <<>> /\ answered[Len(answered)] \in Payloads
        /\ \E r \in Nat : Replied(r)
    BY <2>1, <2>2, ClientAnswer DEF InStep
  <2>4. PICK r \in Nat : Replied(r)
    BY <2>3
  <2>5. PICK u \in Payloads : u = answered[Len(answered)]
    BY <2>3
  <2>6. Within("client", u, r)
    BY <2>4, <2>5 DEF Replied
  <2>7. Close("client", "oversize") \/ Took("client", u, r)
    BY <1>5, <2>1, <2>2, <2>6, FrameRead, TwoEnds
  <2>8. Took("client", u, r)
    BY <1>5, <2>7 DEF Close, rpcVars
  <2>9. got' = Append(got, u) /\ UNCHANGED <<asked, answered>>
    BY <1>5, <2>8 DEF Took
  <2>10. Len(got) + 1 = Len(answered)
    BY <2>1, <2>2, <2>3, <2>4, <2>5, <2>8, ClientTook
  <2>11. Len(got) < Len(answered)
    BY <1>1, <2>10 DEF TypeOK
  <2> QED
    BY <2>5, <2>9, <2>10, <2>11 DEF R!Next, R!Accept
<1>6. ASSUME NEW e \in Ends, Flush(e) \/ WriteError(e) \/ EndOfStream(e) \/ Timeout(e)
             \/ Handshake(e) \/ Kill(e) \/ Hang(e)
      PROVE  UNCHANGED <<asked, answered, got>>
  BY <1>6 DEF Flush, WriteError, EndOfStream, Timeout, Handshake, Kill, Hang, Close, rpcVars
<1>7. ASSUME ReadHead("server") \/ ReadPlain("server") \/ ReadPart("server")
      PROVE  UNCHANGED <<asked, answered, got>>
  BY <1>7 DEF ReadHead, ReadPlain, ReadPart, Deliver, Close, rpcVars
<1>8. ASSUME ClientHello \/ Done \/ SniffSelector \/ ReadMode \/ SniffPlain \/ RespondFails
             \/ Break \/ UNCHANGED vars
      PROVE  UNCHANGED <<asked, answered, got>>
  BY <1>8 DEF ClientHello, Done, SniffSelector, ReadMode, SniffPlain, RespondFails, Break,
              Close, vars, rpcVars
<1> QED
  BY <1>2, <1>3, <1>4, <1>5, <1>6, <1>7, <1>8, TwoEnds
     DEF Next, Client, Server, Common, Fault

(***************************************************************************)
(* Whatever is cut, killed, hung or slow, and however frames are split     *)
(* into messages: an answer is handed over whole, once, in order and to    *)
(* its own request, or not at all.                                         *)
(***************************************************************************)
THEOREM ImplementsRpc == Spec => RpcSpec
<1>1. Init => R!Init
  BY DEF Init, R!Init
<1>2. (CInv /\ SessionInv) /\ [Next]_vars => [R!Next]_(R!vars)
  BY RpcStep
<1> QED
  BY <1>1, <1>2, SpecSession, PTL DEF Spec, RpcSpec, R!Spec
=============================================================================
