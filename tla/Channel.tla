------------------------------- MODULE Channel -------------------------------
(***************************************************************************)
(* One sync connection: the client of a pull and the thread that serves it *)
(* (pull and serve_conn in src/src/sync.rs), over plain frames or over the *)
(* Noise channel of src/src/secure.rs.                                     *)
(*                                                                         *)
(* A TCP stream is a queue of the pieces one read takes off it: the        *)
(* protocol selector, a handshake message, a length, the bytes of a plain  *)
(* frame, a Noise message.  It has room for a few of them, so a writer can *)
(* block.  A frame is a sequence of units; a Noise message carries at most *)
(* MsgCap of them and decrypts only under the key and the counter it was   *)
(* written with (snow, external).  Keys are compared, never computed.      *)
(*                                                                         *)
(* Either end can be killed, fall silent for good or be slow enough for    *)
(* the other one's timeout, and the connection can break with any part of  *)
(* what is in flight still delivered.                                      *)
(***************************************************************************)
EXTENDS Integers, Sequences

CONSTANTS
    Psks,         \* passphrases
    NoPsk,        \* an end without --psk
    MaxReqs,      \* bound: requests of one pull
    ReqSizes,     \* units of a request frame
    ReplySizes,   \* units of a response frame
    MsgCap,       \* PLAINTEXT_MSG: units in a Noise message
    MaxFrame,     \* MAX_FRAME: units a reader accepts in a frame
    Room          \* bound: pieces a stream holds before the writer blocks

ASSUME SizesAssumption ==
    /\ MaxReqs \in Nat /\ ReqSizes \subseteq Nat \ {0} /\ ReplySizes \subseteq Nat
    /\ MsgCap \in Nat \ {0} /\ MaxFrame \in Nat /\ Room \in Nat \ {0}
ASSUME PskAssumption == NoPsk \notin Psks

Ends == {"client", "server"}

Peer(e) == IF e = "client" THEN "server" ELSE "client"

VARIABLES
    psk,          \* per end: its passphrase or NoPsk
    pc,           \* per end: what it does next
    secure,       \* per end: its FrameIo is Secure
    out,          \* per end: pieces it still has to write
    wire,         \* per end: pieces it wrote that were not read yet
    tx, rx,       \* per end: Noise counters of messages written and read
    need, acc,    \* per end: units announced for and read of the present frame
    why,          \* per end: why it closed its socket
    hung,         \* per end: it has stopped running
    cut,          \* the connection is broken
    asked, answered, got    \* history: requests, answers given, answers accepted

rpcVars  == <<asked, answered, got>>
readVars == <<tx, rx, need, acc>>
vars == <<psk, pc, secure, out, wire, readVars, why, hung, cut, rpcVars>>

PCs == {"hello", "sniff", "mode", "hs", "ask", "head", "body", "respond", "closed"}

Reasons == {"open", "done", "lost", "refused", "garbled", "oversize", "empty", "error",
            "slow", "deadlock", "killed"}

Open(e) == pc[e] # "closed"

-----------------------------------------------------------------------------
(* Pieces of a stream.                                                     *)

Selector == [t |-> "selector"]               \* PROTO_MAGIC
Mode     == [t |-> "mode"]                   \* PROTO_VERSION, MODE_NOISE
Hs(k)    == [t |-> "hs", k |-> k]            \* a handshake message under k
Size(n)  == [t |-> "size", n |-> n]          \* u32 length of a plain frame
Bytes(u) == [t |-> "bytes", u |-> u]         \* the payload of a plain frame

\* Noise messages: the length of a frame, a part of its payload.
Head4(k, c, n) == [t |-> "head", k |-> k, c |-> c, n |-> n]
Part(k, c, u)  == [t |-> "part", k |-> k, c |-> c, u |-> u]

(***************************************************************************)
(* payload.chunks(PLAINTEXT_MSG): part i of a payload, and how many.       *)
(***************************************************************************)
Parts(u) == (Len(u) + MsgCap - 1) \div MsgCap

Chunk(u, i) == SubSeq(u, (i - 1) * MsgCap + 1,
                      IF i * MsgCap < Len(u) THEN i * MsgCap ELSE Len(u))

(***************************************************************************)
(* write_frame: what a frame with payload u is on the wire, written by an  *)
(* end with key k whose next Noise counter is c.                           *)
(***************************************************************************)
PlainFrame(u) == IF u = <<>> THEN <<Size(0)>> ELSE <<Size(Len(u)), Bytes(u)>>

NoiseFrame(k, c, u) ==
    <<Head4(k, c, Len(u))>> \o [i \in 1..Parts(u) |-> Part(k, c + i, Chunk(u, i))]

Frame(e, u) == IF secure[e] THEN NoiseFrame(psk[e], tx[e], u) ELSE PlainFrame(u)

Written(e, u) == IF secure[e] THEN tx[e] + 1 + Parts(u) ELSE tx[e]

\* Unit j of request q, and of the answer to it.
Request(q, n) == [j \in 1..n |-> <<"ask", q, j>>]
Reply(q, n)   == [j \in 1..n |-> <<"answer", q, j>>]

-----------------------------------------------------------------------------
Init ==
    /\ psk \in [Ends -> Psks \cup {NoPsk}]
    /\ pc = [e \in Ends |-> IF e = "client" THEN "hello" ELSE "sniff"]
    /\ secure = [e \in Ends |-> FALSE]
    /\ out = [e \in Ends |-> <<>>]
    /\ wire = [e \in Ends |-> <<>>]
    /\ tx = [e \in Ends |-> 0]
    /\ rx = [e \in Ends |-> 0]
    /\ need = [e \in Ends |-> 0]
    /\ acc = [e \in Ends |-> <<>>]
    /\ why = [e \in Ends |-> "open"]
    /\ hung = [e \in Ends |-> FALSE]
    /\ cut = FALSE
    /\ asked = 0 /\ answered = <<>> /\ got = <<>>

Goto(e, l) == pc' = [pc EXCEPT ![e] = l]

(***************************************************************************)
(* An end returns and its socket is closed: what it wrote can still be     *)
(* read, what it had not written or not read is gone.                      *)
(***************************************************************************)
Close(e, reason) ==
    /\ Goto(e, "closed")
    /\ why' = [why EXCEPT ![e] = reason]
    /\ out' = [out EXCEPT ![e] = <<>>]
    /\ wire' = [wire EXCEPT ![Peer(e)] = <<>>]
    /\ UNCHANGED <<psk, secure, readVars, hung, cut, rpcVars>>

Runs(e) == Open(e) /\ ~hung[e]

\* An end reads only after write_all returned.
Reads(e) == Runs(e) /\ out[e] = <<>> /\ pc[e] \in {"sniff", "mode", "hs", "head", "body"}

Piece(e) == Head(wire[Peer(e)])

Arrived(e) == Reads(e) /\ wire[Peer(e)] # <<>>

Consumed(e) == [wire EXCEPT ![Peer(e)] = Tail(@)]

-----------------------------------------------------------------------------
(* Writing.                                                                *)

WriteFails(e) == cut \/ ~Open(Peer(e))

Flush(e) ==
    /\ Runs(e)
    /\ out[e] # <<>>
    /\ ~WriteFails(e)
    /\ Len(wire[e]) < Room
    /\ wire' = [wire EXCEPT ![e] = Append(@, Head(out[e]))]
    /\ out' = [out EXCEPT ![e] = Tail(@)]
    /\ UNCHANGED <<psk, secure, pc, readVars, why, hung, cut, rpcVars>>

WriteError(e) == Runs(e) /\ out[e] # <<>> /\ WriteFails(e) /\ Close(e, "lost")

-----------------------------------------------------------------------------
(* SecureStream::connect, hs_initiator and hs_responder, and the part of   *)
(* serve_conn that sniffs the first four bytes.                            *)

ClientHello ==
    /\ Runs("client")
    /\ pc["client"] = "hello"
    /\ IF psk["client"] = NoPsk
       THEN Goto("client", "ask") /\ UNCHANGED <<secure, out>>
       ELSE /\ Goto("client", "hs")
            /\ secure' = [secure EXCEPT !["client"] = TRUE]
            /\ out' = [out EXCEPT !["client"] = <<Selector, Mode, Hs(psk["client"])>>]
    /\ UNCHANGED <<psk, wire, readVars, why, hung, cut, rpcVars>>

\* What may follow the selector, and whether a plain client is served.
ServesNoise == psk["server"] # NoPsk

ServesAny   == TRUE
ServesPlain == psk["server"] = NoPsk

SniffSelector ==
    /\ Arrived("server")
    /\ pc["server"] = "sniff"
    /\ Piece("server") = Selector
    /\ Goto("server", "mode")
    /\ wire' = Consumed("server")
    /\ UNCHANGED <<psk, secure, out, readVars, why, hung, cut, rpcVars>>

ReadMode ==
    /\ Arrived("server")
    /\ pc["server"] = "mode"
    /\ \/ /\ ServesNoise
          /\ Goto("server", "hs")
          /\ secure' = [secure EXCEPT !["server"] = TRUE]
          /\ wire' = Consumed("server")
          /\ UNCHANGED <<psk, out, readVars, why, hung, cut, rpcVars>>
       \/ ~ServesNoise /\ Close("server", "refused")

\* The four bytes were the length of a legacy client's first frame.
SniffPlain ==
    /\ Arrived("server")
    /\ pc["server"] = "sniff"
    /\ Piece("server") # Selector
    /\ LET n == Piece("server").n
           ok == ServesPlain /\ n \in 1..MaxFrame
       IN \/ /\ ok
             /\ Goto("server", "body")
             /\ need' = [need EXCEPT !["server"] = n]
             /\ wire' = Consumed("server")
             /\ UNCHANGED <<psk, secure, out, tx, rx, acc, why, hung, cut, rpcVars>>
          \/ ~ok /\ Close("server", IF ServesPlain THEN "oversize" ELSE "refused")

\* The responder answers; the initiator goes on to its first request.
Handshake(e) ==
    /\ Arrived(e)
    /\ pc[e] = "hs"
    /\ \/ /\ Piece(e) = Hs(psk[e])
          /\ wire' = Consumed(e)
          /\ Goto(e, IF e = "client" THEN "ask" ELSE "head")
          /\ out' = IF e = "client" THEN out ELSE [out EXCEPT ![e] = <<Hs(psk[e])>>]
          /\ UNCHANGED <<psk, secure, readVars, why, hung, cut, rpcVars>>
       \/ Piece(e) # Hs(psk[e]) /\ Close(e, "refused")

-----------------------------------------------------------------------------
(* read_frame, of either transport.                                        *)

\* A complete frame u: the caller goes on.  An empty request ends a session.
Deliver(e, u) ==
    /\ wire' = Consumed(e)
    /\ need' = [need EXCEPT ![e] = 0]
    /\ acc' = [acc EXCEPT ![e] = IF e = "client" THEN <<>> ELSE u]
    /\ got' = IF e = "client" THEN Append(got, u) ELSE got
    /\ Goto(e, IF e = "client" THEN "ask" ELSE "respond")
    /\ UNCHANGED <<psk, secure, out, tx, why, hung, cut, asked, answered>>

\* transport.read_message
Decrypts(e) == Piece(e).k = psk[e] /\ Piece(e).c = rx[e]

HeadFits(n) == n <= MaxFrame

ReadHead(e) ==
    /\ Arrived(e)
    /\ pc[e] = "head"
    /\ LET m  == Piece(e)
           ok == IF secure[e] THEN m.t = "head" /\ Decrypts(e) ELSE m.t = "size"
       IN \/ ~ok /\ Close(e, "garbled")
          \/ ok /\ ~HeadFits(m.n) /\ Close(e, "oversize")
          \/ ok /\ m.n = 0 /\ e = "server" /\ Close(e, "empty")
          \/ /\ ok /\ m.n = 0 /\ e = "client"
             /\ rx' = [rx EXCEPT ![e] = IF secure[e] THEN @ + 1 ELSE @]
             /\ Deliver(e, <<>>)
          \/ /\ ok /\ HeadFits(m.n) /\ m.n > 0
             /\ rx' = [rx EXCEPT ![e] = IF secure[e] THEN @ + 1 ELSE @]
             /\ need' = [need EXCEPT ![e] = m.n]
             /\ acc' = [acc EXCEPT ![e] = <<>>]
             /\ Goto(e, "body")
             /\ wire' = Consumed(e)
             /\ UNCHANGED <<psk, secure, out, tx, why, hung, cut, rpcVars>>

ReadPlain(e) ==
    /\ Arrived(e)
    /\ pc[e] = "body"
    /\ ~secure[e]
    /\ Piece(e).t = "bytes"
    /\ rx' = rx
    /\ Deliver(e, Piece(e).u)

\* The loop of SecureStream::read_frame takes messages until it has them all.
TooSoon(e, u) == Len(u) + 1 >= need[e]
TooLate(e, u) == Len(u) > need[e]
Enough(e, u)  == Len(u) >= need[e]

ReadPart(e) ==
    /\ Arrived(e)
    /\ pc[e] = "body"
    /\ secure[e]
    /\ LET m  == Piece(e)
           ok == /\ m.t = "part" /\ Decrypts(e)
                 /\ Len(m.u) > 0 /\ Len(acc[e]) + Len(m.u) <= need[e]
           u  == acc[e] \o m.u
       IN \/ ~ok /\ Close(e, "garbled")
          \/ /\ ok /\ ~Enough(e, u)
             /\ rx' = [rx EXCEPT ![e] = @ + 1]
             /\ acc' = [acc EXCEPT ![e] = u]
             /\ wire' = Consumed(e)
             /\ UNCHANGED <<psk, secure, pc, out, tx, need, why, hung, cut, rpcVars>>
          \/ /\ ok /\ Enough(e, u)
             /\ rx' = [rx EXCEPT ![e] = @ + 1]
             /\ Deliver(e, u)

-----------------------------------------------------------------------------
(* The client asks, or is through; the server answers from its store.      *)

Ask(n) ==
    /\ Runs("client")
    /\ pc["client"] = "ask"
    /\ asked < MaxReqs
    /\ asked' = asked + 1
    /\ out' = [out EXCEPT !["client"] = Frame("client", Request(asked + 1, n))]
    /\ tx' = [tx EXCEPT !["client"] = Written("client", Request(asked + 1, n))]
    /\ Goto("client", "head")
    /\ UNCHANGED <<psk, secure, wire, rx, need, acc, why, hung, cut, answered, got>>

\* pull returns: it has what it wanted, or rejects what it was sent.
Done == Runs("client") /\ pc["client"] = "ask" /\ Close("client", "done")

\* SecureStream::write_frame refuses what the reader would not accept.
Sendable(u) == ~secure["server"] \/ Len(u) <= MaxFrame

Respond(n) ==
    /\ Runs("server")
    /\ pc["server"] = "respond"
    /\ LET u == Reply(acc["server"][1][2], n)
       IN \/ /\ Sendable(u)
             /\ answered' = Append(answered, u)
             /\ out' = [out EXCEPT !["server"] = Frame("server", u)]
             /\ tx' = [tx EXCEPT !["server"] = Written("server", u)]
             /\ acc' = [acc EXCEPT !["server"] = <<>>]
             /\ Goto("server", "head")
             /\ UNCHANGED <<psk, secure, wire, rx, need, why, hung, cut, asked, got>>
          \/ ~Sendable(u) /\ Close("server", "oversize")

\* respond_frame fails: the store cannot be read, or the request is malformed.
RespondFails == Runs("server") /\ pc["server"] = "respond" /\ Close("server", "error")

-----------------------------------------------------------------------------
(* What goes wrong.                                                        *)

EndOfStream(e) ==
    /\ Reads(e)
    /\ wire[Peer(e)] = <<>>
    /\ cut \/ ~Open(Peer(e))
    /\ Close(e, "lost")

\* The end waits for the other one: for a piece, or for room to write one.
Stalled(e) ==
    /\ Open(e)
    /\ ~cut /\ Open(Peer(e))
    /\ IF out[e] = <<>>
       THEN pc[e] \in {"sniff", "mode", "hs", "head", "body"} /\ wire[Peer(e)] = <<>>
       ELSE Len(wire[e]) >= Room

\* serve_conn and pull set a read and a write timeout on their sockets.
ClientOnly(e) == e = "client"
Armed(e)      == TRUE

Timeout(e) ==
    /\ Armed(e)
    /\ Stalled(e) /\ ~hung[e]
    /\ Close(e, IF Stalled(Peer(e)) /\ ~hung[Peer(e)] THEN "deadlock" ELSE "slow")

Kill(e) == Open(e) /\ Close(e, "killed")

Hang(e) ==
    /\ Runs(e)
    /\ hung' = [hung EXCEPT ![e] = TRUE]
    /\ UNCHANGED <<psk, secure, pc, out, wire, readVars, why, cut, rpcVars>>

Break ==
    /\ ~cut
    /\ cut' = TRUE
    /\ \E n \in 0..Len(wire["client"]), m \in 0..Len(wire["server"]) :
          wire' = [e \in Ends |-> SubSeq(wire[e], 1, IF e = "client" THEN n ELSE m)]
    /\ UNCHANGED <<psk, secure, pc, out, readVars, why, hung, rpcVars>>

-----------------------------------------------------------------------------
Common(e) ==
    \/ Flush(e) \/ WriteError(e) \/ EndOfStream(e) \/ Timeout(e)
    \/ Handshake(e) \/ ReadHead(e) \/ ReadPlain(e) \/ ReadPart(e)

Client == Common("client") \/ ClientHello \/ Done \/ \E n \in ReqSizes : Ask(n)

Server ==
    \/ Common("server") \/ SniffSelector \/ ReadMode \/ SniffPlain \/ RespondFails
    \/ \E n \in ReplySizes : Respond(n)

Fault == Break \/ \E e \in Ends : Kill(e) \/ Hang(e)

Next == Client \/ Server \/ Fault

Spec == Init /\ [][Next]_vars

(***************************************************************************)
(* Both processes run, and the read and write timeouts set on each socket  *)
(* fire: an end that can take a step takes one.                            *)
(***************************************************************************)
FairSpec == Spec /\ WF_vars(Client) /\ WF_vars(Server)

-----------------------------------------------------------------------------
Units == {"ask", "answer"} \X Nat \X Nat

Payloads == Seq(Units)

Pieces ==
    {Selector, Mode} \cup [t : {"hs"}, k : Psks]
    \cup [t : {"size"}, n : Nat] \cup [t : {"bytes"}, u : Payloads]
    \cup [t : {"head"}, k : Psks, c : Nat, n : Nat]
    \cup [t : {"part"}, k : Psks, c : Nat, u : Payloads]

TypeOK ==
    /\ psk \in [Ends -> Psks \cup {NoPsk}]
    /\ pc \in [Ends -> PCs]
    /\ secure \in [Ends -> BOOLEAN]
    /\ out \in [Ends -> Seq(Pieces)]
    /\ wire \in [Ends -> Seq(Pieces)]
    /\ tx \in [Ends -> Nat]
    /\ rx \in [Ends -> Nat]
    /\ need \in [Ends -> Nat]
    /\ acc \in [Ends -> Payloads]
    /\ why \in [Ends -> Reasons]
    /\ hung \in [Ends -> BOOLEAN]
    /\ cut \in BOOLEAN
    /\ asked \in Nat
    /\ answered \in Seq(Payloads)
    /\ got \in Seq(Payloads)

Encrypted == {"selector", "mode", "hs", "head", "part"}

(***************************************************************************)
(* "A --psk server rejects non-selector connections, so security cannot be *)
(* silently downgraded" (secure.rs 9-14): an end with a passphrase never   *)
(* puts anything but the selector and Noise messages on the wire, and      *)
(* nothing is answered or accepted unless both ends hold the same one or   *)
(* both hold none.                                                         *)
(***************************************************************************)
NoDowngrade ==
    /\ \A e \in Ends : psk[e] # NoPsk =>
          \A i \in 1..Len(wire[e]) : wire[e][i].t \in Encrypted
    /\ answered # <<>> \/ got # <<>> => psk["client"] = psk["server"]

(***************************************************************************)
(* The session implements Rpc: plain or encrypted, split into messages and *)
(* put together again, cut at any point, an answer is handed over whole,   *)
(* once, in order and to its own request, or not at all.                   *)
(***************************************************************************)
ReplyTo(q) == {Reply(q, n) : n \in ReplySizes}

R == INSTANCE Rpc WITH Answers <- ReplyTo

RpcSpec == R!Spec

(***************************************************************************)
(* A pull fails only for a reason outside the session: different           *)
(* passphrases, a broken connection, an end that was killed, hung or too   *)
(* slow, a store that cannot answer, a frame over the limit.  In           *)
(* particular the two ends never wait for one another, and the streams     *)
(* never get out of step.                                                  *)
(***************************************************************************)
FailsForCause ==
    why["client"] \notin {"open", "done"} =>
        \/ psk["client"] # psk["server"]
        \/ cut
        \/ \E e \in Ends : hung[e] \/ why[e] \in {"killed", "slow", "error", "oversize"}

(***************************************************************************)
(* Neither a pull nor the thread that serves it stays for ever beside an   *)
(* end that hangs, dies, is cut off or never reads: every end that still   *)
(* runs ends.  Both ends speak the protocol otherwise, and the client asks *)
(* a bounded number of times (MaxReqs): against one that would ask for     *)
(* ever, or sends a byte before each timeout, the code has no limit.       *)
(***************************************************************************)
SessionEnds == \A e \in Ends : <>(~Open(e) \/ hung[e])

-----------------------------------------------------------------------------
(* What the documentation says and the code does not keep to.              *)

(***************************************************************************)
(* "Seconds a connection may take to select a protocol / handshake before  *)
(* it is dropped" (sync.rs 42-44): the server drops a connection for being *)
(* idle only before its first request.                                     *)
(***************************************************************************)
IdleOnlyInHello == why["server"] = "slow" => answered = <<>>
=============================================================================
