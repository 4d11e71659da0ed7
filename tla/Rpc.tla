-------------------------------- MODULE Rpc ----------------------------------
(***************************************************************************)
(* What a sync session promises the pull that runs on it, whatever the     *)
(* transport (FrameIo in src/src/secure.rs, the request loop of serve_conn *)
(* in src/src/sync.rs): requests are made one at a time, each is answered  *)
(* at most once and in order, and the caller is handed exactly the bytes   *)
(* of the answers, whole and in order, or nothing.                         *)
(***************************************************************************)
EXTENDS Naturals, Sequences

CONSTANT Answers(_)    \* the answers a request may be given

VARIABLES
    asked,             \* requests made
    answered,          \* answers given
    got                \* answers handed to the caller

vars == <<asked, answered, got>>

Init == asked = 0 /\ answered = <<>> /\ got = <<>>

Ask ==
    /\ Len(got) = asked
    /\ asked' = asked + 1
    /\ UNCHANGED <<answered, got>>

Answer ==
    /\ Len(answered) < asked
    /\ \E a \in Answers(asked) : answered' = Append(answered, a)
    /\ UNCHANGED <<asked, got>>

Accept ==
    /\ Len(got) < Len(answered)
    /\ got' = Append(got, answered[Len(got) + 1])
    /\ UNCHANGED <<asked, answered>>

Next == Ask \/ Answer \/ Accept

Spec == Init /\ [][Next]_vars
=============================================================================
