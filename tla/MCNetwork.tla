----------------------------- MODULE MCNetwork -----------------------------
(***************************************************************************)
(* The peers and the codec of a connection in one run: a behaviour is one  *)
(* of the two, `part' says which.                                          *)
(*                                                                         *)
(* Of the peers, "peers": two of them, one with a private address, and     *)
(* room for one outbound and one inbound peer.  "fair": the same with one  *)
(* fault, and fair threads.  "lists": a preferred peer and a denied one.   *)
(***************************************************************************)
EXTENDS Peers, Sequences

CONSTANTS Parts, a, b, c1, c2,   \* addresses and names of connections
          Frames                 \* the messages written by a peer

VARIABLES part, sent, wire, buffer, state, out, closed, timeouts

codecVars == <<sent, wire, buffer, state, out, closed, timeouts>>
allVars == <<part, vars, codecVars>>

F == INSTANCE Peers WITH MaxFaults <- 1
L == INSTANCE Peers WITH Private <- {}, Seeds <- {b}, Preferred <- {a}, Deny <- {b}, MaxFaults <- 1

C == INSTANCE Codec WITH Shapes <- Frames, MaxMessages <- 3, HeaderLen <- 2, CountLen <- 1,
        BatchSize <- 2, MaxItem <- 3, ChunkLen <- 2, MaxMsgLen <- 8, MaxTimeouts <- 1,
        Partial <- FALSE

\* The messages: a body, an empty one, an unknown type, one too long, an archive
\* with its attachment, lists of headers with a right and with a wrong count
Message(type, len, attached) ==
    [type |-> type, len |-> len, attached |-> attached, count |-> 0, items |-> <<>>]
List(count, items) ==
    [type |-> "Headers", len |-> 0, attached |-> 0, count |-> count, items |-> items]

AllShapes == {Message("Block", 2, 0), Message("Ping", 0, 0), Message("Strange", 3, 0),
              Message("Block", 9, 0), Message("TxHashSetArchive", 1, 3),
              List(1, <<1>>), List(2, <<2, 3>>), List(3, <<2, 3, 1>>),
              List(2, <<2>>), List(1, <<2, 2>>), List(0, <<2>>)}

CodecIdle == /\ sent = <<>> /\ wire = <<>> /\ buffer = <<>> /\ state = [at |-> "None"]
             /\ out = <<>> /\ closed = FALSE /\ timeouts = 0

MCInit == /\ part \in Parts
          /\ IF part = "lists" THEN L!Init ELSE Init
          /\ IF part = "codec" THEN C!Init ELSE CodecIdle

MCNext == /\ part' = part
          /\ \/ part = "peers" /\ Next /\ UNCHANGED codecVars
             \/ part = "fair" /\ F!Next /\ UNCHANGED codecVars
             \/ part = "lists" /\ L!Next /\ UNCHANGED codecVars
             \/ part = "codec" /\ C!Next /\ UNCHANGED vars

MCSpec == MCInit /\ [][MCNext]_allVars

\* Peers!Fairness, of the part that has it
Fair(A) == part = "fair" /\ A

MCFairSpec ==
    /\ MCSpec
    /\ WF_vars(Fair(F!SeedStep))
    /\ WF_vars(Fair(\E x \in {a, b} : F!DialStep(x)))
    /\ WF_vars(Fair(F!ListenStep \/ F!BanStep \/ F!save_peers \/ \E x \in {a, b} : F!WindowOver(x)))
    /\ WF_vars(Fair(F!ConnStep(c1)))
    /\ WF_vars(Fair(F!ConnStep(c2)))

-----------------------------------------------------------------------------
\* The seed thread restores the outbound peers and drops dead ones, again and
\* again (Peers!PeersRecover).
PeersStayInOrder == part = "fair" => F!PeersRecover

=============================================================================
