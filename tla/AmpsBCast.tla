------------------------------- MODULE AmpsBCast --------------------------------
(***************************************************************************)
(* amps_BCast (amps/mpi1/amps_bcast.c): the broadcast over a binomial tree *)
(* of point-to-point messages by which rank 0 hands the input database and *)
(* other start-up data to all ranks.                                       *)
(*                                                                         *)
(* The ranks of a run make the same broadcasts in the same order, with     *)
(* nothing that keeps them in step: a rank may be in a later broadcast     *)
(* than the rank it gets messages from.  All messages carry tag 0.         *)
(* MPI (external) keeps the messages from one rank to another in order;    *)
(* MPI_Send may return at once (the message is buffered) or only when the  *)
(* message is received, and MPI_Recv waits for a message of the given rank.*)
(***************************************************************************)
EXTENDS AmpsFindPowers, Sequences

CONSTANTS
  N,         \* amps_size
  Sources    \* source rank of each broadcast the program makes

ASSUME BCastAssumption ==
  N \in 1..32768 /\ Sources \in Seq(0..(N - 1))

Ranks == 0..(N - 1)
Poft  == Nprev(N)

VARIABLES
  bcast,       \* number of the broadcast a rank is in, or has ended
  stage,       \* where in it: "enter", "loop", "last", "leaf", "sending", "left"
  d, start, recvd_flag,   \* locals of amps_BCast
  back, peer,  \* where amps_Send returns to, and the rank it sends to
  invoice,     \* broadcast whose data the rank's invoice holds, 0 for none
  network,     \* messages in transit, per sender and receiver
  received     \* what each rank's invoice held at the end of each broadcast

local == <<bcast, stage, d, start, recvd_flag, back, peer, invoice, received>>
vars  == <<local, network>>

Stages == {"enter", "loop", "last", "leaf", "sending", "left"}

\* Exclusive or with a power of two.
Xor(n, bit) == IF (n \div bit) % 2 = 0 THEN n + bit ELSE n - bit

\* The macros rtov and vtor: ranks renumbered so that the source is node 0.
Rtov(source, node) ==
  IF node > source THEN node ELSE IF node < source THEN node + 1 ELSE 0

Vtor(source, node) ==
  IF node > source THEN node ELSE IF node # 0 THEN node - 1 ELSE source

Source(r) == Sources[bcast[r]]
Node(r)   == Rtov(Source(r), r)
--------------------------------------------------------------------------------
Init ==
  /\ bcast = [r \in Ranks |-> 0]
  /\ stage = [r \in Ranks |-> "left"]
  /\ d = [r \in Ranks |-> 0] /\ start = [r \in Ranks |-> 0]
  /\ recvd_flag = [r \in Ranks |-> FALSE]
  /\ back = [r \in Ranks |-> "left"] /\ peer = [r \in Ranks |-> r]
  /\ invoice = [r \in Ranks |-> 0]
  /\ network = [r \in Ranks |-> [to \in Ranks |-> << >>]]
  /\ received = [r \in Ranks |-> << >>]

\* The next call of amps_BCast on rank r: the source fills its invoice.
Enter(r) ==
  /\ stage[r] = "left" /\ bcast[r] < Len(Sources)
  /\ bcast' = [bcast EXCEPT ![r] = @ + 1]
  /\ LET source == Sources[bcast[r] + 1]
         n      == Rtov(source, r)
     IN  /\ invoice' = [invoice EXCEPT ![r] = IF r = source THEN bcast[r] + 1 ELSE 0]
         /\ start' = [start EXCEPT ![r] = 0]
         /\ recvd_flag' = [recvd_flag EXCEPT ![r] = n = 0]
         /\ d' = [d EXCEPT ![r] = Poft \div 2]
         /\ stage' = [stage EXCEPT ![r] = IF n >= Poft THEN "leaf" ELSE "loop"]
  /\ UNCHANGED <<back, peer, network, received>>

\* amps_Send: the message is on its way; buffered, or the sender waits.
Send(r, to, buffered, then) ==
  /\ network' = [network EXCEPT ![r][to] = Append(@, invoice[r])]
  /\ stage' = [stage EXCEPT ![r] = IF buffered THEN then ELSE "sending"]
  /\ back' = [back EXCEPT ![r] = then]
  /\ peer' = [peer EXCEPT ![r] = to]

RecvFromAny(r, from) ==            \* seeded fault: whichever rank's message is there
  \E any \in Ranks :
    /\ network[any][r] # << >>
    /\ invoice' = [invoice EXCEPT ![r] = Head(network[any][r])]
    /\ network' = [network EXCEPT ![any][r] = Tail(@)]

\* amps_Recv: the oldest message of that rank goes into the invoice.
Recv(r, from) ==
  /\ network[from][r] # << >>
  /\ invoice' = [invoice EXCEPT ![r] = Head(network[from][r])]
  /\ network' = [network EXCEPT ![from][r] = Tail(@)]

\* A send that was not buffered returns once its message is received.
SendReturns(r) ==
  /\ stage[r] = "sending"
  /\ network[r][peer[r]] = << >>
  /\ stage' = [stage EXCEPT ![r] = back[r]]
  /\ UNCHANGED <<bcast, d, start, recvd_flag, back, peer, invoice, network, received>>

\* Not there yet: the block that holds this node shrinks to one of its halves.
Skip(r) ==
  /\ stage[r] = "loop" /\ d[r] >= 1 /\ ~recvd_flag[r]
  /\ LET startd == Xor(start[r], d[r])
     IN  /\ startd # Node(r)
         /\ start' = [start EXCEPT ![r] = IF Node(r) >= startd THEN startd ELSE @]
  /\ d' = [d EXCEPT ![r] = @ \div 2]
  /\ UNCHANGED <<bcast, stage, recvd_flag, back, peer, invoice, network, received>>

SendInLoop(r, buffered) ==
  /\ stage[r] = "loop" /\ d[r] >= 1 /\ recvd_flag[r]
  /\ Send(r, Vtor(Source(r), Xor(Node(r), d[r])), buffered, "loop")
  /\ d' = [d EXCEPT ![r] = @ \div 2]
  /\ UNCHANGED <<bcast, start, recvd_flag, invoice, received>>

RecvInLoopKeepsFlag(r) ==          \* seeded fault: recvd_flag is not set
  /\ stage[r] = "loop" /\ d[r] >= 1 /\ ~recvd_flag[r]
  /\ Xor(start[r], d[r]) = Node(r)
  /\ Recv(r, Vtor(Source(r), start[r]))
  /\ d' = [d EXCEPT ![r] = @ \div 2]
  /\ UNCHANGED <<bcast, stage, start, recvd_flag, back, peer, received>>

RecvInLoop(r) ==
  /\ stage[r] = "loop" /\ d[r] >= 1 /\ ~recvd_flag[r]
  /\ Xor(start[r], d[r]) = Node(r)
  /\ Recv(r, Vtor(Source(r), start[r]))
  /\ recvd_flag' = [recvd_flag EXCEPT ![r] = TRUE]
  /\ d' = [d EXCEPT ![r] = @ \div 2]
  /\ UNCHANGED <<bcast, stage, start, back, peer, received>>

\* After the loop: nodes beyond the power of two get theirs from node n.
SendBeyond(r, buffered) ==
  /\ stage[r] = "loop" /\ d[r] = 0 /\ Node(r) < N - Poft
  /\ Send(r, Vtor(Source(r), Poft + Node(r)), buffered, "last")
  /\ UNCHANGED <<bcast, d, start, recvd_flag, invoice, received>>

RecvBeyond(r) ==
  /\ stage[r] = "leaf"
  /\ Recv(r, Vtor(Source(r), Node(r) - Poft))
  /\ stage' = [stage EXCEPT ![r] = "last"]
  /\ UNCHANGED <<bcast, d, start, recvd_flag, back, peer, received>>

Leave(r) ==
  /\ \/ stage[r] = "last"
     \/ stage[r] = "loop" /\ d[r] = 0 /\ Node(r) >= N - Poft
  /\ stage' = [stage EXCEPT ![r] = "left"]
  /\ received' = [received EXCEPT ![r] = Append(@, invoice[r])]
  /\ UNCHANGED <<bcast, d, start, recvd_flag, back, peer, invoice, network>>

Step(r) ==
  \/ Enter(r) \/ SendReturns(r) \/ Skip(r) \/ RecvInLoop(r) \/ RecvBeyond(r)
  \/ Leave(r)
  \/ \E buffered \in BOOLEAN : SendInLoop(r, buffered) \/ SendBeyond(r, buffered)

Next == \E r \in Ranks : Step(r)

\* Every rank is scheduled, and MPI delivers what both sides are ready for.
Fairness == \A r \in Ranks : WF_vars(Step(r))

Spec == Init /\ [][Next]_vars /\ Fairness
--------------------------------------------------------------------------------
\* Every rank leaves each broadcast with the data its source put into that
\* broadcast, however far the ranks have run ahead of each other.
EachGetsItsBroadcast ==
  \A r \in Ranks : \A k \in DOMAIN received[r] : received[r][k] = k

\* Nobody waits for ever: all broadcasts end on all ranks, whether or not MPI
\* buffers the messages.
AllBroadcastsEnd ==
  <>(\A r \in Ranks : bcast[r] = Len(Sources) /\ stage[r] = "left")
================================================================================
