------------------------------ MODULE AmpsExchange ------------------------------
(***************************************************************************)
(* The exchange of ghost cells between the ranks of a run: InitVectorUpdate*)
(* and FinalizeVectorUpdate (parflow_lib/vector.c, communication.c) over   *)
(* amps_IExchangePackage and amps_Wait (amps/mpi1/amps_exchange.c).        *)
(*                                                                         *)
(* Every rank runs the same program: updates of vectors, and the release   *)
(* of vectors, in the same order, without anything else that keeps the     *)
(* ranks in step.  All messages have tag 0, so MPI (external) matches them *)
(* by the order in which they were posted.  MPI reads the owner cells and  *)
(* writes the ghost cells in place, at any time between the start and the  *)
(* completion of a request.                                                *)
(*                                                                         *)
(* `ssend' tells the builds apart: persistent MPI_Ssend_init requests that *)
(* complete when received, or AMPS_MPI_NOT_USE_PERSISTENT with MPI_Isend,  *)
(* which MPI may complete earlier by buffering the message.                *)
(***************************************************************************)
EXTENDS Integers, Sequences, FiniteSets

CONSTANTS
  Ranks,
  Recvs,      \* Recvs[r]: package->src of rank r
  Vectors,
  Program     \* what every rank does: a sequence of [op, vec] records

\* Whom a rank sends to: the ranks that receive from it (CommRegFromStencil
\* computes both regions from one stencil on every rank).
Dests(r) == {s \in Ranks : r \in Recvs[s]}

ASSUME ExchangeAssumption ==
  /\ Recvs \in [Ranks -> SUBSET Ranks]
  /\ \A r \in Ranks : r \notin Recvs[r]
  /\ Program \in Seq([op : {"update", "free"}, vec : Vectors])

VARIABLES
  ssend,      \* the build
  step,       \* next statement of the program, per rank
  waiting,    \* between InitVectorUpdate and FinalizeVectorUpdate
  updates,    \* number of updates finalized
  own,        \* own[r][v]: the update the owner cells were computed for, 0: freed
  ghost,      \* ghost[r][v][s]: the update of s the ghost cells hold
  commited,   \* commited[r][v]: the package has its types and requests
  recving,    \* sources whose receive request is active
  sending,    \* destinations whose send request is active
  queue,      \* queue[s][r]: sends posted by s to r and not yet received
  result      \* the ghost values the computation after the update used

vars == <<ssend, step, waiting, updates, own, ghost, commited, recving, sending,
          queue, result>>

Statement(r) == Program[step[r]]
AtUpdate(r)  == step[r] <= Len(Program) /\ Statement(r).op = "update"

\* A posted send; value is 0 as long as MPI has not read the owner cells.
Message(v) == [vec |-> v, value |-> 0]
--------------------------------------------------------------------------------
Init ==
  /\ ssend \in BOOLEAN
  /\ step = [r \in Ranks |-> 1]
  /\ waiting = [r \in Ranks |-> FALSE]
  /\ updates = [r \in Ranks |-> 0]
  /\ own = [r \in Ranks |-> [v \in Vectors |-> 0]]
  /\ ghost = [r \in Ranks |-> [v \in Vectors |-> [s \in Recvs[r] |-> 0]]]
  /\ commited = [r \in Ranks |-> [v \in Vectors |-> FALSE]]
  /\ recving = [r \in Ranks |-> {}] /\ sending = [r \in Ranks |-> {}]
  /\ queue = [s \in Ranks |-> [r \in Ranks |-> << >>]]
  /\ result = [r \in Ranks |-> [s \in Recvs[r] |-> 0]]

StartallRecvs(r, v) ==             \* seeded fault: the sends are left out
  /\ recving' = [recving EXCEPT ![r] = Recvs[r]]
  /\ sending' = [sending EXCEPT ![r] = Dests(r)]
  /\ UNCHANGED queue

\* MPI_Startall over the receive and the send requests of the package.
Startall(r, v) ==
  /\ recving' = [recving EXCEPT ![r] = Recvs[r]]
  /\ sending' = [sending EXCEPT ![r] = Dests(r)]
  /\ queue' = [queue EXCEPT ![r] =
                 [s \in Ranks |-> IF s \in Dests(r) THEN Append(@[s], Message(v)) ELSE @[s]]]

\* The rank computes new owner cells and calls InitVectorUpdate: the package's
\* types and requests are made once, then all requests are started.
InitVectorUpdate(r) ==
  /\ AtUpdate(r) /\ ~waiting[r]
  /\ LET v == Statement(r).vec
     IN  /\ own' = [own EXCEPT ![r][v] = updates[r] + 1]
         /\ commited' = [commited EXCEPT ![r][v] = ssend]
         /\ Startall(r, v)
  /\ waiting' = [waiting EXCEPT ![r] = TRUE]
  /\ UNCHANGED <<ssend, step, updates, ghost, result>>

\* MPI: the oldest send of s to r meets the receive r has posted for s.
Transfer(s, r) ==
  /\ s \in recving[r] /\ queue[s][r] # << >>
  /\ LET m     == Head(queue[s][r])
         value == IF m.value = 0 THEN own[s][m.vec] ELSE m.value
     IN  /\ ghost' = [ghost EXCEPT ![r][Statement(r).vec][s] = value]
         /\ sending' = IF m.value = 0
                       THEN [sending EXCEPT ![s] = @ \ {r}] ELSE sending
  /\ recving' = [recving EXCEPT ![r] = @ \ {s}]
  /\ queue' = [queue EXCEPT ![s][r] = Tail(@)]
  /\ UNCHANGED <<ssend, step, waiting, updates, own, commited, result>>

\* MPI: a standard-mode send completes because its message has been copied.
Buffer(s, r) ==
  /\ ~ssend /\ r \in sending[s]
  /\ LET last == Len(queue[s][r])
     IN  /\ last > 0
         /\ queue' = [queue EXCEPT ![s][r][last] =
                                    [vec |-> @.vec, value |-> own[s][@.vec]]]
  /\ sending' = [sending EXCEPT ![s] = @ \ {r}]
  /\ UNCHANGED <<ssend, step, waiting, updates, own, ghost, commited, recving,
                 result>>

AllCompleteRecvs(r) == recving[r] = {}   \* seeded fault: sends are not waited for

AllCompleteSends(r) == sending[r] = {}   \* seeded fault: receives are not waited for

\* MPI_Waitall has seen all requests of the package complete.
AllComplete(r) == recving[r] = {} /\ sending[r] = {}

\* FinalizeVectorUpdate returns, and the rank computes with its ghost cells.
FinalizeVectorUpdate(r) ==
  /\ waiting[r] /\ AllComplete(r)
  /\ result' = [result EXCEPT ![r] = ghost[r][Statement(r).vec]]
  /\ updates' = [updates EXCEPT ![r] = @ + 1]
  /\ step' = [step EXCEPT ![r] = @ + 1]
  /\ waiting' = [waiting EXCEPT ![r] = FALSE]
  /\ UNCHANGED <<ssend, own, ghost, commited, recving, sending, queue>>

\* FreeVector: the package, its requests and the cells are released.
FreeVector(r) ==
  /\ step[r] <= Len(Program) /\ Statement(r).op = "free"
  /\ LET v == Statement(r).vec
     IN  /\ own' = [own EXCEPT ![r][v] = 0]
         /\ ghost' = [ghost EXCEPT ![r][v] = [s \in Recvs[r] |-> 0]]
         /\ commited' = [commited EXCEPT ![r][v] = FALSE]
  /\ step' = [step EXCEPT ![r] = @ + 1]
  /\ UNCHANGED <<ssend, waiting, updates, recving, sending, queue, result>>

Rank(r) == InitVectorUpdate(r) \/ FinalizeVectorUpdate(r) \/ FreeVector(r)

Next ==
  \/ \E r \in Ranks : Rank(r)
  \/ \E s, r \in Ranks : Transfer(s, r) \/ Buffer(s, r)

\* Ranks run, and MPI carries out a transfer that both sides have posted; it never
\* has to buffer.
Fairness ==
  /\ \A r \in Ranks : WF_vars(Rank(r))
  /\ \A s, r \in Ranks : WF_vars(Transfer(s, r))

Spec == Init /\ [][Next]_vars /\ Fairness
--------------------------------------------------------------------------------
\* With requests that complete on receipt, a rank has at most one message on its
\* way to each neighbour, and it is for the update the neighbour has begun or
\* will begin next, of the same vector.
OneMessagePerNeighbour ==
  ssend => \A s, r \in Ranks :
    /\ Len(queue[s][r]) <= 1
    /\ queue[s][r] # << >> /\ s \in recving[r] =>
         Head(queue[s][r]).vec = Statement(r).vec /\ updates[s] = updates[r]

\* Every rank finishes its program: the exchange cannot end with ranks waiting
\* for each other, in either build.
AllUpdatesEnd == <>(\A r \in Ranks : step[r] > Len(Program))

\* What the kernels rely on: the ghost cells a rank computes with are those of
\* the same update of each neighbour, although neighbours run ahead, vectors are
\* reused and freed, and messages carry no tag.
Ghosts == INSTANCE GhostUpdate WITH done <- updates, seen <- result
ImplementsGhostUpdate == Ghosts!Spec
================================================================================
