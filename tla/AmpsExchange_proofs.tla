--------------------------- MODULE AmpsExchange_proofs ---------------------------
(***************************************************************************)
(* Proofs about the exchange of ghost cells, for every set of ranks, every *)
(* neighbourhood, every set of vectors and every program of updates and    *)
(* releases that satisfies ExchangeAssumption.                             *)
(*                                                                         *)
(* The argument counts messages.  What s has sent to a neighbour r and     *)
(* what r has received of it are known from the number of updates each has *)
(* finished and from its open requests; the difference is in the queue, in *)
(* the order of the updates.                                               *)
(***************************************************************************)
EXTENDS AmpsExchange, FiniteSetTheorems, TLAPS

Messages == [vec : Vectors, value : Nat]

\* Messages r has received from s, and s has posted to each of its neighbours.
Received(s, r) == updates[r] + (IF waiting[r] /\ s \notin recving[r] THEN 1 ELSE 0)
Posted(s)      == updates[s] + (IF waiting[s] THEN 1 ELSE 0)

\* Updates among the statements before number k of the program.
UpdatesBefore(k) == Cardinality({j \in 1..(k - 1) : Program[j].op = "update"})

TypeInv ==
  /\ ssend \in BOOLEAN
  /\ step \in [Ranks -> 1..(Len(Program) + 1)]
  /\ waiting \in [Ranks -> BOOLEAN]
  /\ updates \in [Ranks -> Nat]
  /\ own \in [Ranks -> [Vectors -> Nat]]
  /\ DOMAIN ghost = Ranks
  /\ \A r \in Ranks : ghost[r] \in [Vectors -> [Recvs[r] -> Nat]]
  /\ recving \in [Ranks -> SUBSET Ranks]
  /\ sending \in [Ranks -> SUBSET Ranks]
  /\ queue \in [Ranks -> [Ranks -> Seq(Messages)]]

\* A rank has finished as many updates as it has passed in its program.
ProgramInv == \A r \in Ranks : updates[r] = UpdatesBefore(step[r])

\* Requests are open only within an update; the owner cells are those of that
\* update, and so are the ghost cells whose receive has completed.
RequestInv ==
  \A r \in Ranks :
    /\ recving[r] \subseteq Recvs[r] /\ sending[r] \subseteq Dests(r)
    /\ ~waiting[r] => recving[r] = {} /\ sending[r] = {}
    /\ waiting[r] =>
         /\ AtUpdate(r)
         /\ own[r][Statement(r).vec] = updates[r] + 1
         /\ \A s \in Recvs[r] \ recving[r] :
              ghost[r][Statement(r).vec][s] = updates[r] + 1

\* The queue from s to r holds what s has posted and r has not received, in the
\* order of the updates.  Only a message whose send is still open has not been
\* read from the owner cells; it is the last one and of the vector s is updating.
PairInv(s, r) ==
  LET q == queue[s][r]
  IN  /\ Len(q) = Posted(s) - Received(s, r)
      /\ \A i \in 1..Len(q) :
           /\ q[i].value = 0 => /\ i = Len(q) /\ r \in sending[s]
                                /\ q[i].vec = Statement(s).vec
           /\ q[i].value # 0 => ~ssend /\ q[i].value = Received(s, r) + i
      /\ r \in sending[s] => Len(q) > 0 /\ q[Len(q)].value = 0

QueueInv == \A r \in Ranks : \A s \in Recvs[r] : PairInv(s, r)

\* Nothing is posted to a rank that does not expect it.
StrayInv == \A r \in Ranks : \A s \in Ranks \ Recvs[r] : queue[s][r] = << >>

IInv == TypeInv /\ ProgramInv /\ RequestInv /\ QueueInv /\ StrayInv
--------------------------------------------------------------------------------
\* The statement a rank is at is one of the program.
LEMMA StatementType ==
  ASSUME TypeInv, NEW r \in Ranks, step[r] <= Len(Program)
  PROVE  Statement(r) \in [op : {"update", "free"}, vec : Vectors]
<1>1. Len(Program) \in Nat /\ step[r] \in 1..(Len(Program) + 1)
  BY ExchangeAssumption DEF TypeInv
<1>2. step[r] \in 1..Len(Program)
  BY <1>1
<1> DEFINE S == [op : {"update", "free"}, vec : Vectors]
<1>3. Program \in Seq(S)
  BY ExchangeAssumption
<1> HIDE DEF S
<1>4. Program[step[r]] \in S
  BY <1>2, <1>3
<1> QED
  BY <1>4 DEF Statement, S

\* UpdatesBefore counts: it grows by one with each update and never shrinks.
LEMMA CountUpdates ==
  ASSUME NEW k \in 1..Len(Program)
  PROVE  /\ UpdatesBefore(k) \in Nat
         /\ UpdatesBefore(k + 1) =
              UpdatesBefore(k) + (IF Program[k].op = "update" THEN 1 ELSE 0)
         /\ \A l \in Nat : l >= k => UpdatesBefore(l) >= UpdatesBefore(k)
<1> DEFINE S(l) == {j \in 1..(l - 1) : Program[j].op = "update"}
<1>0. Len(Program) \in Nat
  BY ExchangeAssumption
<1>1. \A l \in Nat : IsFiniteSet(S(l)) /\ Cardinality(S(l)) \in Nat
  <2> SUFFICES ASSUME NEW l \in Nat
               PROVE  IsFiniteSet(S(l)) /\ Cardinality(S(l)) \in Nat
    OBVIOUS
  <2>1. IsFiniteSet(1..(l - 1))
    BY FS_Interval
  <2>2. S(l) \subseteq 1..(l - 1)
    OBVIOUS
  <2> QED
    BY <2>1, <2>2, FS_Subset, FS_CardinalityType
<1>2. k \in Nat /\ k + 1 \in Nat /\ k \notin S(k)
  BY <1>0
<1>3. ASSUME Program[k].op = "update"
      PROVE  UpdatesBefore(k + 1) = UpdatesBefore(k) + 1
  <2>1. S(k + 1) = S(k) \cup {k}
    BY <1>0, <1>3
  <2> HIDE DEF S
  <2>2. Cardinality(S(k + 1)) = Cardinality(S(k)) + 1
    BY <1>1, <1>2, <2>1, FS_AddElement
  <2> QED
    BY <2>2, <1>3 DEF UpdatesBefore, S
<1>4. ASSUME Program[k].op # "update"
      PROVE  UpdatesBefore(k + 1) = UpdatesBefore(k)
  <2>1. S(k + 1) = S(k)
    BY <1>0, <1>4
  <2>2. Cardinality(S(k)) \in Nat
    BY <1>1, <1>2
  <2> QED
    BY <2>1 DEF UpdatesBefore
<1>5. ASSUME NEW l \in Nat, l >= k
      PROVE  UpdatesBefore(l) >= UpdatesBefore(k)
  <2>1. S(k) \subseteq S(l)
    BY <1>0, <1>5
  <2> HIDE DEF S
  <2>2. Cardinality(S(k)) <= Cardinality(S(l))
    BY <1>1, <1>2, <1>5, <2>1, FS_Subset
  <2> QED
    BY <2>2, <1>1, <1>2, <1>5 DEF UpdatesBefore, S
<1>6. UpdatesBefore(k) \in Nat
  BY <1>1, <1>2 DEF UpdatesBefore
<1> QED
  BY <1>3, <1>4, <1>5, <1>6 DEF UpdatesBefore

\* Ranks with as many updates behind them that are at an update are at the same one.
LEMMA SameUpdateSameStatement ==
  ASSUME TypeInv, ProgramInv, NEW r \in Ranks, NEW s \in Ranks,
         AtUpdate(r), AtUpdate(s), updates[r] = updates[s]
  PROVE  step[r] = step[s]
<1>0. Len(Program) \in Nat
  BY ExchangeAssumption
<1>1. ASSUME NEW a \in Ranks, NEW b \in Ranks, AtUpdate(a), AtUpdate(b),
             step[a] < step[b]
      PROVE  updates[a] < updates[b]
  <2>1. step[a] \in 1..Len(Program) /\ step[b] \in Nat /\ step[b] >= step[a] + 1
        /\ step[a] + 1 \in 1..Len(Program)
    <3>1. step[a] \in 1..(Len(Program) + 1) /\ step[b] \in 1..(Len(Program) + 1)
      BY DEF TypeInv
    <3>2. step[a] <= Len(Program) /\ step[b] <= Len(Program)
      BY <1>1 DEF AtUpdate
    <3> QED
      BY <1>0, <1>1, <3>1, <3>2
  <2>2. UpdatesBefore(step[a] + 1) = UpdatesBefore(step[a]) + 1
    BY <1>1, <2>1, CountUpdates DEF AtUpdate, Statement
  <2>3. UpdatesBefore(step[b]) >= UpdatesBefore(step[a] + 1)
    BY <2>1, CountUpdates
  <2>4. updates[a] = UpdatesBefore(step[a]) /\ updates[b] = UpdatesBefore(step[b])
        /\ updates[a] \in Nat /\ updates[b] \in Nat
    BY DEF ProgramInv, TypeInv
  <2> QED
    BY <2>2, <2>3, <2>4
<1>2. step[r] \in Int /\ step[s] \in Int /\ updates[r] \in Int /\ updates[s] \in Int
  BY <1>0 DEF TypeInv
<1> QED
  BY <1>1, <1>2
--------------------------------------------------------------------------------
LEMMA InitInv == Init => IInv
<1> SUFFICES ASSUME Init PROVE IInv
  OBVIOUS
<1>0. Len(Program) \in Nat /\ Recvs \in [Ranks -> SUBSET Ranks]
  BY ExchangeAssumption
<1>1. TypeInv
  BY <1>0 DEF Init, TypeInv, Messages
<1>2. ProgramInv
  <2>1. {j \in 1..(1 - 1) : Program[j].op = "update"} = {}
    OBVIOUS
  <2>2. UpdatesBefore(1) = 0
    BY <2>1, FS_EmptySet DEF UpdatesBefore
  <2> QED
    BY <2>2 DEF Init, ProgramInv
<1>3. RequestInv
  BY DEF Init, RequestInv
<1>4. QueueInv
  <2>1. ASSUME NEW r \in Ranks, NEW s \in Recvs[r]
        PROVE  /\ queue[s][r] = << >> /\ Posted(s) = 0 /\ Received(s, r) = 0
               /\ r \notin sending[s]
    <3>1. s \in Ranks
      BY <1>0, <2>1
    <3>2. waiting[s] = FALSE /\ waiting[r] = FALSE /\ updates[s] = 0 /\ updates[r] = 0
      BY <3>1, <2>1 DEF Init
    <3> QED
      BY <3>1, <3>2 DEF Init, Posted, Received
  <2> QED
    BY <2>1 DEF QueueInv, PairInv
<1>5. StrayInv
  BY DEF Init, StrayInv
<1> QED
  BY <1>1, <1>2, <1>3, <1>4, <1>5 DEF IInv
--------------------------------------------------------------------------------
\* The types are kept by every step.
LEMMA TypeStep == IInv /\ [Next]_vars => TypeInv'
<1> SUFFICES ASSUME IInv, [Next]_vars PROVE TypeInv'
  OBVIOUS
<1>0. TypeInv /\ Len(Program) \in Nat /\ Recvs \in [Ranks -> SUBSET Ranks]
      /\ Program \in Seq([op : {"update", "free"}, vec : Vectors])
  BY ExchangeAssumption DEF IInv
<1>1. ASSUME NEW r \in Ranks, InitVectorUpdate(r)
      PROVE  TypeInv'
  <2>1. Statement(r).vec \in Vectors
    BY <1>0, <1>1, StatementType DEF InitVectorUpdate, AtUpdate
  <2>2. Message(Statement(r).vec) \in Messages
    BY <2>1 DEF Message, Messages
  <2>3. queue' \in [Ranks -> [Ranks -> Seq(Messages)]]
    <3>1. \A s \in Ranks : Append(queue[r][s], Message(Statement(r).vec)) \in Seq(Messages)
      BY <1>0, <1>1, <2>2 DEF TypeInv
    <3> QED
      BY <1>0, <1>1, <3>1 DEF InitVectorUpdate, Startall, TypeInv
  <2>4. own' \in [Ranks -> [Vectors -> Nat]]
    BY <1>0, <1>1, <2>1 DEF InitVectorUpdate, TypeInv
  <2>5. recving' \in [Ranks -> SUBSET Ranks] /\ sending' \in [Ranks -> SUBSET Ranks]
    BY <1>0, <1>1 DEF InitVectorUpdate, Startall, TypeInv, Dests
  <2> QED
    BY <1>0, <1>1, <2>3, <2>4, <2>5 DEF InitVectorUpdate, TypeInv
<1>2. ASSUME NEW s \in Ranks, NEW r \in Ranks, Transfer(s, r)
      PROVE  TypeInv'
  <2> DEFINE m     == Head(queue[s][r])
             value == IF m.value = 0 THEN own[s][m.vec] ELSE m.value
  <2>1. queue[s][r] \in Seq(Messages) /\ queue[s][r] # << >> /\ s \in recving[r]
    BY <1>0, <1>2 DEF Transfer, TypeInv
  <2>2. m \in Messages /\ Tail(queue[s][r]) \in Seq(Messages)
    BY <2>1
  <2>3. value \in Nat
    BY <1>0, <2>2 DEF Messages, TypeInv
  <2>4. waiting[r] /\ AtUpdate(r) /\ s \in Recvs[r]
    BY <2>1 DEF IInv, RequestInv
  <2>5. Statement(r).vec \in Vectors
    BY <1>0, <2>4, StatementType DEF AtUpdate
  <2>6. ghost' = [ghost EXCEPT ![r][Statement(r).vec][s] = value]
    BY <1>2 DEF Transfer
  <2> HIDE DEF value
  <2>7. DOMAIN ghost' = Ranks /\ \A x \in Ranks : ghost'[x] \in [Vectors -> [Recvs[x] -> Nat]]
    BY <1>0, <2>3, <2>4, <2>5, <2>6 DEF TypeInv
  <2>8. queue' \in [Ranks -> [Ranks -> Seq(Messages)]]
    BY <1>0, <1>2, <2>2 DEF Transfer, TypeInv
  <2>9. recving' \in [Ranks -> SUBSET Ranks] /\ sending' \in [Ranks -> SUBSET Ranks]
    BY <1>0, <1>2 DEF Transfer, TypeInv
  <2> QED
    BY <1>0, <1>2, <2>7, <2>8, <2>9 DEF Transfer, TypeInv
<1>3. ASSUME NEW s \in Ranks, NEW r \in Ranks, Buffer(s, r)
      PROVE  TypeInv'
  <2> DEFINE q == queue[s][r]
             m == [vec |-> q[Len(q)].vec, value |-> own[s][q[Len(q)].vec]]
  <2>1. q \in Seq(Messages) /\ Len(q) > 0
    BY <1>0, <1>3 DEF Buffer, TypeInv
  <2>2. q[Len(q)] \in Messages
    BY <2>1
  <2>3. m \in Messages
    BY <1>0, <2>2 DEF Messages, TypeInv
  <2>4. queue' = [queue EXCEPT ![s][r] = [q EXCEPT ![Len(q)] = m]]
    BY <1>0, <1>3, <2>1 DEF Buffer, TypeInv
  <2>5. [q EXCEPT ![Len(q)] = m] \in Seq(Messages)
    BY <2>1, <2>3
  <2> HIDE DEF q, m
  <2>6. queue' \in [Ranks -> [Ranks -> Seq(Messages)]]
    BY <1>0, <2>4, <2>5 DEF TypeInv
  <2> QED
    BY <1>0, <1>3, <2>6 DEF Buffer, TypeInv
<1>4. ASSUME NEW r \in Ranks, FinalizeVectorUpdate(r)
      PROVE  TypeInv'
  <2>1. step[r] <= Len(Program)
    BY <1>4 DEF FinalizeVectorUpdate, IInv, RequestInv, AtUpdate
  <2> QED
    BY <1>0, <1>4, <2>1 DEF FinalizeVectorUpdate, TypeInv
<1>5. ASSUME NEW r \in Ranks, FreeVector(r)
      PROVE  TypeInv'
  <2>1. Statement(r).vec \in Vectors
    BY <1>0, <1>5, StatementType DEF FreeVector
  <2>2. own' \in [Ranks -> [Vectors -> Nat]]
    BY <1>0, <1>5, <2>1 DEF FreeVector, TypeInv
  <2>3. [s \in Recvs[r] |-> 0] \in [Recvs[r] -> Nat]
    OBVIOUS
  <2>4. DOMAIN ghost' = Ranks /\ \A x \in Ranks : ghost'[x] \in [Vectors -> [Recvs[x] -> Nat]]
    BY <1>0, <1>5, <2>1, <2>3 DEF FreeVector, TypeInv
  <2>5. step' \in [Ranks -> 1..(Len(Program) + 1)]
    BY <1>0, <1>5 DEF FreeVector, TypeInv
  <2> QED
    BY <1>0, <1>5, <2>2, <2>4, <2>5 DEF FreeVector, TypeInv
<1>6. CASE UNCHANGED vars
  BY <1>0, <1>6 DEF vars, TypeInv
<1> QED
  BY <1>1, <1>2, <1>3, <1>4, <1>5, <1>6 DEF Next, Rank

\* A rank counts an update exactly when it passes one.
LEMMA ProgramStep == IInv /\ [Next]_vars => ProgramInv'
<1> SUFFICES ASSUME IInv, [Next]_vars PROVE ProgramInv'
  OBVIOUS
<1>0. TypeInv /\ ProgramInv /\ Len(Program) \in Nat
  BY ExchangeAssumption DEF IInv
<1>1. ASSUME UNCHANGED <<step, updates>>
      PROVE  ProgramInv'
  BY <1>0, <1>1 DEF ProgramInv, UpdatesBefore
<1>2. ASSUME NEW r \in Ranks, step[r] <= Len(Program),
             step' = [step EXCEPT ![r] = @ + 1],
             updates' = [updates EXCEPT ![r] =
                           @ + (IF Statement(r).op = "update" THEN 1 ELSE 0)]
      PROVE  ProgramInv'
  <2>1. step[r] \in 1..Len(Program)
    BY <1>0, <1>2 DEF TypeInv
  <2>2. UpdatesBefore(step[r] + 1) =
          UpdatesBefore(step[r]) + (IF Statement(r).op = "update" THEN 1 ELSE 0)
    BY <2>1, CountUpdates DEF Statement
  <2>3. step'[r] = step[r] + 1
        /\ updates'[r] = updates[r] + (IF Statement(r).op = "update" THEN 1 ELSE 0)
        /\ \A x \in Ranks \ {r} : step'[x] = step[x] /\ updates'[x] = updates[x]
    BY <1>0, <1>2 DEF TypeInv
  <2>4. \A x \in Ranks : updates[x] = UpdatesBefore(step[x])
    BY <1>0 DEF ProgramInv
  <2>5. \A x \in Ranks : updates'[x] = UpdatesBefore(step'[x])
    BY <2>2, <2>3, <2>4
  <2> QED
    BY <2>5 DEF ProgramInv, UpdatesBefore
<1>3. ASSUME NEW r \in Ranks, FinalizeVectorUpdate(r)
      PROVE  ProgramInv'
  <2>1. AtUpdate(r)
    BY <1>3 DEF FinalizeVectorUpdate, IInv, RequestInv
  <2> QED
    BY <1>2, <1>3, <2>1 DEF FinalizeVectorUpdate, AtUpdate
<1>4. ASSUME NEW r \in Ranks, FreeVector(r)
      PROVE  ProgramInv'
  <2>1. updates' = [updates EXCEPT ![r] = @ + 0]
    BY <1>0, <1>4 DEF FreeVector, TypeInv
  <2> QED
    BY <1>2, <1>4, <2>1 DEF FreeVector
<1>5. ASSUME NEW r \in Ranks, InitVectorUpdate(r)
      PROVE  ProgramInv'
  BY <1>1, <1>5 DEF InitVectorUpdate
<1>6. ASSUME NEW s \in Ranks, NEW r \in Ranks, Transfer(s, r) \/ Buffer(s, r)
      PROVE  ProgramInv'
  BY <1>1, <1>6 DEF Transfer, Buffer
<1>7. CASE UNCHANGED vars
  BY <1>1, <1>7 DEF vars
<1> QED
  BY <1>3, <1>4, <1>5, <1>6, <1>7 DEF Next, Rank
--------------------------------------------------------------------------------
\* What Transfer writes into the ghost cells: the values of the update the
\* receiver is in, although messages carry no tag.
LEMMA TransferredValue ==
  ASSUME IInv, NEW s \in Ranks, NEW r \in Ranks, Transfer(s, r)
  PROVE  LET m == Head(queue[s][r])
         IN  (IF m.value = 0 THEN own[s][m.vec] ELSE m.value) = updates[r] + 1
<1> DEFINE q == queue[s][r]
           m == Head(q)
<1>1. q \in Seq(Messages) /\ q # << >> /\ s \in recving[r] /\ updates \in [Ranks -> Nat]
  BY DEF Transfer, IInv, TypeInv
<1>2. s \in Recvs[r] /\ waiting[r]
  BY <1>1 DEF IInv, RequestInv
<1>3. Len(q) > 0 /\ m = q[1] /\ Len(q) \in Nat /\ 1 \in 1..Len(q)
  BY <1>1
<1>4. Received(s, r) = updates[r]
  BY <1>1, <1>2 DEF Received
<1>5. PairInv(s, r)
  BY <1>2 DEF IInv, QueueInv
<1>6. CASE m.value = 0
  <2>1. Len(q) = 1 /\ r \in sending[s] /\ m.vec = Statement(s).vec
    BY <1>3, <1>5, <1>6 DEF PairInv
  <2>2. waiting[s] /\ own[s][Statement(s).vec] = updates[s] + 1
    BY <2>1 DEF IInv, RequestInv
  <2>3. Len(q) = (updates[s] + 1) - updates[r]
    BY <1>4, <1>5, <2>2 DEF PairInv, Posted
  <2>4. updates[s] = updates[r]
    <3>1. updates[s] \in Nat /\ updates[r] \in Nat
      BY <1>1
    <3>2. (updates[s] + 1) - updates[r] = 1
      BY <2>1, <2>3
    <3> QED
      BY <3>1, <3>2
  <2>5. own[s][m.vec] = updates[r] + 1
    BY <2>1, <2>2, <2>4
  <2> QED
    BY <1>6, <2>5
<1>7. CASE m.value # 0
  <2>1. m.value = updates[r] + 1
    BY <1>3, <1>4, <1>5, <1>7 DEF PairInv
  <2> QED
    BY <1>7, <2>1
<1> QED
  BY <1>6, <1>7

\* Open requests stay those of the update a rank is in.
LEMMA RequestStep == IInv /\ [Next]_vars => RequestInv'
<1> SUFFICES ASSUME IInv, [Next]_vars PROVE RequestInv'
  OBVIOUS
<1> USE DEF AtUpdate, Statement
<1>0. TypeInv /\ RequestInv /\ Recvs \in [Ranks -> SUBSET Ranks]
      /\ Program \in Seq([op : {"update", "free"}, vec : Vectors])
  BY ExchangeAssumption DEF IInv
<1>1. ASSUME NEW r \in Ranks, InitVectorUpdate(r)
      PROVE  RequestInv'
  <2>1. Statement(r).vec \in Vectors
    BY <1>0, <1>1, StatementType DEF InitVectorUpdate
  <2>2. /\ own'[r][Statement(r).vec] = updates[r] + 1
        /\ \A y \in Ranks \ {r} : own'[y] = own[y]
    BY <1>0, <1>1, <2>1 DEF InitVectorUpdate, TypeInv
  <2>3. /\ recving'[r] = Recvs[r] /\ sending'[r] = Dests(r) /\ waiting'[r]
        /\ \A y \in Ranks \ {r} : /\ recving'[y] = recving[y] /\ sending'[y] = sending[y]
                                  /\ waiting'[y] = waiting[y]
        /\ UNCHANGED <<step, updates, ghost>> /\ AtUpdate(r)
    BY <1>0, <1>1 DEF InitVectorUpdate, Startall, TypeInv
  <2> QED
    BY <1>0, <2>2, <2>3 DEF RequestInv, Dests
<1>2. ASSUME NEW s \in Ranks, NEW r \in Ranks, Transfer(s, r)
      PROVE  RequestInv'
  <2> DEFINE m     == Head(queue[s][r])
             value == IF m.value = 0 THEN own[s][m.vec] ELSE m.value
  <2>1. s \in recving[r] /\ waiting[r] /\ AtUpdate(r) /\ s \in Recvs[r]
    BY <1>0, <1>2 DEF Transfer, RequestInv
  <2>2. Statement(r).vec \in Vectors
    BY <1>0, <2>1, StatementType
  <2>3. value = updates[r] + 1
    BY <1>2, TransferredValue
  <2>4. ghost' = [ghost EXCEPT ![r][Statement(r).vec][s] = value]
    BY <1>2 DEF Transfer
  <2> HIDE DEF value
  <2>5. /\ ghost'[r][Statement(r).vec][s] = updates[r] + 1
        /\ \A y \in Recvs[r] \ {s} :
             ghost'[r][Statement(r).vec][y] = ghost[r][Statement(r).vec][y]
        /\ \A y \in Ranks \ {r} : ghost'[y] = ghost[y]
    <3> DEFINE v == Statement(r).vec
    <3>1. ghost[r] \in [Vectors -> [Recvs[r] -> Nat]] /\ DOMAIN ghost = Ranks
      BY <1>0 DEF TypeInv
    <3>2. /\ ghost'[r] = [ghost[r] EXCEPT ![v][s] = value]
          /\ \A y \in Ranks \ {r} : ghost'[y] = ghost[y]
      BY <2>4, <3>1
    <3> HIDE DEF v
    <3>3. ghost'[r][v] = [ghost[r][v] EXCEPT ![s] = value]
      BY <2>2, <3>1, <3>2 DEF v
    <3>4. ghost[r][v] \in [Recvs[r] -> Nat]
      BY <2>2, <3>1 DEF v
    <3>5. /\ ghost'[r][v][s] = value
          /\ \A y \in Recvs[r] \ {s} : ghost'[r][v][y] = ghost[r][v][y]
      BY <2>1, <3>3, <3>4
    <3> QED
      BY <2>3, <3>2, <3>5 DEF v
  <2>6. /\ recving'[r] = recving[r] \ {s}
        /\ \A y \in Ranks \ {r} : recving'[y] = recving[y]
        /\ \A y \in Ranks : sending'[y] \subseteq sending[y]
        /\ UNCHANGED <<step, updates, own, waiting>>
    BY <1>0, <1>2 DEF Transfer, TypeInv
  <2> QED
    BY <1>0, <2>5, <2>6 DEF RequestInv, Dests
<1>3. ASSUME NEW s \in Ranks, NEW r \in Ranks, Buffer(s, r)
      PROVE  RequestInv'
  <2>1. /\ \A y \in Ranks : sending'[y] \subseteq sending[y]
        /\ UNCHANGED <<step, updates, own, waiting, recving, ghost>>
    BY <1>0, <1>3 DEF Buffer, TypeInv
  <2> QED
    BY <1>0, <2>1 DEF RequestInv, Dests
<1>4. ASSUME NEW r \in Ranks, FinalizeVectorUpdate(r) \/ FreeVector(r)
      PROVE  RequestInv'
  <2>1. recving[r] = {} /\ sending[r] = {} /\ ~waiting'[r]
    <3>1. CASE FinalizeVectorUpdate(r)
      BY <1>0, <3>1 DEF FinalizeVectorUpdate, AllComplete, TypeInv
    <3>2. CASE FreeVector(r)
      <4>1. ~waiting[r] /\ waiting' = waiting
        BY <1>0, <3>2 DEF FreeVector, RequestInv, TypeInv
      <4> QED
        BY <1>0, <4>1 DEF RequestInv
    <3> QED
      BY <1>4, <3>1, <3>2
  <2>2. /\ UNCHANGED <<recving, sending>>
        /\ \A y \in Ranks \ {r} : /\ step'[y] = step[y] /\ updates'[y] = updates[y]
                                  /\ waiting'[y] = waiting[y]
                                  /\ own'[y] = own[y] /\ ghost'[y] = ghost[y]
    BY <1>0, <1>4 DEF FinalizeVectorUpdate, FreeVector, TypeInv
  <2> QED
    BY <1>0, <2>1, <2>2 DEF RequestInv, Dests
<1>5. CASE UNCHANGED vars
  BY <1>0, <1>5 DEF vars, RequestInv, Dests
<1> QED
  BY <1>1, <1>2, <1>3, <1>4, <1>5 DEF Next, Rank

\* The queues keep holding what is posted and not received, in order.
LEMMA QueueStep == IInv /\ [Next]_vars => QueueInv'
<1> SUFFICES ASSUME IInv, [Next]_vars, NEW r \in Ranks, NEW s \in Recvs[r]
             PROVE  PairInv(s, r)'
  BY DEF QueueInv
<1> DEFINE q == queue[s][r]
<1>0. TypeInv /\ RequestInv /\ PairInv(s, r) /\ s \in Ranks /\ s # r
  BY ExchangeAssumption DEF IInv, QueueInv
<1>1. q \in Seq(Messages) /\ Len(q) \in Nat
  BY <1>0 DEF TypeInv
<1>2. /\ updates[s] \in Nat /\ updates[r] \in Nat
      /\ Received(s, r) \in Nat /\ Posted(s) \in Nat
  BY <1>0 DEF TypeInv, Received, Posted
\* Nothing that matters to the pair changes.
<1>3. ASSUME Posted(s)' = Posted(s), Received(s, r)' = Received(s, r),
             queue'[s][r] = queue[s][r],
             r \in sending'[s] <=> r \in sending[s],
             r \in sending[s] => Statement(s)' = Statement(s), ssend' = ssend
      PROVE  PairInv(s, r)'
  <2>1. \A i \in 1..Len(q) : q[i].value = 0 => /\ i = Len(q) /\ r \in sending'[s]
                                              /\ q[i].vec = Statement(s)'.vec
    BY <1>0, <1>3 DEF PairInv
  <2>2. \A i \in 1..Len(q) :
          q[i].value # 0 => ~ssend' /\ q[i].value = Received(s, r)' + i
    BY <1>0, <1>3 DEF PairInv
  <2>3. Len(q) = Posted(s)' - Received(s, r)'
    BY <1>0, <1>3 DEF PairInv
  <2>4. r \in sending'[s] => Len(q) > 0 /\ q[Len(q)].value = 0
    BY <1>0, <1>3 DEF PairInv
  <2> QED
    BY <1>3, <2>1, <2>2, <2>3, <2>4 DEF PairInv
<1>4. ASSUME NEW a \in Ranks, InitVectorUpdate(a)
      PROVE  PairInv(s, r)'
  <2>1. /\ \A y \in Ranks : waiting'[y] = IF y = a THEN TRUE ELSE waiting[y]
        /\ \A y \in Ranks : recving'[y] = IF y = a THEN Recvs[a] ELSE recving[y]
        /\ \A y \in Ranks : sending'[y] = IF y = a THEN Dests(a) ELSE sending[y]
        /\ \A y \in Ranks \ {a} : queue'[y] = queue[y]
        /\ UNCHANGED <<ssend, step, updates>> /\ ~waiting[a]
    BY <1>0, <1>4 DEF InitVectorUpdate, Startall, TypeInv
  <2>2. Received(s, r)' = Received(s, r)
    BY <1>0, <2>1 DEF Received
  <2>3. CASE a = s
    <3> DEFINE m == Message(Statement(s).vec)
    <3>1. r \in Dests(s) /\ queue'[s][r] = Append(q, m)
      BY <1>0, <1>4, <2>3 DEF InitVectorUpdate, Startall, Dests, TypeInv
    <3>2. m.value = 0 /\ m.vec = Statement(s).vec
      BY DEF Message
    <3>3. m \in Messages
      <4>1. Statement(s).vec \in Vectors
        BY <1>0, <1>4, <2>3, StatementType DEF InitVectorUpdate, AtUpdate
      <4> QED
        BY <4>1 DEF Message, Messages
    <3> DEFINE p == Append(q, m)
    <3> HIDE DEF m, q
    <3>4. /\ Len(p) = Len(q) + 1 /\ p[Len(q) + 1] = m
          /\ \A i \in 1..Len(q) : p[i] = q[i]
      BY <1>1, <3>3
    <3> HIDE DEF p
    <3>5. Posted(s)' = Posted(s) + 1 /\ Statement(s)' = Statement(s)
      <4>1. updates'[s] = updates[s] /\ waiting'[s] /\ ~waiting[s] /\ step' = step
        BY <1>0, <2>1, <2>3
      <4> QED
        BY <1>2, <4>1 DEF Posted, Statement
    <3>6. r \in sending'[s] /\ r \notin sending[s]
      BY <1>0, <2>1, <2>3, <3>1 DEF RequestInv
    <3>7. Len(q) = Posted(s) - Received(s, r)
      BY <1>0 DEF PairInv, q
    <3>8. \A i \in 1..Len(q) : /\ q[i].value # 0 /\ ~ssend
                              /\ q[i].value = Received(s, r) + i
      BY <1>0, <3>6 DEF PairInv, q
    <3>9. Len(p) = Posted(s)' - Received(s, r)'
      BY <1>1, <1>2, <2>2, <3>4, <3>5, <3>7
    <3>10. \A i \in 1..Len(p) :
             /\ p[i].value = 0 => i = Len(p) /\ p[i].vec = Statement(s)'.vec
             /\ p[i].value # 0 => ~ssend' /\ p[i].value = Received(s, r)' + i
      <4> SUFFICES ASSUME NEW i \in 1..Len(p)
                   PROVE  /\ p[i].value = 0 => i = Len(p) /\ p[i].vec = Statement(s)'.vec
                          /\ p[i].value # 0 => ~ssend' /\ p[i].value = Received(s, r)' + i
        OBVIOUS
      <4>1. CASE i = Len(q) + 1
        BY <3>2, <3>4, <3>5, <4>1
      <4>2. CASE i # Len(q) + 1
        <5>1. i \in 1..Len(q)
          BY <1>1, <3>4, <4>2
        <5> QED
          BY <2>1, <2>2, <3>4, <3>8, <5>1
      <4> QED
        BY <4>1, <4>2
    <3>11. Len(p) > 0 /\ p[Len(p)].value = 0
      BY <1>1, <3>2, <3>4
    <3>12. queue'[s][r] = p
      BY <3>1 DEF p
    <3> QED
      BY <3>6, <3>9, <3>10, <3>11, <3>12 DEF PairInv
  <2>4. CASE a # s
    <3>1. Posted(s)' = Posted(s) /\ Statement(s)' = Statement(s)
      BY <1>0, <2>1, <2>4 DEF Posted, Statement
    <3> QED
      BY <1>0, <1>3, <2>1, <2>2, <2>4, <3>1
  <2> QED
    BY <2>3, <2>4
<1>5. ASSUME NEW b \in Ranks, NEW a \in Ranks, Transfer(b, a)
      PROVE  PairInv(s, r)'
  <2>1. /\ \A y \in Ranks : recving'[y] = IF y = a THEN recving[a] \ {b} ELSE recving[y]
        /\ \A x, y \in Ranks : queue'[x][y] = IF x = b /\ y = a THEN Tail(queue[b][a])
                                              ELSE queue[x][y]
        /\ \A y \in Ranks :
             sending'[y] = IF y = b /\ Head(queue[b][a]).value = 0
                           THEN sending[b] \ {a} ELSE sending[y]
        /\ UNCHANGED <<ssend, step, updates, waiting>>
        /\ b \in recving[a] /\ queue[b][a] # << >>
    BY <1>0, <1>5 DEF Transfer, TypeInv
  <2>2. Posted(s)' = Posted(s) /\ Statement(s)' = Statement(s)
    BY <2>1 DEF Posted, Statement
  <2>3. CASE b = s /\ a = r
    <3> DEFINE p == Tail(q)
    <3>1. queue'[s][r] = p /\ q # << >>
      BY <1>0, <2>1, <2>3
    <3>2. Received(s, r)' = Received(s, r) + 1
      <4>1. waiting[r] /\ s \in recving[r] /\ s \notin recving'[r]
        BY <1>0, <2>1, <2>3 DEF RequestInv
      <4> QED
        BY <1>2, <2>1, <4>1 DEF Received
    <3> HIDE DEF q
    <3>3. /\ Len(p) = Len(q) - 1 /\ Len(q) > 0 /\ Head(q) = q[1]
          /\ \A i \in 1..Len(p) : i + 1 \in 1..Len(q) /\ p[i] = q[i + 1]
      BY <1>1, <3>1
    <3> HIDE DEF p
    <3>4. Len(p) = Posted(s)' - Received(s, r)'
      <4>1. Len(q) = Posted(s) - Received(s, r)
        BY <1>0 DEF PairInv, q
      <4> QED
        BY <1>1, <1>2, <2>2, <3>2, <3>3, <4>1
    <3>5. CASE q[1].value = 0
      <4>1. Len(q) = 1
        BY <1>0, <1>1, <3>3, <3>5 DEF PairInv, q
      <4>2. Len(p) = 0
        BY <3>3, <4>1
      <4>3. r \notin sending'[s]
        BY <1>0, <2>1, <2>3, <3>3, <3>5 DEF q
      <4> QED
        BY <3>1, <3>4, <4>2, <4>3 DEF PairInv
    <3>6. CASE q[1].value # 0
      <4>1. sending'[s] = sending[s]
        BY <1>0, <2>1, <2>3, <3>3, <3>6 DEF q
      <4>2. r \in sending[s] => Len(p) > 0 /\ p[Len(p)] = q[Len(q)] /\ q[Len(q)].value = 0
        <5> SUFFICES ASSUME r \in sending[s]
                     PROVE  Len(p) > 0 /\ p[Len(p)] = q[Len(q)] /\ q[Len(q)].value = 0
          OBVIOUS
        <5>1. q[Len(q)].value = 0
          BY <1>0 DEF PairInv, q
        <5>2. Len(q) # 1
          BY <3>6, <5>1
        <5>3. Len(p) > 0 /\ Len(p) \in 1..Len(p) /\ Len(p) + 1 = Len(q)
          BY <1>1, <3>3, <5>2
        <5> QED
          BY <3>3, <5>1, <5>3
      <4>3. \A i \in 1..Len(p) :
              /\ p[i].value = 0 => /\ i = Len(p) /\ r \in sending'[s]
                                   /\ p[i].vec = Statement(s)'.vec
              /\ p[i].value # 0 => ~ssend' /\ p[i].value = Received(s, r)' + i
        <5> SUFFICES ASSUME NEW i \in 1..Len(p)
                     PROVE  /\ p[i].value = 0 => /\ i = Len(p) /\ r \in sending'[s]
                                                 /\ p[i].vec = Statement(s)'.vec
                            /\ p[i].value # 0 => ~ssend' /\ p[i].value = Received(s, r)' + i
          OBVIOUS
        <5>1. i + 1 \in 1..Len(q) /\ p[i] = q[i + 1] /\ i \in Nat
          BY <3>3
        <5>2. /\ q[i + 1].value = 0 => /\ i + 1 = Len(q) /\ r \in sending[s]
                                       /\ q[i + 1].vec = Statement(s).vec
              /\ q[i + 1].value # 0 => ~ssend /\ q[i + 1].value = Received(s, r) + (i + 1)
          BY <1>0, <5>1 DEF PairInv, q
        <5>3. i + 1 = Len(q) => i = Len(p)
          BY <1>1, <3>3, <5>1
        <5>4. Received(s, r) + (i + 1) = Received(s, r)' + i
          BY <1>2, <3>2, <5>1
        <5> QED
          BY <2>1, <2>2, <4>1, <5>1, <5>2, <5>3, <5>4
      <4> QED
        BY <3>1, <3>4, <4>1, <4>2, <4>3 DEF PairInv
    <3> QED
      BY <3>5, <3>6
  <2>4. CASE ~(b = s /\ a = r)
    <3>1. Received(s, r)' = Received(s, r)
      BY <1>0, <2>1, <2>4 DEF Received
    <3>2. queue'[s][r] = queue[s][r] /\ (r \in sending'[s] <=> r \in sending[s])
      BY <1>0, <2>1, <2>4
    <3> QED
      BY <1>3, <2>1, <2>2, <3>1, <3>2
  <2> QED
    BY <2>3, <2>4
<1>6. ASSUME NEW b \in Ranks, NEW a \in Ranks, Buffer(b, a)
      PROVE  PairInv(s, r)'
  <2>1. /\ \A y \in Ranks : sending'[y] = IF y = b THEN sending[b] \ {a} ELSE sending[y]
        /\ UNCHANGED <<ssend, step, updates, waiting, recving, own>>
        /\ a \in sending[b] /\ ~ssend
    BY <1>0, <1>6 DEF Buffer, TypeInv
  <2>2. Posted(s)' = Posted(s) /\ Statement(s)' = Statement(s)
        /\ Received(s, r)' = Received(s, r)
    BY <2>1 DEF Posted, Statement, Received
  <2>3. CASE b = s /\ a = r
    <3> DEFINE m == [vec |-> q[Len(q)].vec, value |-> own[s][q[Len(q)].vec]]
               p == [q EXCEPT ![Len(q)] = m]
    <3>1. queue'[s][r] = p
      BY <1>0, <1>6, <2>3 DEF Buffer, TypeInv
    <3>2. Len(q) > 0 /\ q[Len(q)].value = 0 /\ q[Len(q)].vec = Statement(s).vec
      <4>1. Len(q) > 0 /\ q[Len(q)].value = 0
        BY <1>0, <2>1, <2>3 DEF PairInv
      <4>2. Len(q) \in 1..Len(q)
        BY <1>1, <4>1
      <4> QED
        BY <1>0, <4>1, <4>2 DEF PairInv
    <3>3. waiting[s] /\ own[s][Statement(s).vec] = updates[s] + 1
      BY <1>0, <2>1, <2>3 DEF RequestInv
    <3>4. m.value = Posted(s) /\ Posted(s) = updates[s] + 1
      BY <3>2, <3>3 DEF Posted
    <3> HIDE DEF m, q
    <3>5. Len(p) = Len(q) /\ p[Len(q)] = m /\ \A i \in 1..(Len(q) - 1) : p[i] = q[i]
      BY <1>1, <3>2
    <3> HIDE DEF p
    <3>6. Len(q) = Posted(s) - Received(s, r)
      BY <1>0 DEF PairInv, q
    <3>7. \A i \in 1..Len(p) : p[i].value # 0 /\ p[i].value = Received(s, r) + i
      <4> SUFFICES ASSUME NEW i \in 1..Len(p)
                   PROVE  p[i].value # 0 /\ p[i].value = Received(s, r) + i
        OBVIOUS
      <4>1. CASE i = Len(q)
        BY <1>1, <1>2, <3>4, <3>5, <3>6, <4>1
      <4>2. CASE i # Len(q)
        <5>1. i \in 1..(Len(q) - 1) /\ i \in 1..Len(q)
          BY <1>1, <3>5, <4>2
        <5>2. q[i].value # 0 => q[i].value = Received(s, r) + i
          BY <1>0, <5>1 DEF PairInv, q
        <5>3. q[i].value = 0 => i = Len(q)
          BY <1>0, <5>1 DEF PairInv, q
        <5> QED
          BY <3>5, <4>2, <5>1, <5>2, <5>3
      <4> QED
        BY <4>1, <4>2
    <3>8. r \notin sending'[s]
      BY <1>0, <2>1, <2>3
    <3> QED
      BY <2>1, <2>2, <3>1, <3>5, <3>6, <3>7, <3>8 DEF PairInv, p
  <2>4. CASE ~(b = s /\ a = r)
    <3>1. queue'[s][r] = queue[s][r]
      BY <1>0, <1>6, <2>4 DEF Buffer, TypeInv
    <3>2. r \in sending'[s] <=> r \in sending[s]
      BY <1>0, <2>1, <2>4
    <3> QED
      BY <1>3, <2>1, <2>2, <3>1, <3>2
  <2> QED
    BY <2>3, <2>4
<1>7. ASSUME NEW a \in Ranks, FinalizeVectorUpdate(a)
      PROVE  PairInv(s, r)'
  <2>1. /\ \A y \in Ranks : waiting'[y] = IF y = a THEN FALSE ELSE waiting[y]
        /\ \A y \in Ranks : updates'[y] = IF y = a THEN updates[a] + 1 ELSE updates[y]
        /\ \A y \in Ranks : step'[y] = IF y = a THEN step[a] + 1 ELSE step[y]
        /\ UNCHANGED <<ssend, recving, sending, queue>>
        /\ waiting[a] /\ recving[a] = {} /\ sending[a] = {}
    BY <1>0, <1>7 DEF FinalizeVectorUpdate, AllComplete, TypeInv
  <2>2. Posted(s)' = Posted(s) /\ Received(s, r)' = Received(s, r)
    <3>1. Posted(s)' = Posted(s)
      <4>1. \/ /\ waiting[s] /\ ~waiting'[s] /\ updates'[s] = updates[s] + 1
            \/ (waiting'[s] <=> waiting[s]) /\ updates'[s] = updates[s]
        BY <1>0, <2>1
      <4> QED
        BY <1>2, <4>1 DEF Posted
    <3>2. Received(s, r)' = Received(s, r)
      <4>1. \/ /\ waiting[r] /\ s \notin recving[r] /\ ~waiting'[r]
               /\ updates'[r] = updates[r] + 1
            \/ (waiting'[r] <=> waiting[r]) /\ updates'[r] = updates[r] /\ recving' = recving
        BY <1>0, <2>1
      <4> QED
        BY <1>2, <4>1 DEF Received
    <3> QED
      BY <3>1, <3>2
  <2>3. r \in sending[s] => Statement(s)' = Statement(s)
    BY <1>0, <2>1 DEF Statement
  <2> QED
    BY <1>3, <2>1, <2>2, <2>3
<1>8. ASSUME NEW a \in Ranks, FreeVector(a)
      PROVE  PairInv(s, r)'
  <2>1. /\ \A y \in Ranks : step'[y] = IF y = a THEN step[a] + 1 ELSE step[y]
        /\ UNCHANGED <<ssend, waiting, updates, recving, sending, queue>>
    BY <1>0, <1>8 DEF FreeVector, TypeInv
  <2>2. Posted(s)' = Posted(s) /\ Received(s, r)' = Received(s, r)
    BY <2>1 DEF Posted, Received
  <2>3. sending[a] = {}
    BY <1>0, <1>8 DEF FreeVector, RequestInv, AtUpdate
  <2>4. r \in sending[s] => Statement(s)' = Statement(s)
    BY <1>0, <2>1, <2>3 DEF Statement
  <2> QED
    BY <1>3, <2>1, <2>2, <2>4
<1>9. CASE UNCHANGED vars
  BY <1>3, <1>9 DEF vars, Posted, Received, Statement
<1> QED
  BY <1>4, <1>5, <1>6, <1>7, <1>8, <1>9 DEF Next, Rank

LEMMA StrayStep == IInv /\ [Next]_vars => StrayInv'
<1> SUFFICES ASSUME IInv, [Next]_vars, NEW r \in Ranks, NEW s \in Ranks \ Recvs[r]
             PROVE  queue'[s][r] = << >>
  BY DEF StrayInv
<1>0. TypeInv /\ RequestInv /\ queue[s][r] = << >>
  BY DEF IInv, StrayInv
<1>1. ASSUME NEW a \in Ranks, InitVectorUpdate(a)
      PROVE  queue'[s][r] = queue[s][r]
  BY <1>0, <1>1 DEF InitVectorUpdate, Startall, Dests, TypeInv
<1>2. ASSUME NEW b \in Ranks, NEW a \in Ranks, Transfer(b, a)
      PROVE  queue'[s][r] = queue[s][r]
  <2>1. b \in Recvs[a]
    BY <1>0, <1>2 DEF Transfer, RequestInv
  <2> QED
    BY <1>0, <1>2, <2>1 DEF Transfer, TypeInv
<1>3. ASSUME NEW b \in Ranks, NEW a \in Ranks, Buffer(b, a)
      PROVE  queue'[s][r] = queue[s][r]
  <2>1. a \in Dests(b)
    BY <1>0, <1>3 DEF Buffer, RequestInv
  <2> QED
    BY <1>0, <1>3, <2>1 DEF Buffer, Dests, TypeInv
<1>4. ASSUME NEW a \in Ranks, FinalizeVectorUpdate(a) \/ FreeVector(a)
      PROVE  queue'[s][r] = queue[s][r]
  BY <1>4 DEF FinalizeVectorUpdate, FreeVector
<1>5. CASE UNCHANGED vars
  BY <1>0, <1>5 DEF vars
<1> QED
  BY <1>0, <1>1, <1>2, <1>3, <1>4, <1>5 DEF Next, Rank
--------------------------------------------------------------------------------
\* IInv is an invariant of the exchange.
LEMMA Invariance == Spec => []IInv
<1>1. IInv /\ [Next]_vars => IInv'
  BY TypeStep, ProgramStep, RequestStep, QueueStep, StrayStep DEF IInv
<1> QED
  BY <1>1, InitInv, PTL DEF Spec

\* With requests that complete on receipt, a rank has at most one message on its
\* way to a neighbour, and the receive that is posted for it is that of the same
\* update of the same vector (amps_IExchangePackage, all messages with tag 0).
THEOREM AtMostOneMessage == Spec => []OneMessagePerNeighbour
<1>1. IInv => OneMessagePerNeighbour
  <2> SUFFICES ASSUME IInv, ssend, NEW s \in Ranks, NEW r \in Ranks
               PROVE  /\ Len(queue[s][r]) <= 1
                      /\ queue[s][r] # << >> /\ s \in recving[r] =>
                           /\ Head(queue[s][r]).vec = Statement(r).vec
                           /\ updates[s] = updates[r]
    BY DEF OneMessagePerNeighbour
  <2> DEFINE q == queue[s][r]
  <2>1. q \in Seq(Messages) /\ Len(q) \in Nat
    BY DEF IInv, TypeInv
  <2>2. CASE s \notin Recvs[r]
    BY <2>2 DEF IInv, StrayInv
  <2>3. CASE s \in Recvs[r]
    <3>1. PairInv(s, r)
      BY <2>3 DEF IInv, QueueInv
    <3>2. \A i \in 1..Len(q) : i = Len(q) /\ q[i].value = 0
      BY <3>1 DEF PairInv
    <3>3. Len(q) <= 1
      <4> HIDE DEF q
      <4>1. Len(q) > 0 => 1 \in 1..Len(q)
        BY <2>1
      <4> QED
        BY <2>1, <3>2, <4>1
    <3>4. ASSUME q # << >>, s \in recving[r]
          PROVE  Head(q).vec = Statement(r).vec /\ updates[s] = updates[r]
      <4> HIDE DEF q
      <4>1. Len(q) = 1 /\ Head(q) = q[1] /\ 1 \in 1..Len(q)
        <5>1. q # << >>
          BY <3>4 DEF q
        <5>2. Len(q) # 0
          BY <2>1, <5>1
        <5>3. Len(q) = 1
          <6> DEFINE n == Len(q)
          <6>1. n \in Nat /\ n <= 1 /\ n # 0
            BY <2>1, <3>3, <5>2
          <6> HIDE DEF n
          <6>2. n = 1
            BY <6>1
          <6> QED
            BY <6>2 DEF n
        <5> QED
          BY <2>1, <5>1, <5>3
      <4>2. q[1].value = 0
        BY <3>2, <4>1
      <4>3. r \in sending[s] /\ q[1].vec = Statement(s).vec
            /\ Len(q) = Posted(s) - Received(s, r)
        BY <3>1, <4>1, <4>2 DEF PairInv, q
      <4>4. waiting[s] /\ AtUpdate(s) /\ waiting[r] /\ AtUpdate(r)
        BY <3>4, <4>3 DEF IInv, RequestInv
      <4>5. Posted(s) = updates[s] + 1 /\ Received(s, r) = updates[r]
            /\ updates[s] \in Nat /\ updates[r] \in Nat
        BY <3>4, <4>4 DEF Posted, Received, IInv, TypeInv
      <4>6. updates[s] = updates[r]
        BY <4>1, <4>3, <4>5
      <4>7. step[r] = step[s]
        BY <4>4, <4>6, SameUpdateSameStatement DEF IInv
      <4> QED
        BY <4>1, <4>3, <4>6, <4>7 DEF Statement
    <3> QED
      BY <3>3, <3>4
  <2> QED
    BY <2>2, <2>3
<1> QED
  BY <1>1, Invariance, PTL

\* The exchange implements GhostUpdate: when FinalizeVectorUpdate returns on a
\* rank, the ghost cells it goes on to compute with hold the values every
\* neighbour had for the same update, in both builds and however far the ranks
\* have run ahead of each other.
THEOREM ExchangeImplementsGhostUpdate == Spec => ImplementsGhostUpdate
<1>1. Init => Ghosts!Init
  BY DEF Init, Ghosts!Init
<1>2. IInv /\ [Next]_vars => [Ghosts!Next]_(Ghosts!ghostVars)
  <2> SUFFICES ASSUME IInv, [Next]_vars
               PROVE  Ghosts!Next \/ UNCHANGED Ghosts!ghostVars
    OBVIOUS
  <2>1. ASSUME NEW r \in Ranks, FinalizeVectorUpdate(r)
        PROVE  Ghosts!Update(r)
    <3> DEFINE v == Statement(r).vec
    <3>1. waiting[r] /\ recving[r] = {} /\ AtUpdate(r) /\ updates[r] \in Nat
          /\ Recvs[r] \subseteq Ranks
      BY <2>1, ExchangeAssumption
      DEF FinalizeVectorUpdate, AllComplete, IInv, RequestInv, TypeInv
    <3>2. \A s \in Recvs[r] : updates[s] >= updates[r]
      <4> SUFFICES ASSUME NEW s \in Recvs[r] PROVE updates[s] >= updates[r]
        OBVIOUS
      <4>1. Received(s, r) = updates[r] + 1
        BY <3>1 DEF Received
      <4>2. updates[s] \in Nat /\ (Posted(s) = updates[s] \/ Posted(s) = updates[s] + 1)
        BY <3>1 DEF Posted, IInv, TypeInv
      <4>3. Len(queue[s][r]) = Posted(s) - Received(s, r) /\ Len(queue[s][r]) \in Nat
        BY <3>1 DEF IInv, TypeInv, QueueInv, PairInv
      <4> QED
        BY <3>1, <4>1, <4>2, <4>3
    <3>3. ghost[r][v] = [s \in Recvs[r] |-> updates[r] + 1]
      <4>1. v \in Vectors
        BY <3>1, StatementType DEF AtUpdate, IInv
      <4>2. ghost[r][v] \in [Recvs[r] -> Nat]
        BY <4>1 DEF IInv, TypeInv
      <4>3. \A s \in Recvs[r] : ghost[r][v][s] = updates[r] + 1
        BY <3>1 DEF IInv, RequestInv
      <4> QED
        BY <4>2, <4>3
    <3>4. /\ updates' = [updates EXCEPT ![r] = @ + 1]
          /\ result' = [result EXCEPT ![r] = ghost[r][v]]
      BY <2>1 DEF FinalizeVectorUpdate
    <3> QED
      BY <3>2, <3>3, <3>4 DEF Ghosts!Update
  <2>2. ASSUME NEW r \in Ranks, InitVectorUpdate(r) \/ FreeVector(r)
        PROVE  UNCHANGED Ghosts!ghostVars
    BY <2>2 DEF InitVectorUpdate, FreeVector, Ghosts!ghostVars
  <2>3. ASSUME NEW s \in Ranks, NEW r \in Ranks, Transfer(s, r) \/ Buffer(s, r)
        PROVE  UNCHANGED Ghosts!ghostVars
    BY <2>3 DEF Transfer, Buffer, Ghosts!ghostVars
  <2>4. CASE UNCHANGED vars
    BY <2>4 DEF vars, Ghosts!ghostVars
  <2> QED
    BY <2>1, <2>2, <2>3, <2>4 DEF Next, Rank, Ghosts!Next
<1> QED
  BY <1>1, <1>2, Invariance, PTL DEF Spec, ImplementsGhostUpdate, Ghosts!Spec
================================================================================
