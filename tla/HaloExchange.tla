---------------------------- MODULE HaloExchange ----------------------------
(***************************************************************************)
(* Halo exchange groups (framework/mpas_halo.F).  A group of fields has    *)
(* one message for each pair of neighbours: the sections of all its fields *)
(* and all the halo layers each of them exchanges, one after the other.    *)
(* Where a section starts is worked out on both sides when the group is    *)
(* made.  An exchange posts its receives, packs, posts its sends, unpacks  *)
(* the messages in the order of their arrival and waits for its sends; all *)
(* messages from one task to another carry the same tag.                   *)
(*                                                                         *)
(* Each task owns one block.  It runs a program of exchanges, changing its *)
(* elements between them.  Element c of field f is Inner[f] numbers long.  *)
(***************************************************************************)
EXTENDS Integers, FiniteSets, Sequences, Functions

CONSTANTS
    nprocs,     \* tasks are 0 .. nprocs - 1
    Owned,      \* the elements of each task
    Halo,       \* for each task the sequence over layers of its sets of halo elements
    Layers,     \* for each field the set of halo layers to exchange
    Inner,      \* for each field the product of its inner dimensions
    Program     \* groups to exchange, each the sequence of its fields in the order
                \* the group's pool returns them, which is the same on all tasks

\* The active layers of a field that refactor_lists has room for in nSendLists and
\* nRecvLists; a field with more is written out of their bounds.
MaxHalos == 3

Procs  == 0 .. nprocs - 1
Fields == DOMAIN Layers
Elements == UNION {Owned[p] : p \in Procs}

ASSUME SizesAssumption ==
    /\ nprocs \in Nat \ {0} /\ Program \in Seq(Seq(Fields))
    /\ \A f \in Fields : Inner[f] \in Nat \ {0}
ASSUME ElementsAssumption ==
    /\ \A p \in Procs : IsFiniteSet(Owned[p]) /\ Owned[p] \subseteq Int
    /\ \A f \in Fields : IsFiniteSet(Layers[f]) /\ Layers[f] \subseteq Int
ASSUME LayersAssumption == \A f \in Fields : Cardinality(Layers[f]) <= MaxHalos
ASSUME OwnersAssumption ==
    \A p, q \in Procs : p # q => Owned[p] \cap Owned[q] = {}
ASSUME HaloAssumption ==
    \A p \in Procs : /\ \A h \in DOMAIN Halo[p] : Halo[p][h] \subseteq Elements \ Owned[p]
                     /\ \A f \in Fields : Layers[f] \subseteq DOMAIN Halo[p]

VARIABLES
    pc,          \* where each task is in mpas_halo_exch_group_full_halo_exch
    round,       \* exchanges each task has begun
    array,       \* the fields of each task, number by number
    sendBuf, recvBuf,            \* the buffers of every group
    sendRequests, recvRequests,  \* requests that are not complete
    completed,   \* receives that are complete and not yet returned by MPI_Waitany
    wire         \* messages under way, by sender and receiver, in order

requests == <<sendRequests, recvRequests, completed>>
vars == <<pc, round, array, sendBuf, recvBuf, requests, wire>>

-----------------------------------------------------------------------------
(* Sequences of what is in a set of pairs of integers, and sums of sequences *)

Precedes(x, y) == x[1] < y[1] \/ (x[1] = y[1] /\ x[2] <= y[2])
Place(S, x) == Cardinality({y \in S : Precedes(y, x)})
InOrder(S) == [n \in 1 .. Cardinality(S) |-> CHOOSE x \in S : Place(S, x) = n]

\* The values of the function s on pairs, each where it comes first.
Unique(s) ==
    LET first == {x \in DOMAIN s : \A y \in DOMAIN s : s[y] = s[x] => Precedes(x, y)}
    IN  [n \in 1 .. Cardinality(first) |-> s[InOrder(first)[n]]]

\* Sums(a)[n] is the sum of the first n members of a.
Sums(a) == LET sum[n \in 0 .. Len(a)] == IF n = 0 THEN 0 ELSE sum[n - 1] + a[n] IN sum

-----------------------------------------------------------------------------
(* Exchange lists *)

\* The elements p sends to q for one halo layer, in increasing order in the lists of
\* both, and the order the lists of p are built in: the results of module ExchangeLists.
ExchList(p, q, h) == Owned[p] \cap Halo[q][h]
SendOrder(p) == [n \in 1 .. nprocs - 1 |-> (p + nprocs - n) % nprocs]
RecvOrder(p) == [n \in 1 .. nprocs - 1 |-> IF n <= p THEN n - 1 ELSE n]

\* mpas_halo_compact_halo_info: what p sends to q of the field f, its layers one
\* after the other, as pairs of the layer and the element.
Section(p, q, f) ==
    InOrder({x \in Layers[f] \X Owned[p] : x[2] \in ExchList(p, q, x[1])})

\* sendEndpoints and recvEndpoints of a field: layer by layer, in the order of the
\* lists, without the tasks there is nothing to exchange with.
SendEndpoints(p, f) ==
    LET lists == {x \in Layers[f] \X DOMAIN SendOrder(p) :
                     ExchList(p, SendOrder(p)[x[2]], x[1]) # {}}
    IN  Unique([x \in lists |-> SendOrder(p)[x[2]]])
RecvEndpoints(p, f) ==
    LET lists == {x \in Layers[f] \X DOMAIN RecvOrder(p) :
                     ExchList(RecvOrder(p)[x[2]], p, x[1]) # {}}
    IN  Unique([x \in lists |-> RecvOrder(p)[x[2]]])

-----------------------------------------------------------------------------
(* mpas_halo_aggregate_group_info, for a group g *)

\* The tasks of the sequences in ss, each where it comes first.
Aggregate(ss) ==
    LET places == UNION {{m} \X DOMAIN ss[m] : m \in DOMAIN ss}
    IN  Unique([x \in places |-> ss[x[1]][x[2]]])

\* Mutant: the neighbours of the first field only.
groupRecvNeighborsOfFirst(p, g) == RecvEndpoints(p, g[1])

groupSendNeighbors(p, g) == Aggregate([m \in DOMAIN g |-> SendEndpoints(p, g[m])])
groupRecvNeighbors(p, g) == Aggregate([m \in DOMAIN g |-> RecvEndpoints(p, g[m])])

\* How many numbers the first m fields of g take in the message from p to q.
CountUpTo(p, q, g, m) == Sums([i \in DOMAIN g |-> Inner[g[i]] * Len(Section(p, q, g[i]))])[m]

\* Mutant: the last field is not counted.
groupRecvCountShort(p, q, g) == CountUpTo(q, p, g, Len(g) - 1)

groupSendCount(p, q, g) == CountUpTo(p, q, g, Len(g))
groupRecvCount(p, q, g) == CountUpTo(q, p, g, Len(g))

\* The buffers hold the messages to or from the neighbours one after the other: how
\* many numbers come before the j-th one.
SendBefore(p, g, j) ==
    LET to == groupSendNeighbors(p, g)
    IN  Sums([i \in DOMAIN to |-> groupSendCount(p, to[i], g)])[j - 1]
RecvBefore(p, g, j) ==
    LET from == groupRecvNeighbors(p, g)
    IN  Sums([i \in DOMAIN from |-> groupRecvCount(p, from[i], g)])[j - 1]

groupSendBufSize(p, g) == SendBefore(p, g, Len(groupSendNeighbors(p, g)) + 1)
groupRecvBufSize(p, g) == RecvBefore(p, g, Len(groupRecvNeighbors(p, g)) + 1)

\* Mutant: the offsets are those of the first neighbour for all.
groupUnpackOffsetUnshifted(p, g, j, m) ==
    CountUpTo(groupRecvNeighbors(p, g)[j], p, g, m - 1)

\* Where the m-th field of g starts in the message to the j-th neighbour.
groupPackOffset(p, g, j, m) ==
    CountUpTo(p, groupSendNeighbors(p, g)[j], g, m - 1) + SendBefore(p, g, j)
groupUnpackOffset(p, g, j, m) ==
    CountUpTo(groupRecvNeighbors(p, g)[j], p, g, m - 1) + RecvBefore(p, g, j)

\* The numbers of the section s of the field f, each with its place in a buffer
\* where the section starts behind place off.
Slots(s, f, off) ==
    {[at |-> off + Inner[f] * (e - 1) + k, number |-> <<f, s[e][2], k>>] :
       e \in DOMAIN s, k \in 1 .. Inner[f]}

\* The loops over fields that pack for all neighbours, and that unpack the message
\* of one of them.  A field the neighbour has no section of is passed over
\* (groupToFieldRecvIdx = 0).
PackSlots(p, g) ==
    LET to == groupSendNeighbors(p, g)
    IN  UNION {Slots(Section(p, to[j], g[m]), g[m], groupPackOffset(p, g, j, m)) :
               j \in DOMAIN to, m \in DOMAIN g}
UnpackSlots(p, g, from) ==
    LET j == CHOOSE k \in DOMAIN groupRecvNeighbors(p, g) : groupRecvNeighbors(p, g)[k] = from
    IN  UNION {Slots(Section(from, p, g[m]), g[m], groupUnpackOffset(p, g, j, m)) :
               m \in {n \in DOMAIN g : from \in Range(RecvEndpoints(p, g[n]))}}

-----------------------------------------------------------------------------
(* Groups, made once before the first exchange *)

Groups == Range(Program)

\* The slices of the buffers the requests of an exchange are for.
SendSlices(p, g) ==
    LET to == groupSendNeighbors(p, g)
    IN  {[peer |-> to[j], group |-> g, before |-> SendBefore(p, g, j),
          count |-> groupSendCount(p, to[j], g)] : j \in DOMAIN to}
RecvSlices(p, g) ==
    LET from == groupRecvNeighbors(p, g)
    IN  {[peer |-> from[j], group |-> g, before |-> RecvBefore(p, g, j),
          count |-> groupRecvCount(p, from[j], g)] : j \in DOMAIN from}

Layout == [p \in Procs |-> [g \in Groups |->
    [sends |-> SendSlices(p, g), receives |-> RecvSlices(p, g), packed |-> PackSlots(p, g),
     unpacked |-> [q \in Range(groupRecvNeighbors(p, g)) |-> UnpackSlots(p, g, q)]]]]

-----------------------------------------------------------------------------
(* mpas_halo_exch_group_full_halo_exch *)

Numbers == UNION {{f} \X Elements \X (1 .. Inner[f]) : f \in Fields}
Never   == <<>>   \* a number that has no value yet

Group(p) == Program[round[p]]

Init ==
    /\ pc = [p \in Procs |-> "compute"]
    /\ round = [p \in Procs |-> 0]
    /\ array = [p \in Procs |-> [n \in Numbers |-> IF n[2] \in Owned[p] THEN <<n, 0>> ELSE Never]]
    /\ sendBuf = [p \in Procs |-> [g \in Groups |-> [x \in 1 .. groupSendBufSize(p, g) |-> Never]]]
    /\ recvBuf = [p \in Procs |-> [g \in Groups |-> [x \in 1 .. groupRecvBufSize(p, g) |-> Never]]]
    /\ sendRequests = [p \in Procs |-> {}]
    /\ recvRequests = sendRequests /\ completed = sendRequests
    /\ wire = [p \in Procs |-> [q \in Procs |-> <<>>]]

Goto(p, label) == pc' = [pc EXCEPT ![p] = label]

\* The model's own code between two exchanges: every owned element changes.
Compute(p) ==
    /\ pc[p] = "compute" /\ round[p] < Len(Program)
    /\ round' = [round EXCEPT ![p] = @ + 1]
    /\ array' = [array EXCEPT ![p] = [n \in Numbers |->
                    IF n[2] \in Owned[p] THEN <<n, round[p] + 1>> ELSE @[n]]]
    /\ Goto(p, "receive")
    /\ UNCHANGED <<sendBuf, recvBuf, requests, wire>>

\* MPI_Irecv for all neighbours.  Those a message is already there for are served
\* by Deliver.
PostReceives(p) ==
    /\ pc[p] = "receive"
    /\ recvRequests' = [recvRequests EXCEPT ![p] = @ \cup Layout[p][Group(p)].receives]
    /\ Goto(p, "pack")
    /\ UNCHANGED <<round, array, sendBuf, recvBuf, sendRequests, completed, wire>>

Pack(p) ==
    /\ pc[p] = "pack"
    /\ sendBuf' = [sendBuf EXCEPT ![p][Group(p)] = [x \in DOMAIN @ |->
          LET here == {s \in Layout[p][Group(p)].packed : s.at = x}
          IN  IF here = {} THEN @[x] ELSE array[p][(CHOOSE s \in here : TRUE).number]]]
    /\ Goto(p, "send")
    /\ UNCHANGED <<round, array, recvBuf, requests, wire>>

\* MPI_Isend to all neighbours; the requests refer to the send buffer.
PostSends(p) ==
    /\ pc[p] = "send"
    /\ sendRequests' = [sendRequests EXCEPT ![p] = @ \cup Layout[p][Group(p)].sends]
    /\ Goto(p, "unpack")
    /\ UNCHANGED <<round, array, sendBuf, recvBuf, recvRequests, completed, wire>>

\* MPI takes a message out of the send buffer.
Transmit(p, r) ==
    /\ wire' = [wire EXCEPT ![p][r.peer] =
          Append(@, SubSeq(sendBuf[p][r.group], r.before + 1, r.before + r.count))]
    /\ sendRequests' = [sendRequests EXCEPT ![p] = @ \ {r}]
    /\ UNCHANGED <<pc, round, array, sendBuf, recvBuf, recvRequests, completed>>

\* The oldest message of a neighbour arrives in the receive buffer.
Deliver(p) ==
    \E r \in recvRequests[p] :
       LET messages == wire[r.peer][p]
       IN  /\ messages # <<>>
           /\ recvBuf' = [recvBuf EXCEPT ![p][r.group] = [x \in DOMAIN @ |->
                 IF x - r.before \in DOMAIN Head(messages) THEN Head(messages)[x - r.before]
                 ELSE @[x]]]
           /\ wire' = [wire EXCEPT ![r.peer][p] = Tail(@)]
           /\ recvRequests' = [recvRequests EXCEPT ![p] = @ \ {r}]
           /\ completed' = [completed EXCEPT ![p] = @ \cup {r}]
           /\ UNCHANGED <<pc, round, array, sendBuf, sendRequests>>

\* MPI_Waitany returns one of the complete receives; its message is unpacked.
Unpack(p) ==
    /\ pc[p] = "unpack"
    /\ \E r \in completed[p] :
          /\ array' = [array EXCEPT ![p] = [n \in Numbers |->
                LET here == {s \in Layout[p][Group(p)].unpacked[r.peer] : s.number = n}
                IN  IF here = {} THEN @[n]
                    ELSE recvBuf[p][r.group][(CHOOSE s \in here : TRUE).at]]]
          /\ completed' = [completed EXCEPT ![p] = @ \ {r}]
    /\ UNCHANGED <<pc, round, sendBuf, recvBuf, sendRequests, recvRequests, wire>>

\* Mutant: the exchange returns without waiting for its sends.
ReturnAtOnce(p) ==
    /\ pc[p] = "unpack" /\ recvRequests[p] = {} /\ completed[p] = {}
    /\ Goto(p, "compute")
    /\ UNCHANGED <<round, array, sendBuf, recvBuf, requests, wire>>

\* All messages are unpacked, and MPI_Waitall returns.
Return(p) ==
    /\ pc[p] = "unpack" /\ recvRequests[p] = {} /\ completed[p] = {}
    /\ sendRequests[p] = {}
    /\ Goto(p, "compute")
    /\ UNCHANGED <<round, array, sendBuf, recvBuf, requests, wire>>

-----------------------------------------------------------------------------
Task(p) == Compute(p) \/ PostReceives(p) \/ Pack(p) \/ PostSends(p) \/ Unpack(p) \/ Return(p)

Next == \E p \in Procs : Task(p) \/ Deliver(p) \/ \E r \in sendRequests[p] : Transmit(p, r)

\* MPI owes a transfer only when the receive is posted.
Rendezvous(p) ==
    \E r \in sendRequests[p] :
       /\ wire[p][r.peer] = <<>> /\ \E posted \in recvRequests[r.peer] : posted.peer = p
       /\ Transmit(p, r)

Fairness ==
    \A p \in Procs : WF_vars(Task(p)) /\ WF_vars(Rendezvous(p)) /\ WF_vars(Deliver(p))

Spec == Init /\ [][Next]_vars /\ Fairness

-----------------------------------------------------------------------------
(* Properties *)

TypeOK ==
    \A p \in Procs :
       /\ pc[p] \in {"compute", "receive", "pack", "send", "unpack"}
       /\ round[p] \in 0 .. Len(Program)
       /\ DOMAIN array[p] = Numbers
       /\ \A r \in sendRequests[p] :
             \A x \in r.before + 1 .. r.before + r.count :
                sendBuf[p][r.group][x] \in Numbers \X (0 .. Len(Program))
       /\ \A q \in Procs : Len(wire[p][q]) <= Len(Program)

\* The neighbours whose message of the present exchange is not yet unpacked.
Pending(p) ==
    CASE pc[p] = "compute" -> {}
      [] pc[p] = "receive" -> DOMAIN Layout[p][Group(p)].unpacked
      [] OTHER -> {r.peer : r \in recvRequests[p] \cup completed[p]}

\* What the group g brings task p from q: the halo elements q owns, of the fields and
\* layers of the group.
Brought(p, g, q) ==
    {n \in Numbers : /\ n[1] \in Range(g) /\ n[2] \in Owned[q]
                     /\ \E h \in Layers[n[1]] : n[2] \in Halo[p][h]}

stillPending == [p \in Procs |-> Pending(p)]
Owns == [p \in Procs |-> {n \in Numbers : n[2] \in Owned[p]}]
Brings ==
    [p \in Procs |-> [r \in DOMAIN Program |->
        [q \in {q \in Procs : Brought(p, Program[r], q) # {}} |-> Brought(p, Program[r], q)]]]

Update == INSTANCE HaloUpdate WITH
             Exchanges <- Len(Program), pending <- stillPending

\* The exchanges are the ones module HaloUpdate promises: a message is unpacked into
\* exactly the halo elements its sender owns, it carries the values they had when the
\* sender began the same exchange, and no other step changes a halo element.
UpdatesHalo == Update!Spec

\* Between two exchanges every halo element has the value its owner had given it
\* before the exchange that last was for it; elements of layers that are not
\* exchanged are not touched.
HaloIsCurrent == Update!HaloIsCurrent

\* A message that is there when its receive is posted, or comes later, is as long as
\* the slice the receive is for: no exchange takes the message of another.
MessagesFitReceives ==
    \A p \in Procs : \A r \in recvRequests[p] :
       wire[r.peer][p] # <<>> => Len(Head(wire[r.peer][p])) = r.count

\* Every task gets to the end of its program, also if MPI stores no message.
Terminates == <>(\A p \in Procs : pc[p] = "compute" /\ round[p] = Len(Program))
=============================================================================
