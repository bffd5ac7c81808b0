---------------------------- MODULE ExchangeLists ----------------------------
(***************************************************************************)
(* How the tasks find out who sends what to whom (framework/mpas_dmpar.F,  *)
(* mpas_dmpar_get_exch_list).  Every task puts the list of global indices  *)
(* it needs on a ring.  Each task the list comes by replaces the indices   *)
(* it owns by its own mark and notes a send list; when a list is back home *)
(* its marks say what to receive from whom.  Nobody ever tells the other   *)
(* side in which order elements are packed: sender and receiver work it    *)
(* out each for itself.                                                    *)
(*                                                                         *)
(* A task may hold several blocks.  The messages are nonblocking sends and *)
(* receives, two pairs a hop: the length of the list, then the list.       *)
(***************************************************************************)
EXTENDS Integers, SequencesExt, FiniteSetsExt, SortedSets

CONSTANT Meshes   \* [owned, needed : [Procs -> sequence over blocks of sequences of indices]]

\* The index lists of a partitioned mesh with its halos: tasks count from 0 and indices
\* from 1, each block has both lists, an index is owned at one place only, no list of
\* needed indices names one twice, and what is needed is owned somewhere.
ASSUME MeshesAssumption ==
    \A m \in Meshes :
       LET Tasks == DOMAIN m.owned
       IN  /\ IsFiniteSet(Tasks) /\ Tasks # {} /\ Tasks = 0 .. Cardinality(Tasks) - 1
           /\ \A p \in Tasks :
                 /\ m.owned[p] \in Seq(Seq(Nat \ {0})) /\ m.needed[p] \in Seq(Seq(Nat \ {0}))
                 /\ Len(m.needed[p]) = Len(m.owned[p])
                 /\ \A b \in DOMAIN m.needed[p] : IsInjective(m.needed[p][b])
           /\ \A p, q \in Tasks :
                 \A b \in DOMAIN m.owned[p], c \in DOMAIN m.owned[q] :
                    \A j \in DOMAIN m.owned[p][b], k \in DOMAIN m.owned[q][c] :
                       m.owned[p][b][j] = m.owned[q][c][k] => p = q /\ b = c /\ j = k
           /\ \A p \in Tasks : \A b \in DOMAIN m.needed[p] :
                 \A j \in DOMAIN m.needed[p][b] :
                    \E q \in Tasks : \E c \in DOMAIN m.owned[q] :
                       m.needed[p][b][j] \in Range(m.owned[q][c])

VARIABLES
    mesh,        \* configuration: what each block of each task owns and needs
    pc,          \* where each task is
    i,           \* hops its list in hand has made
    nMesgSend, nMesgRecv,        \* lengths of the lists to send and to receive
    ownerListOut, ownerListIn,   \* the lists themselves
    sending, receiving,          \* the requests that are not complete
    wire,        \* messages under way from each task to its successor
    sendList, recvList, copyList \* the exchange lists of every block

control == <<pc, i>>
buffers == <<nMesgSend, nMesgRecv, ownerListOut, ownerListIn>>
network == <<sending, receiving, wire>>
lists == <<sendList, recvList, copyList>>
vars == <<mesh, control, buffers, network, lists>>

Procs  == DOMAIN mesh.owned
nprocs == Cardinality(Procs)
Blocks(p) == DOMAIN mesh.owned[p]
sendNeighbor(p) == (p + 1) % nprocs
recvNeighbor(p) == (p + nprocs - 1) % nprocs

\* The task the list in hand belongs to.
currentProc(p) == (p + nprocs - i[p] + 1) % nprocs

Owned(p)  == UNION {Range(mesh.owned[p][b]) : b \in Blocks(p)}
Needed(p) == UNION {Range(mesh.needed[p][b]) : b \in Blocks(p)}

\* Position of the index g in the list s without repetitions.
Position(s, g) == CHOOSE j \in DOMAIN s : s[j] = g

uniqueSortedNeededList(p) == Sorted(Needed(p))

\* Halo elements are stored behind the ones a block owns.
offset(p, b) == Len(mesh.owned[p][b])

Init ==
    /\ mesh \in Meshes
    /\ pc = [p \in Procs |-> IF nprocs = 1 THEN "build" ELSE "count"]
    /\ i = [p \in Procs |-> 1]
    /\ nMesgSend = [p \in Procs |-> Cardinality(Needed(p))]
    /\ nMesgRecv = nMesgSend
    /\ ownerListOut = [p \in Procs |-> uniqueSortedNeededList(p)]
    /\ ownerListIn = [p \in Procs |-> IF nprocs = 1 THEN ownerListOut[p] ELSE <<>>]
    /\ sending = [p \in Procs |-> "none"] /\ receiving = sending
    /\ wire = [p \in Procs |-> <<>>]
    /\ sendList = [p \in Procs |-> [b \in Blocks(p) |-> <<>>]]
    /\ recvList = sendList /\ copyList = sendList

-----------------------------------------------------------------------------
(* Messages *)

Goto(p, label) == pc' = [pc EXCEPT ![p] = label]

\* Mutant: an empty list is not sent.
PostUnlessEmpty(p, kind) ==
    /\ sending' = [sending EXCEPT ![p] = IF nMesgSend[p] = 0 THEN "none" ELSE kind]
    /\ receiving' = [receiving EXCEPT ![p] = kind]
    /\ UNCHANGED wire

\* MPI_Irecv and MPI_Isend of one kind of message; both refer to the buffers, and a
\* list is sent also when it is empty.
Post(p, kind) ==
    /\ sending' = [sending EXCEPT ![p] = kind]
    /\ receiving' = [receiving EXCEPT ![p] = kind]
    /\ UNCHANGED wire

PostCount(p) ==
    /\ pc[p] = "count"
    /\ Post(p, "count")
    /\ Goto(p, "wait_count")
    /\ UNCHANGED <<mesh, i, buffers, lists>>

PostList(p) ==
    /\ pc[p] = "list"
    /\ Post(p, "list")
    /\ Goto(p, "wait_list")
    /\ UNCHANGED <<mesh, i, buffers, lists>>

\* MPI_Wait for the receive, then for the send.
Wait(p) ==
    /\ sending[p] = "none" /\ receiving[p] = "none"
    /\ \/ pc[p] = "wait_count" /\ Goto(p, "list") /\ UNCHANGED i
       \/ /\ pc[p] = "wait_list"
          /\ i' = [i EXCEPT ![p] = @ + 1]
          /\ Goto(p, IF i[p] = nprocs THEN "build" ELSE "mark")
    /\ UNCHANGED <<mesh, buffers, network, lists>>

\* Mutant: the length sent is read from the variable the next one is received in.
SentCountOfBoth(p) == nMesgRecv[p]
SentCount(p) == nMesgSend[p]

\* MPI takes the message from the buffers of the sender, at the latest when the
\* receive is posted, or before if it has room for it.
Transmit(p) ==
    /\ sending[p] # "none"
    /\ wire' = [wire EXCEPT ![p] = Append(@,
                   IF sending[p] = "count"
                   THEN [kind |-> "count", data |-> SentCount(p)]
                   ELSE [kind |-> "list", data |-> ownerListOut[p]])]
    /\ sending' = [sending EXCEPT ![p] = "none"]
    /\ UNCHANGED <<mesh, control, buffers, receiving, lists>>

\* A message arrives in the buffer of the receive posted for it, the oldest of
\* its sender first.
Deliver(p) ==
    LET q == recvNeighbor(p)
    IN  /\ receiving[p] # "none" /\ wire[q] # <<>>
        /\ wire' = [wire EXCEPT ![q] = Tail(@)]
        /\ receiving' = [receiving EXCEPT ![p] = "none"]
        /\ IF receiving[p] = "count"
           THEN /\ nMesgRecv' = [nMesgRecv EXCEPT ![p] = Head(wire[q]).data]
                /\ UNCHANGED ownerListIn
           ELSE /\ ownerListIn' = [ownerListIn EXCEPT ![p] = Head(wire[q]).data]
                /\ UNCHANGED nMesgRecv
        /\ UNCHANGED <<mesh, control, nMesgSend, ownerListOut, sending, lists>>

-----------------------------------------------------------------------------
(* The lists *)

\* Positions in the list in hand of the indices p provides, in any of its blocks
\* and in block b.  Marks are not positive; the mark of task 0 is 0.
Provided(p) ==
    {j \in 1 .. nMesgRecv[p] : ownerListIn[p][j] > 0 /\ ownerListIn[p][j] \in Owned(p)}
ProvidedBy(p, b) ==
    {j \in Provided(p) : ownerListIn[p][j] \in Range(mesh.owned[p][b])}

\* Mutant: every block packs its elements from the start of the message.
PackedByBlock(p, b) ==
    LET js == Sorted(ProvidedBy(p, b))
    IN  [n \in DOMAIN js |-> [src  |-> Position(mesh.owned[p][b], ownerListIn[p][js[n]]),
                              dest |-> n]]

\* Where the elements of block b are found, and where they go in the message.
Packed(p, b) ==
    LET js == Sorted(ProvidedBy(p, b))
    IN  [n \in DOMAIN js |-> [src  |-> Position(mesh.owned[p][b], ownerListIn[p][js[n]]),
                              dest |-> Rank(Provided(p), js[n])]]

MarkOf(p) == -1 * p

Mark(p) ==
    /\ pc[p] = "mark"
    /\ sendList' = [sendList EXCEPT ![p] = [b \in Blocks(p) |->
           IF ProvidedBy(p, b) = {} THEN @[b]
           ELSE Append(@[b], [endPointID |-> currentProc(p), elements |-> Packed(p, b)])]]
    /\ ownerListOut' = [ownerListOut EXCEPT ![p] = [j \in 1 .. nMesgRecv[p] |->
           IF j \in Provided(p) THEN MarkOf(p) ELSE ownerListIn[p][j]]]
    /\ nMesgSend' = [nMesgSend EXCEPT ![p] = nMesgRecv[p]]
    /\ Goto(p, "count")
    /\ UNCHANGED <<mesh, i, nMesgRecv, ownerListIn, network, recvList, copyList>>

\* What block b of task p receives from task q: the positions in the message and
\* in the field.  Unless it needs an element of the message it has no such list.
Unpacked(p, b, q) ==
    LET needs == mesh.needed[p][b]
        place(g) == Position(uniqueSortedNeededList(p), g)
        marked == {k \in DOMAIN uniqueSortedNeededList(p) : ownerListIn[p][k] = -1 * q}
        js == Sorted({j \in DOMAIN needs : place(needs[j]) \in marked})
    IN  [n \in DOMAIN js |-> [src  |-> Rank(marked, place(needs[js[n]])),
                              dest |-> js[n] + offset(p, b)]]

\* What block b of task p gives to block c of the same task.  The two may be the same:
\* owned and needed list are different fields, which may share an index.
Copied(p, b, c) ==
    LET owns == mesh.owned[p][b]
        needs == mesh.needed[p][c]
        js == Sorted({j \in DOMAIN owns : owns[j] \in Range(needs)})
    IN  [n \in DOMAIN js |-> [src  |-> js[n],
                              dest |-> Position(needs, owns[js[n]]) + offset(p, c)]]

\* The lists of the endpoints that have elements, in the order of the endpoints.
ListsOver(elements) ==
    LET used == Sorted({e \in DOMAIN elements : elements[e] # <<>>})
    IN  [n \in DOMAIN used |-> [endPointID |-> used[n], elements |-> elements[used[n]]]]

Build(p) ==
    /\ pc[p] = "build"
    /\ recvList' = [recvList EXCEPT ![p] = [b \in Blocks(p) |->
           ListsOver([q \in Procs \ {p} |-> Unpacked(p, b, q)])]]
    /\ copyList' = [copyList EXCEPT ![p] = [b \in Blocks(p) |->
           ListsOver([c \in Blocks(p) |-> Copied(p, b, c)])]]
    /\ Goto(p, "done")
    /\ UNCHANGED <<mesh, i, buffers, network, sendList>>

-----------------------------------------------------------------------------
Task(p) == PostCount(p) \/ Wait(p) \/ PostList(p) \/ Mark(p) \/ Build(p)

Next == \E p \in Procs : Task(p) \/ Transmit(p) \/ Deliver(p)

\* MPI owes the transfer only when the matching receive is posted.
Rendezvous(p) == receiving[sendNeighbor(p)] # "none" /\ wire[p] = <<>> /\ Transmit(p)

MaxProcs == Max({Cardinality(DOMAIN m.owned) : m \in Meshes})
Fairness ==
    \A p \in 0 .. MaxProcs - 1 :
       WF_vars(p \in Procs /\ (Task(p) \/ Rendezvous(p) \/ Deliver(p)))

Spec == Init /\ [][Next]_vars /\ Fairness

-----------------------------------------------------------------------------
(* Properties *)

TypeOK ==
    \A p \in Procs :
       /\ pc[p] \in {"count", "wait_count", "list", "wait_list", "mark", "build", "done"}
       /\ i[p] \in 1 .. nprocs + 1
       /\ {sending[p], receiving[p]} \subseteq {"none", "count", "list"}
       /\ Len(wire[p]) <= nprocs

\* A task is never handed a message of the other kind, nor a list longer than the
\* buffer its length has been announced for, however far its neighbour is ahead.
MessagesMatchReceives ==
    \A p \in Procs :
       LET q == recvNeighbor(p)
       IN  receiving[p] # "none" /\ wire[q] # <<>> =>
              /\ Head(wire[q]).kind = receiving[p]
              /\ receiving[p] = "list" => Len(Head(wire[q]).data) = nMesgRecv[p]

\* The owner of the index g.
OwnerOf(g) == CHOOSE q \in Procs : g \in Owned(q)

\* The entries of the lists in s for the endpoint e with f equal to v.
Entries(s, e, f, v) ==
    UNION {{x \in Range(l.elements) : x[f] = v} : l \in {k \in Range(s) : k.endPointID = e}}

\* What the sent element at place m of the message from q to p is: the set of the
\* global indices the send lists of the blocks of q put there.
SentAt(q, p, m) ==
    UNION {{mesh.owned[q][b][x.src] : x \in Entries(sendList[q][b], p, "dest", m)} :
           b \in Blocks(q)}

\* Where block b of task p receives what it stores at place `at' from: the task and
\* the place in its message.  Where block b of task p copies it from.
ReceivedAt(p, b, at) ==
    UNION {{<<q, x.src>> : x \in Entries(recvList[p][b], q, "dest", at)} : q \in Procs}
CopiedAt(p, b, at) ==
    UNION {{mesh.owned[p][c][x.src] : x \in Entries(copyList[p][c], b, "dest", at)} :
           c \in Blocks(p)}

\* When the lists are complete, every needed element comes in exactly once: from a
\* block of the same task, or in a message of its owner, about whose order sender
\* and receiver agree.
EveryNeedIsMet ==
    (\A p \in Procs : pc[p] = "done") =>
       \A p \in Procs : \A b \in Blocks(p) : \A j \in DOMAIN mesh.needed[p][b] :
          LET g == mesh.needed[p][b][j]
              received == ReceivedAt(p, b, j + offset(p, b))
              copied == CopiedAt(p, b, j + offset(p, b))
          IN  IF g \in Owned(p)
              THEN received = {} /\ copied = {g}
              ELSE /\ copied = {} /\ Cardinality(received) = 1
                   /\ \A r \in received : SentAt(r[1], p, r[2]) = {g}

\* Every task gets its lists: nobody waits for ever on the ring.
Terminates == <>(\A p \in Procs : pc[p] = "done")
=============================================================================
