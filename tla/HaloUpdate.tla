----------------------------- MODULE HaloUpdate -----------------------------
(***************************************************************************)
(* What halo exchanges promise to the code between them, without messages, *)
(* buffers or requests.  Tasks run the same sequence of exchanges, each at *)
(* its own pace.  A task that has begun an exchange gets, from one of its  *)
(* neighbours after the other, the values the neighbour's elements had     *)
(* when the neighbour began the same exchange, which it must have done;    *)
(* and the task goes on when it has them all.                              *)
(***************************************************************************)
EXTENDS Integers

CONSTANTS
    Procs,      \* the tasks
    Exchanges,  \* the number of exchanges
    Numbers,    \* everything that has a value
    Owns,       \* Owns[p]: the numbers of the elements p owns
    Brings      \* Brings[p][r]: the numbers the r-th exchange brings p, by neighbour

VARIABLES
    round,      \* exchanges each task has begun
    array,      \* the numbers of each task; an owned one changes before each exchange
    pending     \* neighbours each task has still to hear from

vars == <<round, array, pending>>

Never == <<>>   \* a number that has no value yet

Init ==
    /\ round = [p \in Procs |-> 0]
    /\ array = [p \in Procs |-> [n \in Numbers |-> IF n \in Owns[p] THEN <<n, 0>> ELSE Never]]
    /\ pending = [p \in Procs |-> {}]

Begin(p) ==
    /\ pending[p] = {} /\ round[p] < Exchanges
    /\ round' = [round EXCEPT ![p] = @ + 1]
    /\ array' = [array EXCEPT ![p] = [n \in Numbers |->
                    IF n \in Owns[p] THEN <<n, round[p] + 1>> ELSE @[n]]]
    /\ pending' = [pending EXCEPT ![p] = DOMAIN Brings[p][round[p] + 1]]

Receive(p, q) ==
    /\ q \in pending[p] /\ round[q] >= round[p]
    /\ array' = [array EXCEPT ![p] = [n \in Numbers |->
                    IF n \in Brings[p][round[p]][q] THEN <<n, round[p]>> ELSE @[n]]]
    /\ pending' = [pending EXCEPT ![p] = @ \ {q}]
    /\ UNCHANGED round

Next == \E p \in Procs : Begin(p) \/ \E q \in Procs : Receive(p, q)

Spec == Init /\ [][Next]_vars /\ \A p \in Procs : WF_vars(Begin(p) \/ \E q \in Procs : Receive(p, q))

-----------------------------------------------------------------------------
\* The exchanges p has begun that bring in the number n.
ExchangesOf(p, n) ==
    {r \in 1 .. round[p] : \E q \in DOMAIN Brings[p][r] : n \in Brings[p][r][q]}

\* The value of n is the one its owner gave it before the exchange r.
IsOf(p, n, r) == array[p][n] = <<n, r>>

\* Between two exchanges every number a task does not own has the value its owner
\* had given it before the exchange that last was for it, and no other.
HaloIsCurrent ==
    \A p \in Procs :
       pending[p] = {} =>
          \A n \in Numbers \ Owns[p] :
             LET rs == ExchangesOf(p, n)
             IN  IF rs = {} THEN array[p][n] = Never
                 ELSE \E r \in rs : (\A s \in rs : s <= r) /\ IsOf(p, n, r)
=============================================================================
