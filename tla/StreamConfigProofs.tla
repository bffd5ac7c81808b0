------------------------- MODULE StreamConfigProofs -------------------------
(***************************************************************************)
(* The start of a run, for any number of tasks, any registries, files and  *)
(* edits.                                                                  *)
(*                                                                         *)
(* The tasks agree about their streams: whatever a task has is determined  *)
(* by what it has heard, and all hear the same.  And task 0 is right about *)
(* the directories: its loop over a path is followed name by name, and its *)
(* verdicts through the run.                                               *)
(***************************************************************************)
EXTENDS StreamConfig, NaturalsInduction, WellFoundedInduction, TLAPS

-----------------------------------------------------------------------------
(* What a task registers                                                   *)

AfterImmutable(f, s, m) == [m EXCEPT ![s.name] = UpdateImmutable(@, f.doc, s)]

Settled(f, s, m) == [m EXCEPT ![s.name] = AddPackages(Apply(@, Settings(f.doc, s)), s)]
Added(f, s, m) == (s.name :> NewMutable(f.doc, s)) @@ m
Created(f, s, m) == IF s.name \in DOMAIN m THEN Settled(f, s, m) ELSE Added(f, s, m)

AfterMutable(f, s, m) == AddFields(Created(f, s, m), f.doc, s, f)

\* The streams after the k-th of the file f, when there were the streams m before it.
Registered(f, k, m) ==
    LET s == InOrder(f.doc)[k]
    IN  IF s.kind = "immutable_stream" THEN AfterImmutable(f, s, m) ELSE AfterMutable(f, s, m)

\* What a task registers depends on the registry and the packages, which the run does
\* not change, and on nothing else but the file.
LEMMA Unchanged ==
    ASSUME UNCHANGED <<registry, world>>
    PROVE  /\ SetupImmutableStreams' = SetupImmutableStreams
           /\ \A f, k, m : Registered(f, k, m)' = Registered(f, k, m)
<1>1. Available' = Available
  BY DEF Available
<1>2. ImmutableNames' = ImmutableNames
  BY DEF ImmutableNames
<1>3. SetupImmutableStreams' = SetupImmutableStreams
  <2>1. \A s : ImmutableStream(s)' = ImmutableStream(s)
    BY <1>1 DEF ImmutableStream
  <2> QED
    BY <1>2, <2>1 DEF SetupImmutableStreams
<1>4. \A r, s : AddPackages(r, s)' = AddPackages(r, s)
  BY DEF AddPackages
<1>5. \A r, doc, s : UpdateImmutable(r, doc, s)' = UpdateImmutable(r, doc, s)
  BY <1>4 DEF UpdateImmutable
<1>6. \A doc, s : NewMutable(doc, s)' = NewMutable(doc, s)
  BY <1>4 DEF NewMutable
<1>7. \A m, doc, s, f : AddFields(m, doc, s, f)' = AddFields(m, doc, s, f)
  <2>1. \A s, f : OwnFields(s, f)' = OwnFields(s, f)
    BY DEF OwnFields
  <2>2. \A m, doc, s : SubStreamFields(m, doc, s)' = SubStreamFields(m, doc, s)
    BY DEF SubStreamFields
  <2> QED
    BY <1>1, <2>1, <2>2 DEF AddFields
<1>8. \A f, s, m : AfterImmutable(f, s, m)' = AfterImmutable(f, s, m)
  BY <1>5 DEF AfterImmutable
<1>9. \A f, s, m : Created(f, s, m)' = Created(f, s, m)
  <2>1. \A f, s, m : Settled(f, s, m)' = Settled(f, s, m)
    BY <1>4 DEF Settled
  <2>2. \A f, s, m : Added(f, s, m)' = Added(f, s, m)
    BY <1>6 DEF Added
  <2> QED
    BY <2>1, <2>2 DEF Created
<1>10. \A f, s, m : AfterMutable(f, s, m)' = AfterMutable(f, s, m)
  BY <1>7, <1>9 DEF AfterMutable
<1>11. \A f, k, m : Registered(f, k, m)' = Registered(f, k, m)
  BY <1>8, <1>10 DEF Registered
<1> QED
  BY <1>3, <1>11

-----------------------------------------------------------------------------
(* The invariant                                                           *)

IsTask(r) == r \in [pc : {r.pc}, file : {r.file}, mesh : {r.mesh}, mesh_type : {r.mesh_type},
                    at : {r.at}, manager : {r.manager}]

\* How many messages a task has taken part in.
Got(t) == IF t = Root THEN Len(sent) ELSE heard[t]

\* The streams file is sent three times before anything else.
KindOf(i) == IF i <= 3 THEN "text" ELSE "path"

Channel ==
    /\ \E S : sent \in Seq(S)
    /\ \A i \in DOMAIN sent : sent[i].kind = KindOf(i)
    /\ heard \in [Tasks -> Nat] /\ \A t \in Tasks : heard[t] <= Len(sent)

\* The mesh stream of a task that has heard g messages.
MeshAfter(g) ==
    IF g = 0 \/ QueryCrashes(sent[1].value.doc, "invariant") THEN NoName
    ELSE MeshStream(sent[1].value.doc, MeshDefault)

\* What a task has done is known from what it has heard.
Determined(r, g) ==
    /\ IsTask(r) /\ r.pc # "mismatch"
    /\ r.pc = "inquire" => g = 0
    /\ r.pc = "attributes" => g = 1
    /\ r.pc = "parse" => g = 2
    /\ r.pc \in {"path", "register", "done"} => g >= 3
    /\ r.mesh = MeshAfter(g)
    /\ g <= 2 => r.at = 0 /\ r.manager = <<>>
    /\ g >= 3 => r.at \in Nat /\ r.at >= 1 /\ r.file = sent[3].value

AllDetermined ==
    /\ DOMAIN task = Tasks
    /\ \A t \in Tasks : Determined(task[t], Got(t))
    /\ \A t \in Tasks \ {Root} : Got(t) = 0 => task[t].pc = "inquire"

\* The streams before each element of the file that is parsed, as far as some task has come.
IsHistory(M, n) ==
    /\ n \in Nat /\ n >= 1 /\ M[1] = SetupImmutableStreams
    /\ \A k \in Nat : k >= 1 /\ k < n => M[k + 1] = Registered(sent[3].value, k, M[k])
    /\ \A t \in Tasks : Got(t) >= 3 => task[t].at <= n /\ task[t].manager = M[task[t].at]

OneHistory == \E M, n : IsHistory(M, n)

\* Before the run nothing is sent.
NotBegun == stage # "run" => sent = <<>> /\ \A t \in Tasks : task[t].pc = "inquire"

IInv == Channel /\ AllDetermined /\ OneHistory /\ NotBegun

\* Tasks that have come equally far have heard the same, as far as it matters.
LEMMA InvAgrees == IInv => TasksAgree
<1> SUFFICES ASSUME IInv PROVE TasksAgree
  OBVIOUS
<1>1. \A t \in Tasks : task[t].pc # "mismatch"
  BY DEF IInv, AllDetermined, Determined
<1>2. ASSUME NEW t \in Tasks, NEW u \in Tasks, task[t].at = task[u].at, task[t].pc = task[u].pc
      PROVE  task[t].manager = task[u].manager
  <2> PICK M, n : IsHistory(M, n)
    BY DEF IInv, OneHistory
  <2>1. Determined(task[t], Got(t)) /\ Determined(task[u], Got(u))
    BY DEF IInv, AllDetermined
  <2>2. Got(t) \in Nat /\ Got(u) \in Nat
    BY DEF IInv, Channel, Got
  <2>3. CASE task[t].at = 0
    <3>1. Got(t) <= 2 /\ Got(u) <= 2
      BY <1>2, <2>1, <2>2, <2>3 DEF Determined
    <3> QED
      BY <2>1, <3>1 DEF Determined
  <2>4. CASE task[t].at # 0
    <3>1. Got(t) >= 3 /\ Got(u) >= 3
      BY <1>2, <2>1, <2>2, <2>4 DEF Determined
    <3> QED
      BY <1>2, <3>1 DEF IsHistory
  <2> QED
    BY <2>3, <2>4
<1>3. ASSUME NEW t \in Tasks, NEW u \in Tasks, task[t].pc = task[u].pc
      PROVE  task[t].mesh = task[u].mesh
  <2>1. /\ task[t].mesh = MeshAfter(Got(t)) /\ task[u].mesh = MeshAfter(Got(u))
        /\ Got(t) \in Nat /\ Got(u) \in Nat
    BY DEF IInv, AllDetermined, Determined, Channel, Got
  <2>2. Got(t) = 0 <=> Got(u) = 0
    <3>1. ASSUME NEW v \in Tasks, NEW w \in Tasks, Got(v) = 0, task[v].pc = task[w].pc
          PROVE  Got(w) = 0
      <4>1. CASE v = Root
        BY <3>1, <4>1 DEF IInv, Channel, Got
      <4>2. CASE v # Root
        BY <3>1, <4>2 DEF IInv, AllDetermined, Determined
      <4> QED
        BY <4>1, <4>2
    <3> QED
      BY <1>3, <3>1
  <2> QED
    BY <2>1, <2>2 DEF MeshAfter
<1> QED
  BY <1>1, <1>2, <1>3 DEF TasksAgree

LEMMA InitInv == Init => IInv
<1> SUFFICES ASSUME Init PROVE IInv
  OBVIOUS
<1>1. sent = <<>> /\ heard = [t \in Tasks |-> 0] /\ stage = "source"
  BY DEF Init
<1>2. Channel
  BY <1>1 DEF Channel
<1>3. ASSUME NEW t \in Tasks
      PROVE  /\ task[t] = [pc |-> "inquire", file |-> NoFile, mesh |-> NoName,
                           mesh_type |-> NoText, at |-> 0, manager |-> <<>>]
             /\ Got(t) = 0
  BY <1>1 DEF Init, Got
<1>4. AllDetermined
  <2>1. DOMAIN task = Tasks
    BY DEF Init
  <2> QED
    BY <1>3, <2>1 DEF AllDetermined, Determined, IsTask, MeshAfter
<1>5. OneHistory
  <2>1. IsHistory([k \in {1} |-> SetupImmutableStreams], 1)
    BY <1>3 DEF IsHistory
  <2> QED
    BY <2>1 DEF OneHistory
<1>6. NotBegun
  BY <1>1, <1>3 DEF NotBegun
<1> QED
  BY <1>2, <1>4, <1>5, <1>6 DEF IInv

-----------------------------------------------------------------------------
(* Broadcasts                                                              *)

\* t takes part in the next broadcast, of the value v.
Hears(t, v) ==
    /\ t = Root => /\ sent' = Append(sent, [kind |-> KindOf(Len(sent) + 1), value |-> v])
                   /\ heard' = heard
    /\ t # Root => /\ heard[t] < Len(sent) /\ v = sent[heard[t] + 1].value
                   /\ heard' = [heard EXCEPT ![t] = @ + 1] /\ sent' = sent

Silent == sent' = sent /\ heard' = heard

LEMMA GotNat ==
    ASSUME Channel, NEW t \in Tasks
    PROVE  Got(t) \in Nat /\ Got(t) <= Len(sent) /\ Len(sent) \in Nat
BY DEF Channel, Got

\* What has been sent stays, and t has heard one message more.
LEMMA Heard ==
    ASSUME Channel, NEW t \in Tasks, NEW v, Hears(t, v)
    PROVE  /\ Channel'
           /\ Got(t)' = Got(t) + 1 /\ sent'[Got(t) + 1].value = v
           /\ \A u \in Tasks \ {t} : Got(u)' = Got(u)
           /\ \A i \in 1 .. Len(sent) : sent'[i] = sent[i]
<1> PICK S : sent \in Seq(S)
  BY DEF Channel
<1>1. CASE t = Root
  <2> DEFINE m == [kind |-> KindOf(Len(sent) + 1), value |-> v]
  <2>1. sent' = Append(sent, m) /\ heard' = heard
    BY <1>1 DEF Hears
  <2>2. sent \in Seq(S \cup {m}) /\ m \in S \cup {m}
    OBVIOUS
  <2> HIDE DEF m
  <2>3. /\ sent' \in Seq(S \cup {m}) /\ Len(sent') = Len(sent) + 1 /\ sent'[Len(sent) + 1] = m
        /\ \A i \in 1 .. Len(sent) : sent'[i] = sent[i]
    BY <2>1, <2>2
  <2>4. m.kind = KindOf(Len(sent) + 1) /\ m.value = v
    BY DEF m
  <2>5. Channel'
    <3>1. \A i \in DOMAIN sent' : sent'[i].kind = KindOf(i)
      BY <2>3, <2>4 DEF Channel
    <3> QED
      BY <2>1, <2>3, <3>1 DEF Channel, KindOf
  <2> QED
    BY <1>1, <2>1, <2>3, <2>4, <2>5 DEF Got
<1>2. CASE t # Root
  <2>1. heard[t] < Len(sent) /\ v = sent[heard[t] + 1].value
        /\ heard' = [heard EXCEPT ![t] = @ + 1] /\ sent' = sent
    BY <1>2 DEF Hears
  <2>2. Channel'
    BY <2>1 DEF Channel, KindOf
  <2> QED
    BY <1>2, <2>1, <2>2 DEF Got, Channel
<1> QED
  BY <1>1, <1>2

LEMMA Unheard ==
    ASSUME Channel, Silent
    PROVE  /\ Channel' /\ \A u \in Tasks : Got(u)' = Got(u)
           /\ \A i \in 1 .. Len(sent) : sent'[i] = sent[i]
BY DEF Channel, Silent, Got, KindOf

\* The mesh stream a task has found does not change when more is sent.
LEMMA Keeps ==
    ASSUME Channel, \A i \in 1 .. Len(sent) : sent'[i] = sent[i], NEW u \in Tasks,
           Got(u)' = Got(u), Determined(task[u], Got(u))
    PROVE  /\ \A r : r = task[u] => Determined(r, Got(u))'
           /\ MeshAfter(Got(u))' = MeshAfter(Got(u))
<1>1. Got(u) \in Nat /\ Got(u) <= Len(sent) /\ Len(sent) \in Nat
  BY GotNat
<1>2. MeshAfter(Got(u))' = MeshAfter(Got(u))
  BY <1>1 DEF MeshAfter
<1>3. Got(u) >= 3 => sent'[3] = sent[3]
  BY <1>1
<1> QED
  BY <1>2, <1>3 DEF Determined, IsTask

-----------------------------------------------------------------------------
(* The steps                                                               *)

\* What a step of t does to the streams t has: nothing, or it sets up the immutable ones,
\* or it registers the next one.
Continues(t, r) ==
    \/ Got(t) >= 3 /\ r.at = task[t].at /\ r.manager = task[t].manager
    \/ Got(t) = 2 /\ r.at = 1 /\ r.manager = SetupImmutableStreams
    \/ /\ Got(t) >= 3 /\ r.at = task[t].at + 1
       /\ r.manager = Registered(sent[3].value, task[t].at, task[t].manager)

\* The history of the streams has room for every such step.
LEMMA HistoryGoesOn ==
    ASSUME IInv, NEW t \in Tasks, NEW r, task' = [task EXCEPT ![t] = r],
           UNCHANGED <<registry, world>>,
           Len(sent') \in Nat, Got(t)' \in Nat,
           \A i \in 1 .. Len(sent) : sent'[i] = sent[i],
           \A u \in Tasks \ {t} : Got(u)' = Got(u),
           Got(t)' >= 3 => Continues(t, r)
    PROVE  OneHistory'
<1> PICK M, n : IsHistory(M, n)
  BY DEF IInv, OneHistory
<1> PICK f : f = sent[3].value
  OBVIOUS
<1> PICK setup : setup = SetupImmutableStreams
  OBVIOUS
<1>1. setup = SetupImmutableStreams' /\ \A k, m : Registered(f, k, m)' = Registered(f, k, m)
  BY Unchanged
<1>2. /\ task'[t] = r /\ \A u \in Tasks \ {t} : task'[u] = task[u]
      /\ \A u \in Tasks : Got(u) \in Nat /\ Got(u) <= Len(sent) /\ Len(sent) \in Nat
      /\ Determined(task[t], Got(t))
  BY GotNat DEF IInv, AllDetermined
<1>3. CASE Len(sent) < 3
  <2> DEFINE One == [k \in {1} |-> setup]
  <2>1. \A u \in Tasks \ {t} : ~(Got(u)' >= 3)
    BY <1>2, <1>3
  <2>2. Got(t)' >= 3 => task'[t].at = 1 /\ task'[t].manager = One[1]
    BY <1>2, <1>3 DEF Continues
  <2>3. One[1] = setup
    OBVIOUS
  <2> HIDE DEF One
  <2>4. IsHistory(One, 1)'
    <3>1. \A u \in Tasks : Got(u)' >= 3 => task'[u].at <= 1 /\ task'[u].manager = One[task'[u].at]
      BY <2>1, <2>2
    <3> QED
      BY <1>1, <2>3, <3>1 DEF IsHistory
  <2> QED
    BY <2>4 DEF OneHistory
<1>4. CASE Len(sent) >= 3
  <2>1. sent'[3].value = f
    BY <1>2, <1>4
  <2>2. \A k, m : Registered(sent[3].value, k, m)' = Registered(f, k, m)
    BY <1>1, <2>1 DEF Registered
  <2>3. /\ n \in Nat /\ n >= 1 /\ M[1] = setup
        /\ \A k \in Nat : k >= 1 /\ k < n => M[k + 1] = Registered(f, k, M[k])
        /\ \A u \in Tasks : Got(u) >= 3 => task[u].at <= n /\ task[u].manager = M[task[u].at]
    BY DEF IsHistory
  <2>4. Got(t) >= 3 => task[t].at \in Nat /\ task[t].at >= 1
    BY <1>2 DEF Determined
  <2>5. ASSUME \/ ~(Got(t)' >= 3)
               \/ r.at <= n /\ r.manager = M[r.at]
        PROVE  OneHistory'
    <3>1. \A u \in Tasks : Got(u)' >= 3 => task'[u].at <= n /\ task'[u].manager = M[task'[u].at]
      BY <1>2, <2>3, <2>5
    <3>2. \A k \in Nat : k >= 1 /\ k < n => M[k + 1] = Registered(sent[3].value, k, M[k])'
      BY <2>2, <2>3
    <3>3. IsHistory(M, n)'
      BY <1>1, <2>3, <3>1, <3>2 DEF IsHistory
    <3> QED
      BY <3>3 DEF OneHistory
  <2>6. ASSUME Got(t) >= 3, task[t].at = n, r.at = n + 1, r.manager = Registered(f, n, M[n])
        PROVE  OneHistory'
    <3> PICK Longer : Longer = [k \in 1 .. n + 1 |-> IF k <= n THEN M[k] ELSE Registered(f, n, M[n])]
      OBVIOUS
    <3>1. Longer[n + 1] = Registered(f, n, M[n]) /\ \A k \in 1 .. n : Longer[k] = M[k]
      BY <2>3
    <3>2. \A k \in Nat : k >= 1 /\ k < n + 1 => Longer[k + 1] = Registered(f, k, Longer[k])
      <4> SUFFICES ASSUME NEW k \in Nat, k >= 1, k < n + 1
                   PROVE  Longer[k + 1] = Registered(f, k, Longer[k])
        OBVIOUS
      <4>1. CASE k = n
        BY <2>3, <3>1, <4>1
      <4>2. CASE k < n
        <5>1. k \in 1 .. n /\ k + 1 \in 1 .. n
          BY <2>3, <4>2
        <5> QED
          BY <2>3, <3>1, <4>2, <5>1
      <4> QED
        BY <2>3, <4>1, <4>2
    <3>3. \A u \in Tasks : Got(u)' >= 3 => task'[u].at <= n + 1 /\ task'[u].manager = Longer[task'[u].at]
      <4> SUFFICES ASSUME NEW u \in Tasks, Got(u)' >= 3
                   PROVE  task'[u].at <= n + 1 /\ task'[u].manager = Longer[task'[u].at]
        OBVIOUS
      <4>1. CASE u = t
        BY <1>2, <2>3, <2>6, <3>1, <4>1
      <4>2. CASE u # t
        <5>1. task'[u] = task[u] /\ Got(u) >= 3
          BY <1>2, <4>2
        <5>2. task[u].at \in 1 .. n /\ task[u].manager = M[task[u].at]
          BY <2>3, <5>1 DEF IInv, AllDetermined, Determined
        <5> QED
          BY <2>3, <3>1, <5>1, <5>2
      <4> QED
        BY <4>1, <4>2
    <3>4. Longer[1] = setup /\ n + 1 \in Nat /\ n + 1 >= 1
      BY <2>3, <3>1
    <3>5. \A k \in Nat : k >= 1 /\ k < n + 1 => Longer[k + 1] = Registered(sent[3].value, k, Longer[k])'
      <4> SUFFICES ASSUME NEW k \in Nat, k >= 1, k < n + 1
                   PROVE  Longer[k + 1] = Registered(sent[3].value, k, Longer[k])'
        OBVIOUS
      <4> PICK m : m = Longer[k]
        OBVIOUS
      <4>1. Registered(sent[3].value, k, m)' = Registered(f, k, m)
        BY <2>2
      <4> QED
        BY <3>2, <4>1
    <3>6. IsHistory(Longer, n + 1)'
      BY <1>1, <3>3, <3>4, <3>5 DEF IsHistory
    <3> QED
      BY <3>6 DEF OneHistory
  <2>7. CASE ~(Got(t)' >= 3)
    BY <2>5, <2>7
  <2>8. CASE Got(t) >= 3 /\ r.at = task[t].at /\ r.manager = task[t].manager
    BY <2>3, <2>5, <2>8
  <2>9. CASE Got(t) = 2 /\ r.at = 1 /\ r.manager = SetupImmutableStreams
    BY <2>3, <2>5, <2>9
  <2>10. CASE /\ Got(t) >= 3 /\ r.at = task[t].at + 1
              /\ r.manager = Registered(sent[3].value, task[t].at, task[t].manager)
    <3>1. task[t].at \in 1 .. n /\ task[t].manager = M[task[t].at]
      BY <2>3, <2>4, <2>10
    <3>2. CASE task[t].at = n
      BY <2>6, <2>10, <3>1, <3>2
    <3>3. CASE task[t].at < n
      <4>1. M[task[t].at + 1] = Registered(f, task[t].at, M[task[t].at])
        BY <2>3, <3>1, <3>3
      <4> QED
        BY <2>3, <2>5, <2>10, <3>1, <3>3, <4>1
    <3> QED
      BY <2>3, <3>1, <3>2, <3>3
  <2> QED
    BY <2>7, <2>8, <2>9, <2>10 DEF Continues
<1> QED
  BY <1>2, <1>3, <1>4

\* A step of one task keeps the invariant if what the task has done remains determined.
LEMMA StepKeeps ==
    ASSUME IInv, NEW t \in Tasks, NEW r, task' = [task EXCEPT ![t] = r],
           stage = "run", UNCHANGED <<stage, registry, world>>,
           Silent \/ \E v : Hears(t, v),
           Determined(r, Got(t))',
           t # Root /\ Got(t)' = 0 => r.pc = "inquire",
           Got(t)' >= 3 => Continues(t, r)
    PROVE  IInv'
<1>1. /\ Channel' /\ \A i \in 1 .. Len(sent) : sent'[i] = sent[i]
      /\ \A u \in Tasks \ {t} : Got(u)' = Got(u)
  BY Heard, Unheard DEF IInv
<1>2. /\ DOMAIN task' = Tasks /\ task'[t] = r
      /\ \A u \in Tasks \ {t} : task'[u] = task[u]
  BY DEF IInv, AllDetermined
<1>3. AllDetermined'
  <2>1. ASSUME NEW u \in Tasks \ {t} PROVE Determined(task[u], Got(u))'
    <3>1. Determined(task[u], Got(u)) /\ Got(u)' = Got(u)
      BY <1>1 DEF IInv, AllDetermined
    <3>2. \A q : q = task[u] => Determined(q, Got(u))'
      BY <1>1, <3>1, Keeps DEF IInv
    <3> PICK q : q = task[u]
      OBVIOUS
    <3>3. q = task'[u]
      BY <1>2
    <3> QED
      BY <3>2, <3>3 DEF Determined
  <2>2. Determined(task[t], Got(t))'
    BY <1>2 DEF Determined
  <2>3. ASSUME NEW u \in Tasks \ {Root}, Got(u)' = 0 PROVE task'[u].pc = "inquire"
    BY <1>1, <1>2, <2>3 DEF IInv, AllDetermined
  <2> QED
    BY <1>2, <2>1, <2>2, <2>3 DEF AllDetermined
<1>4. OneHistory'
  <2>1. Len(sent') \in Nat /\ Got(t)' \in Nat
    BY <1>1 DEF Channel, Got
  <2> QED
    BY <1>1, <2>1, HistoryGoesOn
<1>5. NotBegun'
  BY DEF NotBegun
<1> QED
  BY <1>1, <1>3, <1>4, <1>5 DEF IInv

LEMMA Parts ==
    ASSUME NEW r, IsTask(r)
    PROVE  r = [pc |-> r.pc, file |-> r.file, mesh |-> r.mesh, mesh_type |-> r.mesh_type,
                at |-> r.at, manager |-> r.manager]
BY DEF IsTask

LEMMA TaskRecord ==
    ASSUME NEW r, NEW p, NEW f, NEW m, NEW y, NEW a, NEW g,
           r = [pc |-> p, file |-> f, mesh |-> m, mesh_type |-> y, at |-> a, manager |-> g]
    PROVE  IsTask(r) /\ r.pc = p /\ r.file = f /\ r.mesh = m /\ r.at = a /\ r.manager = g
BY DEF IsTask

\* A task that stops, or goes on to another place, keeps what it has.
LEMMA NewPlace ==
    ASSUME NEW r, IsTask(r), NEW p
    PROVE  LET q == [r EXCEPT !.pc = p]
           IN  /\ IsTask(q) /\ q.pc = p /\ q.mesh = r.mesh /\ q.at = r.at
               /\ q.manager = r.manager /\ q.file = r.file
<1> DEFINE q == [r EXCEPT !.pc = p]
<1>1. q = [pc |-> p, file |-> r.file, mesh |-> r.mesh, mesh_type |-> r.mesh_type,
           at |-> r.at, manager |-> r.manager]
  BY Parts
<1> QED
  BY <1>1, TaskRecord

\* What the question for the mesh stream makes of the task t when it reads f.
Inquired(t, f) ==
    IF QueryCrashes(f.doc, "invariant") THEN Crashed(t)
    ELSE [task[t] EXCEPT !.pc = "attributes", !.file = f, !.mesh = MeshStream(f.doc, MeshDefault)]

\* The tasks read the same text, and none of them finds another message there.
LEMMA ReadInquiry ==
    ASSUME IInv, NEW t \in Tasks, Inquire(t)
    PROVE  \/ t = Root /\ Silent /\ task' = [task EXCEPT ![t] = Failed(t)]
           \/ \E f : /\ Hears(t, f)
                     /\ task' = [task EXCEPT ![t] = Inquired(t, f)]
<1>1. Got(t) = 0
  BY DEF Inquire, IInv, AllDetermined, Determined
<1>2. CASE t = Root
  <2>1. CASE file = NoFile
    BY <1>2, <2>1 DEF Inquire, ReadFile, Reader, Local, Silent
  <2>2. CASE file # NoFile
    <3>1. sent' = Append(sent, [kind |-> "text", value |-> file]) /\ heard' = heard
      BY <1>2, <2>2 DEF Inquire, ReadFile, Reader, Collective
    <3>2. KindOf(Len(sent) + 1) = "text"
      <4>1. Len(sent) = 0
        BY <1>1, <1>2 DEF Got
      <4> QED
        BY <4>1 DEF KindOf
    <3>3. Hears(t, file)
      BY <1>2, <3>1, <3>2 DEF Hears
    <3> QED
      BY <1>2, <2>2, <3>3 DEF Inquire, ReadFile, Reader, Collective, Inquired
  <2> QED
    BY <2>1, <2>2
<1>3. CASE t # Root
  <2>1. heard[t] = 0 /\ (heard[t] < Len(sent) => sent[heard[t] + 1].kind = "text")
    BY <1>1, <1>3 DEF Got, IInv, Channel, KindOf
  <2> QED
    BY <1>3, <2>1 DEF Inquire, ReadFile, Reader, Collective, Hears, Inquired
<1> QED
  BY <1>2, <1>3

\* A task that stops where it is keeps the invariant, if no message is lost to it.
LEMMA StopKeeps ==
    ASSUME IInv, NEW t \in Tasks, NEW p \in {"failed", "crashed"}, stage = "run",
           UNCHANGED <<stage, registry, world>>, Silent,
           t # Root => task[t].pc # "inquire",
           task' = [task EXCEPT ![t] = [task[t] EXCEPT !.pc = p]]
    PROVE  IInv'
<1> PICK r : r = [task[t] EXCEPT !.pc = p]
  OBVIOUS
<1>1. Determined(task[t], Got(t)) /\ Got(t) \in Nat /\ Got(t) <= Len(sent) /\ Len(sent) \in Nat
  BY GotNat DEF IInv, AllDetermined
<1>2. /\ IsTask(r) /\ r.pc = p /\ r.mesh = task[t].mesh /\ r.at = task[t].at
      /\ r.manager = task[t].manager /\ r.file = task[t].file
  BY <1>1, NewPlace DEF Determined
<1>3. Got(t)' = Got(t) /\ sent' = sent
  BY Unheard DEF IInv, Silent
<1>4. Determined(r, Got(t))
  BY <1>1, <1>2 DEF Determined
<1>5. Determined(r, Got(t))'
  BY <1>3, <1>4 DEF Determined, MeshAfter, IsTask
<1>6. t # Root => Got(t)' # 0
  BY <1>3 DEF IInv, AllDetermined
<1>7. Got(t)' >= 3 => Continues(t, r)
  BY <1>2, <1>3 DEF Continues
<1> QED
  BY <1>5, <1>6, <1>7, StepKeeps

LEMMA InquireKeeps ==
    ASSUME IInv, NEW t \in Tasks, Inquire(t)
    PROVE  IInv'
<1>1. stage = "run" /\ UNCHANGED <<stage, registry, world>> /\ task[t].pc = "inquire"
  BY DEF Inquire
<1>2. Determined(task[t], Got(t)) /\ Got(t) = 0
  BY <1>1 DEF IInv, AllDetermined, Determined
<1>3. CASE t = Root /\ Silent /\ task' = [task EXCEPT ![t] = Failed(t)]
  BY <1>1, <1>3, StopKeeps DEF Failed
<1>4. ASSUME NEW f, Hears(t, f),
             task' = [task EXCEPT ![t] = Inquired(t, f)]
      PROVE  IInv'
  <2> PICK r : r = Inquired(t, f)
    OBVIOUS
  <2>1. Got(t)' = 1 /\ sent'[1].value = f
    BY <1>2, <1>4, Heard DEF IInv
  <2>2. /\ IsTask(r) /\ r.pc \in {"crashed", "attributes"} /\ r.at = 0 /\ r.manager = <<>>
        /\ r.mesh = IF QueryCrashes(f.doc, "invariant") THEN NoName ELSE MeshStream(f.doc, MeshDefault)
    <3>1. /\ IsTask(task[t]) /\ task[t].mesh = NoName /\ task[t].at = 0 /\ task[t].manager = <<>>
      BY <1>2 DEF Determined, MeshAfter
    <3>2. CASE QueryCrashes(f.doc, "invariant")
      <4>1. r = [task[t] EXCEPT !.pc = "crashed"]
        BY <3>2 DEF Inquired, Crashed
      <4>2. /\ IsTask(r) /\ r.pc = "crashed" /\ r.mesh = task[t].mesh /\ r.at = task[t].at
            /\ r.manager = task[t].manager
        <5>1. IsTask(task[t])
          BY <3>1
        <5> QED
          BY <4>1, <5>1, NewPlace
      <4>3. IsTask(r) /\ r.pc = "crashed" /\ r.mesh = NoName /\ r.at = 0 /\ r.manager = <<>>
        BY <3>1, <4>2
      <4> QED
        BY <3>2, <4>3
    <3>3. CASE ~QueryCrashes(f.doc, "invariant")
      <4>1. r = [pc |-> "attributes", file |-> f, mesh |-> MeshStream(f.doc, MeshDefault),
                 mesh_type |-> task[t].mesh_type, at |-> task[t].at, manager |-> task[t].manager]
        <5>1. task[t] = [pc |-> task[t].pc, file |-> task[t].file, mesh |-> task[t].mesh,
                         mesh_type |-> task[t].mesh_type, at |-> task[t].at, manager |-> task[t].manager]
          BY <3>1, Parts
        <5> QED
          BY <3>3, <5>1 DEF Inquired
      <4> QED
        BY <3>1, <3>3, <4>1, TaskRecord
    <3> QED
      BY <3>2, <3>3
  <2>3. Determined(r, Got(t))'
    BY <2>1, <2>2 DEF Determined, MeshAfter, IsTask
  <2>4. task' = [task EXCEPT ![t] = r]
    BY <1>4
  <2>5. Got(t)' # 0 /\ ~(Got(t)' >= 3)
    BY <2>1
  <2> QED
    BY <1>1, <1>4, <2>3, <2>4, <2>5, StepKeeps
<1> QED
  BY <1>3, <1>4, ReadInquiry

\* What the checks of the text f make of the task t.
Checks(t, f) ==
    IF SyntaxCheck(f.text) = "crash" THEN [Crashed(t) EXCEPT !.file = f]
    ELSE IF /\ SyntaxCheck(f.text) = "ok"
            /\ CheckStreams(f.doc, world.readable[t])
            /\ FindsMesh(f.doc, task[t].mesh)
         THEN [task[t] EXCEPT !.pc = "parse", !.file = f,
                              !.mesh_type = MeshIoType(StreamNamed(Immutables(f.doc), task[t].mesh).io_type)]
    ELSE [Failed(t) EXCEPT !.file = f]

LEMMA ReadAttributes ==
    ASSUME IInv, NEW t \in Tasks, GetAttributes(t)
    PROVE  \/ t = Root /\ Silent /\ task' = [task EXCEPT ![t] = Failed(t)]
           \/ \E f : Hears(t, f) /\ task' = [task EXCEPT ![t] = Checks(t, f)]
<1>1. Got(t) = 1
  BY DEF GetAttributes, IInv, AllDetermined, Determined
<1>2. CASE t = Root
  <2>1. CASE file = NoFile
    BY <1>2, <2>1 DEF GetAttributes, ReadFile, Reader, Local, Silent
  <2>2. CASE file # NoFile
    <3>1. sent' = Append(sent, [kind |-> "text", value |-> file]) /\ heard' = heard
      BY <1>2, <2>2 DEF GetAttributes, ReadFile, Reader, Collective
    <3>2. KindOf(Len(sent) + 1) = "text"
      <4>1. Len(sent) = 1
        BY <1>1, <1>2 DEF Got
      <4> QED
        BY <4>1 DEF KindOf
    <3>3. Hears(t, file)
      BY <1>2, <3>1, <3>2 DEF Hears
    <3> QED
      BY <1>2, <2>2, <3>3 DEF GetAttributes, ReadFile, Reader, Collective, Checks
  <2> QED
    BY <2>1, <2>2
<1>3. CASE t # Root
  <2>1. heard[t] = 1 /\ (heard[t] < Len(sent) => sent[heard[t] + 1].kind = "text")
    BY <1>1, <1>3 DEF Got, IInv, Channel, KindOf
  <2> QED
    BY <1>3, <2>1 DEF GetAttributes, ReadFile, Reader, Collective, Hears, Checks
<1> QED
  BY <1>2, <1>3

\* The checks leave the mesh stream that was found.
LEMMA ChecksKeep ==
    ASSUME NEW t \in Tasks, NEW f, IsTask(task[t]), NEW r, r = Checks(t, f)
    PROVE  /\ IsTask(r) /\ r.pc \in {"crashed", "parse", "failed"}
           /\ r.mesh = task[t].mesh /\ r.at = task[t].at /\ r.manager = task[t].manager
<1>1. task[t] = [pc |-> task[t].pc, file |-> task[t].file, mesh |-> task[t].mesh,
                 mesh_type |-> task[t].mesh_type, at |-> task[t].at, manager |-> task[t].manager]
  BY Parts
<1>2. CASE r = [Crashed(t) EXCEPT !.file = f]
  <2>1. r = [pc |-> "crashed", file |-> f, mesh |-> task[t].mesh,
             mesh_type |-> task[t].mesh_type, at |-> task[t].at, manager |-> task[t].manager]
    BY <1>1, <1>2 DEF Crashed
  <2> QED
    BY <2>1, TaskRecord
<1>3. CASE r = [Failed(t) EXCEPT !.file = f]
  <2>1. r = [pc |-> "failed", file |-> f, mesh |-> task[t].mesh,
             mesh_type |-> task[t].mesh_type, at |-> task[t].at, manager |-> task[t].manager]
    BY <1>1, <1>3 DEF Failed
  <2> QED
    BY <2>1, TaskRecord
<1>4. ASSUME NEW y, r = [task[t] EXCEPT !.pc = "parse", !.file = f, !.mesh_type = y]
      PROVE  /\ IsTask(r) /\ r.pc = "parse"
             /\ r.mesh = task[t].mesh /\ r.at = task[t].at /\ r.manager = task[t].manager
  <2>1. r = [pc |-> "parse", file |-> f, mesh |-> task[t].mesh,
             mesh_type |-> y, at |-> task[t].at, manager |-> task[t].manager]
    BY <1>1, <1>4
  <2> QED
    BY <2>1, TaskRecord
<1> QED
  BY <1>2, <1>3, <1>4 DEF Checks

LEMMA GetAttributesKeeps ==
    ASSUME IInv, NEW t \in Tasks, GetAttributes(t)
    PROVE  IInv'
<1>1. stage = "run" /\ UNCHANGED <<stage, registry, world>> /\ task[t].pc = "attributes"
  BY DEF GetAttributes
<1>2. Determined(task[t], Got(t)) /\ Got(t) = 1
  BY <1>1 DEF IInv, AllDetermined, Determined
<1>3. CASE t = Root /\ Silent /\ task' = [task EXCEPT ![t] = Failed(t)]
  BY <1>1, <1>3, StopKeeps DEF Failed
<1>4. ASSUME NEW f, Hears(t, f), task' = [task EXCEPT ![t] = Checks(t, f)]
      PROVE  IInv'
  <2> PICK r : r = Checks(t, f)
    OBVIOUS
  <2>1. Got(t)' = 2 /\ sent'[1] = sent[1]
    BY <1>2, <1>4, Heard, GotNat DEF IInv
  <2>2. /\ IsTask(r) /\ r.pc \in {"crashed", "parse", "failed"} /\ r.at = 0 /\ r.manager = <<>>
        /\ r.mesh = MeshAfter(1)
    BY <1>2, ChecksKeep DEF Determined
  <2>3. Determined(r, Got(t))'
    BY <2>1, <2>2 DEF Determined, MeshAfter, IsTask
  <2>4. task' = [task EXCEPT ![t] = r]
    BY <1>4
  <2>5. Got(t)' # 0 /\ ~(Got(t)' >= 3)
    BY <2>1
  <2> QED
    BY <1>1, <1>4, <2>3, <2>4, <2>5, StepKeeps
<1> QED
  BY <1>3, <1>4, ReadAttributes

\* The task t begins to parse the text f.
Begins(t, f) ==
    [task[t] EXCEPT !.pc = "path", !.file = f, !.at = 1, !.manager = SetupImmutableStreams]

LEMMA ReadToParse ==
    ASSUME IInv, NEW t \in Tasks, BeginParse(t)
    PROVE  \/ t = Root /\ Silent /\ task' = [task EXCEPT ![t] = Failed(t)]
           \/ \E f : Hears(t, f) /\ task' = [task EXCEPT ![t] = Begins(t, f)]
<1>1. Got(t) = 2
  BY DEF BeginParse, IInv, AllDetermined, Determined
<1>2. CASE t = Root
  <2>1. CASE file = NoFile
    BY <1>2, <2>1 DEF BeginParse, ReadFile, Reader, Local, Silent
  <2>2. CASE file # NoFile
    <3>1. sent' = Append(sent, [kind |-> "text", value |-> file]) /\ heard' = heard
      BY <1>2, <2>2 DEF BeginParse, ReadFile, Reader, Collective
    <3>2. KindOf(Len(sent) + 1) = "text"
      <4>1. Len(sent) = 2
        BY <1>1, <1>2 DEF Got
      <4> QED
        BY <4>1 DEF KindOf
    <3>3. Hears(t, file)
      BY <1>2, <3>1, <3>2 DEF Hears
    <3> QED
      BY <1>2, <2>2, <3>3 DEF BeginParse, ReadFile, Reader, Collective, Begins
  <2> QED
    BY <2>1, <2>2
<1>3. CASE t # Root
  <2>1. heard[t] = 2 /\ (heard[t] < Len(sent) => sent[heard[t] + 1].kind = "text")
    BY <1>1, <1>3 DEF Got, IInv, Channel, KindOf
  <2> QED
    BY <1>3, <2>1 DEF BeginParse, ReadFile, Reader, Collective, Hears, Begins
<1> QED
  BY <1>2, <1>3

LEMMA BeginParseKeeps ==
    ASSUME IInv, NEW t \in Tasks, BeginParse(t)
    PROVE  IInv'
<1>1. stage = "run" /\ UNCHANGED <<stage, registry, world>> /\ task[t].pc = "parse"
  BY DEF BeginParse
<1>2. Determined(task[t], Got(t)) /\ Got(t) = 2
  BY <1>1 DEF IInv, AllDetermined, Determined
<1>3. CASE t = Root /\ Silent /\ task' = [task EXCEPT ![t] = Failed(t)]
  BY <1>1, <1>3, StopKeeps DEF Failed
<1>4. ASSUME NEW f, Hears(t, f), task' = [task EXCEPT ![t] = Begins(t, f)]
      PROVE  IInv'
  <2> PICK r : r = Begins(t, f)
    OBVIOUS
  <2> PICK setup : setup = SetupImmutableStreams
    OBVIOUS
  <2>1. Got(t)' = 3 /\ sent'[1] = sent[1] /\ sent'[3].value = f
    BY <1>2, <1>4, Heard, GotNat DEF IInv
  <2>2. /\ IsTask(r) /\ r.pc = "path" /\ r.file = f /\ r.at = 1 /\ r.manager = setup
        /\ r.mesh = MeshAfter(2)
    <3>1. IsTask(task[t]) /\ task[t].mesh = MeshAfter(2)
      BY <1>2 DEF Determined
    <3>2. task[t] = [pc |-> task[t].pc, file |-> task[t].file, mesh |-> task[t].mesh,
                     mesh_type |-> task[t].mesh_type, at |-> task[t].at, manager |-> task[t].manager]
      BY <3>1, Parts
    <3>3. r = [pc |-> "path", file |-> f, mesh |-> task[t].mesh,
               mesh_type |-> task[t].mesh_type, at |-> 1, manager |-> setup]
      BY <3>2 DEF Begins
    <3> QED
      BY <3>1, <3>3, TaskRecord
  <2>3. Determined(r, Got(t))'
    BY <2>1, <2>2 DEF Determined, MeshAfter, IsTask
  <2>4. task' = [task EXCEPT ![t] = r]
    BY <1>4
  <2>5. Got(t)' # 0
    BY <2>1
  <2>6. Continues(t, r)
    BY <1>2, <2>2 DEF Continues
  <2> QED
    BY <1>1, <1>4, <2>3, <2>4, <2>5, <2>6, StepKeeps
<1> QED
  BY <1>3, <1>4, ReadToParse

\* While a task parses, it may go to another place of the parser, with or without hearing
\* a message.
LEMMA MoveKeeps ==
    ASSUME IInv, NEW t \in Tasks, NEW p \in {"failed", "crashed", "register", "unwritable", "done"},
           task[t].pc \in {"path", "register"}, stage = "run",
           UNCHANGED <<stage, registry, world>>, Silent \/ \E v : Hears(t, v),
           task' = [task EXCEPT ![t] = [task[t] EXCEPT !.pc = p]]
    PROVE  IInv'
<1> PICK r : r = [task[t] EXCEPT !.pc = p]
  OBVIOUS
<1>1. Determined(task[t], Got(t)) /\ Got(t) \in Nat /\ Got(t) >= 3 /\ Got(t) <= Len(sent) /\ Len(sent) \in Nat
  BY GotNat DEF IInv, AllDetermined, Determined
<1>2. /\ IsTask(r) /\ r.pc = p /\ r.mesh = task[t].mesh /\ r.at = task[t].at
      /\ r.manager = task[t].manager /\ r.file = task[t].file
  <2>1. IsTask(task[t])
    BY <1>1 DEF Determined
  <2> QED
    BY <2>1, NewPlace
<1>3. /\ Got(t)' \in Nat /\ Got(t)' >= 3 /\ sent'[1] = sent[1] /\ sent'[3] = sent[3]
  <2>1. Got(t)' = Got(t) \/ Got(t)' = Got(t) + 1
    BY Heard, Unheard DEF IInv
  <2>2. \A i \in 1 .. Len(sent) : sent'[i] = sent[i]
    BY Heard, Unheard DEF IInv
  <2> QED
    BY <1>1, <2>1, <2>2
<1>4. Determined(r, Got(t))
  BY <1>1, <1>2 DEF Determined
<1>5. r.mesh = MeshAfter(Got(t))'
  BY <1>1, <1>3, <1>4 DEF Determined, MeshAfter
<1>6. Determined(r, Got(t))'
  BY <1>1, <1>2, <1>3, <1>4, <1>5 DEF Determined, IsTask
<1>7. Got(t)' # 0
  BY <1>3
<1>8. Continues(t, r)
  BY <1>1, <1>2 DEF Continues
<1>9. task' = [task EXCEPT ![t] = r]
  OBVIOUS
<1> QED
  BY <1>6, <1>7, <1>8, <1>9, StepKeeps

LEMMA ReadStreamKeeps ==
    ASSUME IInv, NEW t \in Tasks, ReadStream(t)
    PROVE  IInv'
<1>1. /\ stage = "run" /\ UNCHANGED <<stage, registry, world>> /\ task[t].pc = "path" /\ Silent
  BY DEF ReadStream, AtStream, Local, Silent
<1>2. PICK p \in {"crashed", "failed", "register"} : task' = [task EXCEPT ![t] = [task[t] EXCEPT !.pc = p]]
  BY DEF ReadStream, Local, Crashed, Failed
<1> QED
  BY <1>1, <1>2, MoveKeeps

\* All tasks take part in the making of directories for the same streams.
LEMMA BuildStreamPathKeeps ==
    ASSUME IInv, NEW t \in Tasks, BuildStreamPath(t)
    PROVE  IInv'
<1>1. stage = "run" /\ UNCHANGED <<stage, registry, world>> /\ task[t].pc = "path"
  BY DEF BuildStreamPath, Writer, AtStream
<1>2. Got(t) \in Nat /\ Got(t) >= 3 /\ Len(sent) \in Nat
  BY <1>1, GotNat DEF IInv, AllDetermined, Determined
<1>3. CASE t = Root
  <2> PICK ret : ret = BuildPath(fs, Current(t).template.dirs).ret
    OBVIOUS
  <2>1. /\ sent' = Append(sent, [kind |-> "path", value |-> ret]) /\ heard' = heard
        /\ task' = [task EXCEPT ![t] = [task[t] EXCEPT !.pc = IF ret = 0 THEN "register" ELSE "unwritable"]]
    BY <1>3 DEF BuildStreamPath, Collective, Reader
  <2>2. KindOf(Len(sent) + 1) = "path"
    <3>1. Len(sent) >= 3
      BY <1>2, <1>3 DEF Got
    <3> QED
      BY <1>2, <3>1 DEF KindOf
  <2>3. Hears(t, ret)
    BY <1>3, <2>1, <2>2 DEF Hears
  <2> PICK p \in {"register", "unwritable"} : p = IF ret = 0 THEN "register" ELSE "unwritable"
    OBVIOUS
  <2> QED
    BY <1>1, <2>1, <2>3, MoveKeeps
<1>4. CASE t # Root
  <2>1. heard[t] < Len(sent) => sent[heard[t] + 1].kind = "path"
    <3>1. heard[t] \in Nat /\ heard[t] >= 3
      BY <1>2, <1>4 DEF Got
    <3> QED
      BY <1>2, <3>1 DEF IInv, Channel, KindOf
  <2> PICK ret : ret = sent[heard[t] + 1].value
    OBVIOUS
  <2>2. /\ heard[t] < Len(sent) /\ heard' = [heard EXCEPT ![t] = @ + 1] /\ sent' = sent
        /\ task' = [task EXCEPT ![t] = [task[t] EXCEPT !.pc = IF ret = 0 THEN "register" ELSE "unwritable"]]
    BY <1>4, <2>1 DEF BuildStreamPath, Collective, Reader
  <2>3. Hears(t, ret)
    BY <1>4, <2>2 DEF Hears
  <2> PICK p \in {"register", "unwritable"} : p = IF ret = 0 THEN "register" ELSE "unwritable"
    OBVIOUS
  <2> QED
    BY <1>1, <2>2, <2>3, MoveKeeps
<1> QED
  BY <1>3, <1>4

\* A task that has registered a stream has what the history says comes next.
LEMMA NextStreamKeeps ==
    ASSUME IInv, NEW t \in Tasks, task[t].pc = "register", stage = "run", NEW m,
           UNCHANGED <<stage, registry, world>>, Silent,
           task' = [task EXCEPT ![t] = NextStream(t, m)],
           m = Registered(task[t].file, task[t].at, task[t].manager)
    PROVE  IInv'
<1> PICK r : r = NextStream(t, m)
  OBVIOUS
<1>1. Determined(task[t], Got(t)) /\ Got(t) \in Nat /\ Got(t) >= 3
  BY GotNat DEF IInv, AllDetermined, Determined
<1>2. /\ IsTask(r) /\ r.pc = "path" /\ r.mesh = task[t].mesh /\ r.at = task[t].at + 1
      /\ r.manager = m /\ r.file = task[t].file
  <2>1. task[t] = [pc |-> task[t].pc, file |-> task[t].file, mesh |-> task[t].mesh,
                   mesh_type |-> task[t].mesh_type, at |-> task[t].at, manager |-> task[t].manager]
    BY <1>1, Parts DEF Determined
  <2>2. r = [pc |-> "path", file |-> task[t].file, mesh |-> task[t].mesh,
             mesh_type |-> task[t].mesh_type, at |-> task[t].at + 1, manager |-> m]
    BY <2>1 DEF NextStream
  <2> QED
    BY <2>2, TaskRecord
<1>3. Got(t)' = Got(t) /\ sent' = sent
  BY Unheard DEF IInv, Silent
<1>4. Determined(r, Got(t))
  BY <1>1, <1>2 DEF Determined
<1>5. Determined(r, Got(t))'
  BY <1>3, <1>4 DEF Determined, MeshAfter, IsTask
<1>6. Got(t)' # 0
  BY <1>1, <1>3
<1>7. Continues(t, r)
  BY <1>1, <1>2 DEF Continues, Determined
<1>8. task' = [task EXCEPT ![t] = r]
  OBVIOUS
<1> QED
  BY <1>5, <1>6, <1>7, <1>8, StepKeeps

LEMMA RegisterImmutableKeeps ==
    ASSUME IInv, NEW t \in Tasks, RegisterImmutable(t)
    PROVE  IInv'
<1>1. stage = "run" /\ UNCHANGED <<stage, registry, world>> /\ task[t].pc = "register" /\ Silent
  BY DEF RegisterImmutable, AtStream, Local, Silent
<1>2. CASE task' = [task EXCEPT ![t] = Failed(t)]
  BY <1>1, <1>2, MoveKeeps DEF Failed
<1>3. CASE task' # [task EXCEPT ![t] = Failed(t)]
  <2> PICK m : m = AfterImmutable(task[t].file, Current(t), task[t].manager)
    OBVIOUS
  <2>1. task' = [task EXCEPT ![t] = NextStream(t, m)]
    BY <1>3 DEF RegisterImmutable, Local, AfterImmutable, Doc
  <2>2. m = Registered(task[t].file, task[t].at, task[t].manager)
    BY DEF RegisterImmutable, Registered, Current, Doc
  <2> QED
    BY <1>1, <2>1, <2>2, NextStreamKeeps
<1> QED
  BY <1>2, <1>3

LEMMA RegisterMutableKeeps ==
    ASSUME IInv, NEW t \in Tasks, RegisterMutable(t)
    PROVE  IInv'
<1>1. stage = "run" /\ UNCHANGED <<stage, registry, world>> /\ task[t].pc = "register" /\ Silent
  BY DEF RegisterMutable, AtStream, Local, Silent
<1>2. CASE task' = [task EXCEPT ![t] = Failed(t)]
  BY <1>1, <1>2, MoveKeeps DEF Failed
<1>3. CASE task' # [task EXCEPT ![t] = Failed(t)]
  <2> PICK m : m = AfterMutable(task[t].file, Current(t), task[t].manager)
    OBVIOUS
  <2>1. task' = [task EXCEPT ![t] = NextStream(t, m)]
    BY <1>3 DEF RegisterMutable, Local, AfterMutable, Created, Settled, Added, Doc
  <2>2. m = Registered(task[t].file, task[t].at, task[t].manager)
    BY DEF RegisterMutable, Registered, Current, Doc
  <2> QED
    BY <1>1, <2>1, <2>2, NextStreamKeeps
<1> QED
  BY <1>2, <1>3

LEMMA FinishKeeps ==
    ASSUME IInv, NEW t \in Tasks, Finish(t)
    PROVE  IInv'
<1>1. /\ stage = "run" /\ UNCHANGED <<stage, registry, world>> /\ task[t].pc = "path" /\ Silent
      /\ task' = [task EXCEPT ![t] = [task[t] EXCEPT !.pc = "done"]]
  BY DEF Finish, Local, Silent
<1> QED
  BY <1>1, MoveKeeps

\* Before the run, and when a file is edited, no task does anything; what the build does
\* to the registry comes before any task has set up its streams.
LEMMA OthersKeep ==
    ASSUME IInv, UNCHANGED <<task, sent, heard>>,
           \/ stage # "run" /\ sent = <<>>
           \/ UNCHANGED <<stage, registry, world>>
    PROVE  IInv'
<1>1. Channel' /\ (\A u \in Tasks : Got(u)' = Got(u))
  BY DEF IInv, Channel, Got, KindOf
<1>2. AllDetermined'
  BY <1>1 DEF IInv, AllDetermined, Determined, MeshAfter, IsTask
<1>3. OneHistory'
  <2>1. CASE sent = <<>>
    <3> PICK One : One = [k \in {1} |-> SetupImmutableStreams']
      OBVIOUS
    <3>1. One[1] = SetupImmutableStreams'
      OBVIOUS
    <3>2. \A u \in Tasks : ~(Got(u)' >= 3)
      BY <1>1, <2>1, GotNat DEF IInv
    <3>3. IsHistory(One, 1)'
      BY <3>1, <3>2 DEF IsHistory
    <3> QED
      BY <3>3 DEF OneHistory
  <2>2. CASE UNCHANGED <<stage, registry, world>>
    <3> PICK M, n : IsHistory(M, n)
      BY DEF IInv, OneHistory
    <3>1. SetupImmutableStreams' = SetupImmutableStreams
          /\ \A f, k, m : Registered(f, k, m)' = Registered(f, k, m)
      BY <2>2, Unchanged
    <3>2. \A k, m : Registered(sent[3].value, k, m)' = Registered(sent[3].value, k, m)
      BY <3>1 DEF Registered
    <3>3. IsHistory(M, n)'
      BY <1>1, <3>1, <3>2 DEF IsHistory
    <3> QED
      BY <3>3 DEF OneHistory
  <2> QED
    BY <2>1, <2>2
<1>4. NotBegun'
  BY DEF IInv, NotBegun
<1> QED
  BY <1>1, <1>2, <1>3, <1>4 DEF IInv

LEMMA NextInv == IInv /\ [Next]_vars => IInv'
<1> SUFFICES ASSUME IInv, [Next]_vars PROVE IInv'
  OBVIOUS
<1>1. CASE Build
  BY <1>1, OthersKeep DEF Build, IInv, NotBegun
<1>2. CASE Provide
  BY <1>2, OthersKeep DEF Provide, IInv, NotBegun
<1>3. CASE Edit
  BY <1>3, OthersKeep DEF Edit
<1>4. ASSUME NEW t \in Tasks, Step(t) PROVE IInv'
  BY <1>4, InquireKeeps, GetAttributesKeeps, BeginParseKeeps, ReadStreamKeeps, BuildStreamPathKeeps,
     RegisterImmutableKeeps, RegisterMutableKeeps, FinishKeeps DEF Step, Parse
<1>5. CASE UNCHANGED vars
  BY <1>5, OthersKeep DEF vars
<1> QED
  BY <1>1, <1>2, <1>3, <1>4, <1>5 DEF Next, Over

\* Whatever happens to the file between the reads, the tasks take part in the same
\* broadcasts, and those that have come equally far have built the same streams.
THEOREM SameStreams == Spec => []TasksAgree
<1>1. Init => IInv
  BY InitInv
<1>2. IInv /\ [Next]_vars => IInv'
  BY NextInv
<1>3. IInv => TasksAgree
  BY InvAgrees
<1> QED
  BY <1>1, <1>2, <1>3, PTL DEF Spec

-----------------------------------------------------------------------------
(* The directories                                                         *)

\* What holds of 0, and of n + 1 whenever it holds of n, holds of all numbers.
LEMMA SetInduction ==
    ASSUME NEW T, 0 \in T, \A n \in Nat : n \in T => n + 1 \in T
    PROVE  Nat \subseteq T
<1> DEFINE Less == OpToRel(<, Nat)
<1>1. IsWellFoundedOn(Less, Nat)
  BY NatLessThanWellFounded
<1>2. \A x, y \in Nat : y < x => <<y, x>> \in Less
  BY DEF OpToRel
<1> HIDE DEF Less
<1>3. SUFFICES ASSUME Nat \ T # {} PROVE FALSE
  OBVIOUS
<1>4. PICK x \in Nat \ T : \A y \in Nat \ T : ~(<<y, x>> \in Less)
  BY <1>1, <1>3, WFMin
<1>5. x # 0 /\ x - 1 \in Nat /\ x - 1 < x /\ (x - 1) + 1 = x
  BY <1>4
<1>6. x - 1 \in T
  BY <1>2, <1>4, <1>5
<1> QED
  BY <1>4, <1>5, <1>6

\* The file system g is f with some directories made.
Grown(f, g) ==
    /\ DOMAIN g = DOMAIN f
    /\ \A path \in DOMAIN f : g[path] = f[path] \/ (f[path] = "absent" /\ g[path] = "writable")

\* The directories above path.
LEMMA Ancestors ==
    ASSUME NEW f, IsFileSystem(f), NEW path \in DOMAIN f
    PROVE  /\ Len(path) \in Nat /\ SubSeq(path, 1, 0) = <<>> /\ SubSeq(path, 1, Len(path)) = path
           /\ path = <<>> <=> Len(path) = 0
           /\ \A n \in 1 .. Len(path) : /\ Front(SubSeq(path, 1, n)) = SubSeq(path, 1, n - 1)
                                        /\ Len(SubSeq(path, 1, n)) = n /\ SubSeq(path, 1, n) # <<>>
           /\ \A n \in 0 .. Len(path) : SubSeq(path, 1, n) \in DOMAIN f
<1>0. path \in Seq(Range(path))
  BY Zenon DEF IsFileSystem
<1>1. PICK S : path \in Seq(S)
  BY <1>0
<1>2. /\ Len(path) \in Nat /\ SubSeq(path, 1, 0) = <<>> /\ SubSeq(path, 1, Len(path)) = path
      /\ path = <<>> <=> Len(path) = 0
  BY <1>1
<1>3. ASSUME NEW n \in 1 .. Len(path)
      PROVE  /\ Front(SubSeq(path, 1, n)) = SubSeq(path, 1, n - 1)
             /\ Len(SubSeq(path, 1, n)) = n /\ SubSeq(path, 1, n) # <<>>
  <2> DEFINE s == SubSeq(path, 1, n)
             u == SubSeq(s, 1, n - 1)
             v == SubSeq(path, 1, n - 1)
  <2>1. s \in Seq(S) /\ Len(s) = n /\ \A i \in 1 .. n : s[i] = path[i]
    BY <1>1
  <2>2. u \in Seq(S) /\ Len(u) = n - 1 /\ \A i \in 1 .. n - 1 : u[i] = path[i]
    BY <2>1
  <2>3. v \in Seq(S) /\ Len(v) = n - 1 /\ \A i \in 1 .. n - 1 : v[i] = path[i]
    BY <1>1
  <2>4. u = v
    BY <2>2, <2>3
  <2>5. Front(s) = u
    BY <2>1 DEF Front
  <2>6. s # <<>>
    BY <2>1
  <2> QED
    BY <2>1, <2>4, <2>5, <2>6
<1>4. \A n \in 0 .. Len(path) : SubSeq(path, 1, n) \in DOMAIN f
  <2> DEFINE T == {k \in Nat : k <= Len(path) => SubSeq(path, 1, Len(path) - k) \in DOMAIN f}
  <2>1. 0 \in T
    <3>1. Len(path) - 0 = Len(path)
      BY <1>2
    <3> QED
      BY <1>2, <3>1
  <2>2. ASSUME NEW k \in Nat, k \in T PROVE k + 1 \in T
    <3> SUFFICES ASSUME k + 1 <= Len(path) PROVE SubSeq(path, 1, Len(path) - (k + 1)) \in DOMAIN f
      OBVIOUS
    <3>1. Len(path) - k \in 1 .. Len(path) /\ (Len(path) - k) - 1 = Len(path) - (k + 1)
      BY <1>2
    <3>2. SubSeq(path, 1, Len(path) - k) \in DOMAIN f
      BY <1>2, <2>2
    <3>3. Front(SubSeq(path, 1, Len(path) - k)) \in DOMAIN f
      BY <1>3, <3>1, <3>2 DEF IsFileSystem
    <3> QED
      BY <1>3, <3>1, <3>3
  <2> HIDE DEF T
  <2>3. Nat \subseteq T
    BY <2>1, <2>2, SetInduction
  <2>4. ASSUME NEW n \in 0 .. Len(path) PROVE SubSeq(path, 1, n) \in DOMAIN f
    <3>1. Len(path) - n \in T /\ Len(path) - n <= Len(path) /\ Len(path) - (Len(path) - n) = n
      BY <1>2, <2>3
    <3> QED
      BY <3>1 DEF T
  <2> QED
    BY <2>4
<1> QED
  BY <1>2, <1>3, <1>4

\* mkdir makes a directory in one that may be written, and changes nothing else.
LEMMA MadeIs ==
    ASSUME NEW f, IsFileSystem(f), NEW path \in DOMAIN f, path # <<>>
    PROVE  IsFileSystem(Made(f, path)) /\ Grown(f, Made(f, path))
<1> DEFINE g == Made(f, path)
<1>1. CASE Mkdir(f, path) # "made"
  BY <1>1 DEF Made, Grown
<1>2. CASE Mkdir(f, path) = "made"
  <2>1. f[path] = "absent" /\ f[Front(path)] = "writable"
    BY <1>2 DEF Mkdir
  <2>2. DOMAIN g = DOMAIN f /\ g[path] = "writable" /\ \A q \in DOMAIN f : q # path => g[q] = f[q]
    BY <1>2 DEF Made
  <2> HIDE DEF g
  <2>3. Front(path) \in DOMAIN f /\ Front(path) # path
    BY <2>1 DEF IsFileSystem
  <2>4. Grown(f, g)
    BY <2>1, <2>2 DEF Grown
  <2>5. ASSUME NEW q \in DOMAIN g
        PROVE  /\ q \in Seq(Range(q)) /\ g[q] \in Directories \cup {"absent", "file"}
               /\ q # <<>> => /\ Front(q) \in DOMAIN g
                              /\ g[q] # "absent" => g[Front(q)] \in Directories
    <3>1. /\ q \in Seq(Range(q)) /\ f[q] \in Directories \cup {"absent", "file"}
          /\ q # <<>> => /\ Front(q) \in DOMAIN f
                         /\ f[q] # "absent" => f[Front(q)] \in Directories
      BY <2>2 DEF IsFileSystem
    <3>2. CASE q = path
      BY <2>1, <2>2, <2>3, <3>1, <3>2 DEF Directories
    <3>3. CASE q # path
      BY <2>1, <2>2, <3>1, <3>3 DEF Directories
    <3> QED
      BY <3>2, <3>3
  <2>6. IsFileSystem(g)
    BY <2>2, <2>5 DEF IsFileSystem
  <2> QED
    BY <2>4, <2>6 DEF g
<1> QED
  BY <1>1, <1>2

LEMMA GrownTwice ==
    ASSUME NEW f, NEW g, NEW h, Grown(f, g), Grown(g, h)
    PROVE  Grown(f, h)
BY DEF Grown

\* The loop over the directories above the last is what its recursion says.
LEMMA LoopIs ==
    ASSUME NEW f, NEW path, Len(path) \in Nat, Len(path) >= 1
    PROVE  \E b : /\ b[0] = [fs |-> f, writable_parent |-> TRUE, ret |-> 0]
                  /\ \A n \in 1 .. Len(path) - 1 : b[n] = BuildParent(b[n - 1], SubSeq(path, 1, n))
                  /\ BuildParents(f, path) = b[Len(path) - 1]
<1> DEFINE start == [fs |-> f, writable_parent |-> TRUE, ret |-> 0]
           step(b, n) == BuildParent(b[n - 1], SubSeq(path, 1, n))
           Loop(b, j) == b = [n \in 0 .. j |-> IF n = 0 THEN start ELSE step(b, n)]
           T == {j \in Nat : \E b : Loop(b, j)}
<1> HIDE DEF start
<1>1. 0 \in T
  <2>1. Loop([n \in 0 .. 0 |-> start], 0)
    OBVIOUS
  <2> QED
    BY <2>1
<1>2. ASSUME NEW j \in Nat, j \in T PROVE j + 1 \in T
  <2>1. PICK b : Loop(b, j)
    BY <1>2
  <2> DEFINE next == BuildParent(b[j], SubSeq(path, 1, j + 1))
             c == [n \in 0 .. j + 1 |-> IF n <= j THEN b[n] ELSE next]
  <2> HIDE DEF next
  <2>2. \A n \in 0 .. j : c[n] = b[n]
    OBVIOUS
  <2>3. c[j + 1] = next /\ step(c, j + 1) = next
    BY <2>2 DEF next
  <2>4. ASSUME NEW n \in 0 .. j + 1
        PROVE  c[n] = IF n = 0 THEN start ELSE step(c, n)
    <3>1. CASE n = j + 1
      BY <2>3, <3>1
    <3>2. CASE n <= j
      <4>1. b[n] = IF n = 0 THEN start ELSE step(b, n)
        BY <2>1, <3>2
      <4>2. n # 0 => c[n - 1] = b[n - 1]
        BY <2>2, <3>2
      <4> QED
        BY <2>2, <3>2, <4>1, <4>2
    <3> QED
      BY <3>1, <3>2
  <2>5. Loop(c, j + 1)
    BY <2>4
  <2> HIDE DEF c
  <2>6. \E d : Loop(d, j + 1)
    BY <2>5
  <2> QED
    BY <2>6
<1> HIDE DEF T
<1>3. Nat \subseteq T
  BY <1>1, <1>2, SetInduction
<1> DEFINE last == Len(path) - 1
           above[n \in 0 .. last] == IF n = 0 THEN start ELSE BuildParent(above[n - 1], SubSeq(path, 1, n))
<1>4. last \in T
  BY <1>3
<1>5. PICK b : Loop(b, last)
  BY <1>4 DEF T
<1>6. above = [n \in 0 .. last |-> IF n = 0 THEN start ELSE BuildParent(above[n - 1], SubSeq(path, 1, n))]
  BY <1>5
<1>7. BuildParents(f, path) = above[last]
  BY DEF BuildParents, start
<1> HIDE DEF above
<1>8. above[0] = start /\ \A n \in 1 .. last : above[n] = step(above, n)
  BY <1>6
<1> QED
  BY <1>7, <1>8 DEF start

\* What the loop finds: the last directory it has looked at, or one it could not make.
Found(f, path, n, b) ==
    /\ b = [fs |-> b.fs, writable_parent |-> b.writable_parent, ret |-> b.ret]
    /\ IsFileSystem(b.fs) /\ Grown(f, b.fs) /\ b.ret \in {0, 1}
    /\ PlainStart(f, path) /\ b.ret = 0 =>
          b.fs[SubSeq(path, 1, n)] = IF b.writable_parent THEN "writable" ELSE "readonly"
    /\ PlainStart(f, path) /\ b.ret = 1 =>
          \E k \in 1 .. Len(path) : b.fs[SubSeq(path, 1, k)] = "absent" /\ b.fs[SubSeq(path, 1, k - 1)] = "readonly"

\* What a directory can be before it is made, where only directories are in the way.
LEMMA OneMore ==
    ASSUME NEW f, IsFileSystem(f), NEW path \in DOMAIN f, NEW n \in 1 .. Len(path), NEW b,
           Found(f, path, n - 1, b), b.ret = 0
    PROVE  LET dir == SubSeq(path, 1, n)
               answer == Mkdir(b.fs, dir)
           IN  /\ IsFileSystem(Made(b.fs, dir)) /\ Grown(f, Made(b.fs, dir))
               /\ PlainStart(f, path) =>
                     \/ answer = "exists" /\ b.fs[dir] \in Directories /\ Made(b.fs, dir) = b.fs
                     \/ answer = "made" /\ b.writable_parent /\ Made(b.fs, dir)[dir] = "writable"
                     \/ answer = "denied" /\ ~b.writable_parent /\ Made(b.fs, dir) = b.fs
                        /\ b.fs[dir] = "absent" /\ b.fs[SubSeq(path, 1, n - 1)] = "readonly"
<1> DEFINE dir == SubSeq(path, 1, n)
           up == SubSeq(path, 1, n - 1)
           answer == Mkdir(b.fs, dir)
<1>1. /\ Front(dir) = up /\ dir # <<>> /\ Len(dir) = n /\ dir \in DOMAIN f
  <2>1. Len(path) \in Nat /\ n \in 0 .. Len(path)
    BY Ancestors
  <2>2. \A k \in 1 .. Len(path) : /\ Front(SubSeq(path, 1, k)) = SubSeq(path, 1, k - 1)
                                  /\ Len(SubSeq(path, 1, k)) = k /\ SubSeq(path, 1, k) # <<>>
    BY Ancestors, ZenonT(60)
  <2>3. dir \in DOMAIN f
    BY <2>1, Ancestors
  <2> QED
    BY <2>2, <2>3
<1>2. IsFileSystem(b.fs) /\ Grown(f, b.fs) /\ DOMAIN b.fs = DOMAIN f
  BY DEF Found, Grown
<1> HIDE DEF dir, up
<1>3. IsFileSystem(Made(b.fs, dir)) /\ Grown(f, Made(b.fs, dir))
  BY <1>1, <1>2, MadeIs, GrownTwice
<1>4. ASSUME PlainStart(f, path)
      PROVE  \/ answer = "exists" /\ b.fs[dir] \in Directories /\ Made(b.fs, dir) = b.fs
             \/ answer = "made" /\ b.writable_parent /\ Made(b.fs, dir)[dir] = "writable"
             \/ answer = "denied" /\ ~b.writable_parent /\ Made(b.fs, dir) = b.fs
                /\ b.fs[dir] = "absent" /\ b.fs[up] = "readonly"
  <2>1. b.fs[up] = IF b.writable_parent THEN "writable" ELSE "readonly"
    BY <1>4 DEF Found, up
  <2>2. f[dir] # "file"
    BY <1>4 DEF PlainStart, dir
  <2>3. b.fs[dir] \in Directories \cup {"absent"}
    BY <1>1, <1>2, <2>2 DEF Grown, IsFileSystem
  <2>4. b.fs[up] \in Directories
    BY <2>1 DEF Directories
  <2>5. answer = IF b.fs[dir] # "absent" THEN "exists" ELSE IF b.fs[up] # "writable" THEN "denied" ELSE "made"
    BY <1>1, <2>4 DEF Mkdir, Directories
  <2>6. CASE b.fs[dir] # "absent"
    BY <2>3, <2>5, <2>6 DEF Made
  <2>7. CASE b.fs[dir] = "absent" /\ b.fs[up] = "writable"
    BY <1>1, <1>2, <2>1, <2>4, <2>5, <2>7 DEF Made
  <2>8. CASE b.fs[dir] = "absent" /\ b.fs[up] # "writable"
    BY <2>1, <2>4, <2>5, <2>8 DEF Made
  <2> QED
    BY <2>6, <2>7, <2>8
<1> QED
  BY <1>3, <1>4 DEF dir, up

LEMMA LoopFinds ==
    ASSUME NEW f, IsFileSystem(f), NEW path \in DOMAIN f, path # <<>>
    PROVE  Found(f, path, Len(path) - 1, BuildParents(f, path))
<1>1. Len(path) \in Nat /\ Len(path) >= 1 /\ SubSeq(path, 1, 0) = <<>>
  BY Ancestors
<1>2. PICK b : /\ b[0] = [fs |-> f, writable_parent |-> TRUE, ret |-> 0]
               /\ \A n \in 1 .. Len(path) - 1 : b[n] = BuildParent(b[n - 1], SubSeq(path, 1, n))
               /\ BuildParents(f, path) = b[Len(path) - 1]
  BY <1>1, LoopIs
<1> DEFINE T == {n \in Nat : n <= Len(path) - 1 => Found(f, path, n, b[n])}
<1>3. 0 \in T
  <2>1. b[0].fs = f /\ b[0].writable_parent = TRUE /\ b[0].ret = 0
    BY <1>2
  <2>2. Grown(f, f) /\ (PlainStart(f, path) => f[<<>>] = "writable")
    BY DEF Grown, PlainStart
  <2>3. b[0] = [fs |-> b[0].fs, writable_parent |-> b[0].writable_parent, ret |-> b[0].ret]
    BY <1>2, <2>1
  <2> PICK c : c = b[0]
    OBVIOUS
  <2>4. Found(f, path, 0, c)
    <3>1. c.fs = f /\ c.writable_parent /\ c.ret = 0
      BY <2>1
    <3>2. c = [fs |-> c.fs, writable_parent |-> c.writable_parent, ret |-> c.ret]
      BY <2>3
    <3>3. c.ret \in {0, 1} /\ c.ret # 1
      BY <3>1
    <3> HIDE DEF Found
    <3>4. IsFileSystem(c.fs) /\ Grown(f, c.fs)
      BY <2>2, <3>1
    <3>5. PlainStart(f, path) => c.fs[SubSeq(path, 1, 0)] = IF c.writable_parent THEN "writable" ELSE "readonly"
      BY <1>1, <2>2, <3>1
    <3> QED
      BY <3>1, <3>2, <3>3, <3>4, <3>5, Zenon DEF Found
  <2> QED
    BY <2>4
<1>4. ASSUME NEW n \in Nat, n \in T PROVE n + 1 \in T
  <2> SUFFICES ASSUME n + 1 <= Len(path) - 1 PROVE Found(f, path, n + 1, b[n + 1])
    OBVIOUS
  <2>1. n + 1 \in 1 .. Len(path) /\ n + 1 \in 1 .. Len(path) - 1 /\ (n + 1) - 1 = n /\ n <= Len(path) - 1
    BY <1>1
  <2> PICK old, new, dir : old = b[n] /\ new = b[n + 1] /\ dir = SubSeq(path, 1, n + 1)
    OBVIOUS
  <2>2. new = BuildParent(old, dir)
    BY <1>2, <2>1
  <2>3. Found(f, path, n, old)
    BY <1>4, <2>1
  <2>4. CASE old.ret # 0
    <3>1. new = old
      BY <2>2, <2>4 DEF BuildParent
    <3> QED
      BY <2>3, <2>4, <3>1 DEF Found
  <2>5. CASE old.ret = 0
    <3> DEFINE answer == Mkdir(old.fs, dir)
               parent == IF answer = "exists" THEN Writable(old.fs, dir) ELSE old.writable_parent
               ret == IF answer \in {"denied", "no directory"} /\ ~old.writable_parent THEN 1 ELSE 0
    <3>0. new = [fs |-> Made(old.fs, dir), writable_parent |-> parent, ret |-> ret]
      BY <2>2, <2>5, Zenon DEF BuildParent
    <3> HIDE DEF parent, ret
    <3>1. /\ new.fs = Made(old.fs, dir) /\ new.writable_parent = parent /\ new.ret = ret
          /\ new = [fs |-> new.fs, writable_parent |-> new.writable_parent, ret |-> new.ret]
      BY <3>0
    <3>2. /\ IsFileSystem(new.fs) /\ Grown(f, new.fs)
          /\ PlainStart(f, path) =>
                \/ answer = "exists" /\ old.fs[dir] \in Directories /\ new.fs = old.fs
                \/ answer = "made" /\ old.writable_parent /\ new.fs[dir] = "writable"
                \/ answer = "denied" /\ ~old.writable_parent /\ new.fs = old.fs
                   /\ old.fs[dir] = "absent" /\ old.fs[SubSeq(path, 1, n)] = "readonly"
      <4>1. n + 1 \in 1 .. Len(path) /\ Found(f, path, (n + 1) - 1, old) /\ (n + 1) - 1 = n
        BY <2>1, <2>3
      <4> QED
        BY <2>5, <3>1, <4>1, OneMore
    <3> HIDE DEF answer
    <3>3. new.ret \in {0, 1}
      BY <3>1 DEF ret
    <3>4. PlainStart(f, path) /\ new.ret = 0 =>
             new.fs[dir] = IF new.writable_parent THEN "writable" ELSE "readonly"
      <4> SUFFICES ASSUME PlainStart(f, path), new.ret = 0
                   PROVE  new.fs[dir] = IF new.writable_parent THEN "writable" ELSE "readonly"
        OBVIOUS
      <4>1. CASE answer = "exists" /\ old.fs[dir] \in Directories /\ new.fs = old.fs
        <5>1. parent <=> old.fs[dir] \in {"writable", "file"}
          BY <4>1, Zenon DEF parent, Writable
        <5>2. parent <=> old.fs[dir] = "writable"
          BY <4>1, <5>1 DEF Directories
        <5> QED
          BY <3>1, <4>1, <5>2 DEF Directories
      <4>2. CASE answer = "made" /\ old.writable_parent /\ new.fs[dir] = "writable"
        <5>1. parent = old.writable_parent
          BY <4>2 DEF parent
        <5> QED
          BY <3>1, <4>2, <5>1
      <4>3. CASE answer = "denied" /\ ~old.writable_parent
        <5>1. ret = 1
          BY <4>3 DEF ret
        <5> QED
          BY <3>1, <5>1
      <4> QED
        BY <3>2, <4>1, <4>2, <4>3
    <3>5. PlainStart(f, path) /\ new.ret = 1 =>
             new.fs[dir] = "absent" /\ new.fs[SubSeq(path, 1, (n + 1) - 1)] = "readonly"
      <4> SUFFICES ASSUME PlainStart(f, path), new.ret = 1
                   PROVE  new.fs[dir] = "absent" /\ new.fs[SubSeq(path, 1, n)] = "readonly"
        BY <2>1
      <4>1. answer \in {"denied", "no directory"}
        <5>1. CASE answer \notin {"denied", "no directory"}
          <6>1. ret = 0
            BY <5>1, Zenon DEF ret
          <6>2. new.ret = ret
            BY <3>1
          <6>3. 0 # 1
            OBVIOUS
          <6> QED
            BY <6>1, <6>2, <6>3, Zenon
        <5> QED
          BY <5>1
      <4> QED
        BY <3>2, <4>1
    <3> QED
      BY <2>1, <3>1, <3>2, <3>3, <3>4, <3>5 DEF Found
  <2> QED
    BY <2>4, <2>5
<1> HIDE DEF T
<1>5. Nat \subseteq T
  BY <1>3, <1>4, SetInduction
<1>6. Len(path) - 1 \in T /\ Len(path) - 1 <= Len(path) - 1
  BY <1>1, <1>5
<1> QED
  BY <1>2, <1>6 DEF T

\* A directory that is not there beneath one that may not be written cannot be made.
LEMMA Hopeless ==
    ASSUME NEW g, IsFileSystem(g), NEW path \in DOMAIN g, NEW k \in 1 .. Len(path),
           g[SubSeq(path, 1, k)] = "absent", g[SubSeq(path, 1, k - 1)] = "readonly"
    PROVE  ~Buildable(g, path)
<1> DEFINE at(n) == g[SubSeq(path, 1, n)]
<1>1. Len(path) \in Nat
  BY Ancestors
<1>2. \A n \in 1 .. Len(path) : at(n) # "absent" => at(n - 1) \in Directories
  <2>1. ASSUME NEW n \in 1 .. Len(path), at(n) # "absent" PROVE at(n - 1) \in Directories
    <3>1. n \in 0 .. Len(path)
      BY <1>1
    <3>2. SubSeq(path, 1, n) \in DOMAIN g
      BY <3>1, Ancestors
    <3>3. SubSeq(path, 1, n) # <<>> /\ Front(SubSeq(path, 1, n)) = SubSeq(path, 1, n - 1)
      BY Ancestors
    <3> QED
      BY <2>1, <3>2, <3>3 DEF IsFileSystem
  <2> QED
    BY <2>1
<1> HIDE DEF at
<1>3. \A n \in Nat : n >= k /\ n <= Len(path) => at(n) = "absent"
  <2> DEFINE T == {n \in Nat : n >= k /\ n <= Len(path) => at(n) = "absent"}
  <2>1. 0 \in T
    BY <1>1
  <2>2. ASSUME NEW n \in Nat, n \in T PROVE n + 1 \in T
    <3> SUFFICES ASSUME n + 1 >= k, n + 1 <= Len(path) PROVE at(n + 1) = "absent"
      OBVIOUS
    <3>1. CASE n + 1 = k
      BY <3>1 DEF at
    <3>2. CASE n >= k
      <4>1. at(n) = "absent" /\ n + 1 \in 1 .. Len(path) /\ (n + 1) - 1 = n
        BY <1>1, <2>2, <3>2
      <4> QED
        BY <1>2, <4>1 DEF Directories
    <3> QED
      BY <1>1, <3>1, <3>2
  <2> HIDE DEF T
  <2>3. Nat \subseteq T
    BY <2>1, <2>2, SetInduction
  <2> QED
    BY <2>3 DEF T
<1>4. ASSUME NEW n \in 0 .. Len(path), at(n) = "writable", \A j \in n + 1 .. Len(path) : at(j) = "absent"
      PROVE  FALSE
  <2>1. ~(n >= k)
    BY <1>1, <1>3, <1>4
  <2>2. CASE n = k - 1
    BY <1>4, <2>2 DEF at
  <2>3. CASE n < k - 1
    <3>1. k - 1 \in n + 1 .. Len(path)
      BY <1>1, <2>3
    <3> QED
      BY <1>4, <3>1 DEF at
  <2> QED
    BY <1>1, <2>1, <2>2, <2>3
<1> QED
  BY <1>4 DEF Buildable, at

\* Whether a directory is there to be written is what build_stream_path answers; it makes what
\* was not there, and changes nothing else.
LEMMA BuildPathIsRight ==
    ASSUME NEW f, IsFileSystem(f), NEW path \in DOMAIN f
    PROVE  LET built == BuildPath(f, path)
           IN  /\ IsFileSystem(built.fs) /\ Grown(f, built.fs)
               /\ PlainStart(f, path) =>
                     IF built.ret = 0 THEN Usable(built.fs, path) ELSE ~Buildable(built.fs, path)
<1> DEFINE built == BuildPath(f, path)
           answer == IF built.ret = 0 THEN Usable(built.fs, path) ELSE ~Buildable(built.fs, path)
<1>1. Len(path) \in Nat => \A n \in 0 .. Len(path) : n # Len(path) => Len(path) \in n + 1 .. Len(path)
  OBVIOUS
<1>2. CASE path = <<>>
  <2>1. built = [fs |-> f, writable_parent |-> TRUE, ret |-> 0]
    BY <1>2 DEF BuildPath
  <2> QED
    BY <1>2, <2>1 DEF Grown, PlainStart, Usable
<1>3. CASE path # <<>>
  <2> PICK b : b = BuildParents(f, path)
    OBVIOUS
  <2>1. Found(f, path, Len(path) - 1, b) /\ built = BuildLast(b, path)
    BY <1>3, LoopFinds DEF BuildPath
  <2>2. /\ Len(path) \in Nat /\ Len(path) \in 1 .. Len(path) /\ SubSeq(path, 1, Len(path)) = path
    BY <1>3, Ancestors
  <2> HIDE DEF built
  <2>3. CASE b.ret # 0
    <3>1. built = b /\ b.ret = 1
      BY <2>1, <2>3 DEF BuildLast, Found
    <3>2. IsFileSystem(b.fs) /\ path \in DOMAIN b.fs
      BY <2>1 DEF Found, Grown
    <3>3. ASSUME PlainStart(f, path) PROVE ~Buildable(b.fs, path)
      <4>1. PICK k \in 1 .. Len(path) : b.fs[SubSeq(path, 1, k)] = "absent" /\ b.fs[SubSeq(path, 1, k - 1)] = "readonly"
        BY <2>1, <3>1, <3>3 DEF Found
      <4> QED
        BY <3>2, <4>1, Hopeless
    <3> QED
      BY <2>1, <3>1, <3>3 DEF Found, built
  <2>4. CASE b.ret = 0
    <3> DEFINE said == Mkdir(b.fs, path)
               ret == CASE said = "made"   -> 0
                        [] said = "exists" -> IF Writable(b.fs, path) THEN 0 ELSE 1
                        [] OTHER           -> IF b.writable_parent THEN 0 ELSE 1
    <3>0. built = [b EXCEPT !.fs = Made(b.fs, path), !.ret = ret]
      BY <2>1, <2>4, Zenon DEF BuildLast
    <3>1. b = [fs |-> b.fs, writable_parent |-> b.writable_parent, ret |-> b.ret]
      BY <2>1 DEF Found
    <3> HIDE DEF ret
    <3>2. built.fs = Made(b.fs, path) /\ built.ret = ret
      BY <3>0, <3>1
    <3>3. /\ IsFileSystem(built.fs) /\ Grown(f, built.fs)
          /\ PlainStart(f, path) =>
                \/ said = "exists" /\ b.fs[path] \in Directories /\ built.fs = b.fs
                \/ said = "made" /\ b.writable_parent /\ built.fs[path] = "writable"
                \/ said = "denied" /\ ~b.writable_parent /\ built.fs = b.fs
                   /\ b.fs[path] = "absent" /\ b.fs[SubSeq(path, 1, Len(path) - 1)] = "readonly"
      <4> PICK n : n = Len(path)
        OBVIOUS
      <4> PICK dir, g : dir = SubSeq(path, 1, n) /\ g = built.fs
        OBVIOUS
      <4>1. n \in 1 .. Len(path) /\ Found(f, path, n - 1, b) /\ dir = path
        BY <2>1, <2>2
      <4>2. /\ IsFileSystem(Made(b.fs, dir)) /\ Grown(f, Made(b.fs, dir))
            /\ PlainStart(f, path) =>
                  \/ Mkdir(b.fs, dir) = "exists" /\ b.fs[dir] \in Directories /\ Made(b.fs, dir) = b.fs
                  \/ Mkdir(b.fs, dir) = "made" /\ b.writable_parent /\ Made(b.fs, dir)[dir] = "writable"
                  \/ Mkdir(b.fs, dir) = "denied" /\ ~b.writable_parent /\ Made(b.fs, dir) = b.fs
                     /\ b.fs[dir] = "absent" /\ b.fs[SubSeq(path, 1, n - 1)] = "readonly"
        BY <2>4, <4>1, OneMore
      <4> QED
        BY <3>2, <4>1, <4>2
    <3> HIDE DEF said
    <3>4. path \in DOMAIN built.fs
      BY <3>3 DEF Grown
    <3>5. ASSUME PlainStart(f, path) PROVE IF built.ret = 0 THEN Usable(built.fs, path) ELSE ~Buildable(built.fs, path)
      <4>1. CASE said = "exists" /\ b.fs[path] \in Directories /\ built.fs = b.fs
        <5>1. \/ built.fs[path] = "writable" /\ built.ret = 0
              \/ built.fs[path] = "readonly" /\ built.ret = 1
          <6>1. ret = IF Writable(b.fs, path) THEN 0 ELSE 1
            BY <4>1 DEF ret
          <6>2. Writable(b.fs, path) <=> b.fs[path] \in {"writable", "file"}
            BY DEF Writable
          <6> QED
            BY <3>2, <4>1, <6>1, <6>2 DEF Directories
        <5>2. ASSUME built.fs[path] = "readonly" PROVE ~Buildable(built.fs, path)
          <6> SUFFICES ASSUME NEW n \in 0 .. Len(path), built.fs[SubSeq(path, 1, n)] = "writable",
                              \A k \in n + 1 .. Len(path) : built.fs[SubSeq(path, 1, k)] = "absent"
                       PROVE  FALSE
            BY DEF Buildable
          <6>1. n # Len(path)
            BY <2>2, <5>2
          <6>2. Len(path) \in n + 1 .. Len(path)
            BY <1>1, <2>2, <6>1, Zenon
          <6> QED
            BY <2>2, <5>2, <6>2
        <5> QED
          BY <5>1, <5>2 DEF Usable
      <4>2. CASE said = "made" /\ b.writable_parent /\ built.fs[path] = "writable"
        BY <3>2, <4>2 DEF ret, Usable
      <4>3. CASE /\ said = "denied" /\ ~b.writable_parent /\ built.fs = b.fs
                 /\ b.fs[path] = "absent" /\ b.fs[SubSeq(path, 1, Len(path) - 1)] = "readonly"
        <5>1. built.ret = 1
          BY <3>2, <4>3 DEF ret
        <5>2. ~Buildable(built.fs, path)
          BY <2>2, <3>3, <3>4, <4>3, Hopeless
        <5> QED
          BY <5>1, <5>2
      <4> QED
        BY <3>3, <3>5, <4>1, <4>2, <4>3
    <3> QED
      BY <3>3, <3>5 DEF built
  <2> QED
    BY <2>3, <2>4 DEF built
<1> QED
  BY <1>2, <1>3

\* The task r is at a stream that writes, and only directories are in its way.
Stands(r) ==
    LET s == InOrder(r.file.doc)[r.at]
    IN  r.at <= Len(r.file.doc) /\ Writes(s) /\ PlainStart(world.fs, s.template.dirs)

\* What the task r, with the directories g, has found of the directory of its stream.
Verdict(r, g) ==
    LET dirs == InOrder(r.file.doc)[r.at].template.dirs
    IN  Stands(r) => /\ r.pc = "register" => Usable(g, dirs)
                     /\ r.pc = "unwritable" => ~Buildable(g, dirs)

\* The directories are those of the start with some made, every file that is read asks for
\* directories the file system knows, and the verdict of task 0 is the right one.
PathsKnown ==
    /\ which \in DOMAIN Scenarios /\ world = Scenarios[which]
    /\ file.doc \in DocsOf(which) /\ task[Root].file.doc \in DocsOf(which)
    /\ IsFileSystem(fs) /\ Grown(world.fs, fs)
    /\ Verdict(task[Root], fs)

LEMMA PathsRight == IInv /\ PathsKnown => PathBuilt
<1> SUFFICES ASSUME IInv, PathsKnown PROVE PathBuilt
  OBVIOUS
<1> DEFINE s == Current(Root)
           dirs == s.template.dirs
           checked(pc) == AtStream(Root, pc) /\ Writes(s) /\ PlainStart(world.fs, dirs)
<1>1. ASSUME NEW pc, checked(pc) PROVE Stands(task[Root]) /\ task[Root].pc = pc
  BY <1>1 DEF Stands, AtStream, Current, Doc
<1>2. dirs = InOrder(task[Root].file.doc)[task[Root].at].template.dirs
  BY DEF Current, Doc
<1>3. checked("register") => Usable(fs, dirs)
  BY <1>1, <1>2 DEF PathsKnown, Verdict
<1>4. checked("unwritable") => ~Buildable(fs, dirs)
  BY <1>1, <1>2 DEF PathsKnown, Verdict
<1>5. \A path \in DOMAIN fs : world.fs[path] \in {fs[path], "absent"}
  BY DEF PathsKnown, Grown
<1> QED
  BY <1>3, <1>4, <1>5 DEF PathBuilt

LEMMA InitPaths == Init => PathsKnown
<1> SUFFICES ASSUME Init PROVE PathsKnown
  OBVIOUS
<1>1. which \in DOMAIN Scenarios /\ world = Scenarios[which] /\ file = NoFile /\ fs = world.fs
  BY DEF Init
<1>2. task[Root].pc = "inquire" /\ task[Root].file = NoFile
  BY TasksAssumption DEF Init
<1>3. NoFile.doc \in DocsOf(which)
  BY DEF DocsOf
<1>4. IsFileSystem(fs) /\ Grown(world.fs, fs)
  BY <1>1, PathsAssumption DEF Grown
<1>5. Verdict(task[Root], fs)
  BY <1>2 DEF Verdict
<1> QED
  BY <1>1, <1>2, <1>3, <1>4, <1>5 DEF PathsKnown

\* Where the directories stay as they are, so does the verdict, unless task 0 comes to a
\* new one.
LEMMA PathsStay ==
    ASSUME PathsKnown, UNCHANGED <<which, world, fs>>, file'.doc \in DocsOf(which),
           task'[Root].file.doc \in DocsOf(which),
           \/ task'[Root] = task[Root]
           \/ task'[Root].pc \notin {"register", "unwritable"}
           \/ ~Stands(task'[Root])
    PROVE  PathsKnown'
<1> PICK r : r = task'[Root]
  OBVIOUS
<1>1. Stands(r)' <=> Stands(r)
  BY DEF Stands
<1>2. Verdict(r, fs)
  BY DEF PathsKnown, Verdict
<1>3. Verdict(task[Root], fs)'
  BY <1>1, <1>2 DEF Verdict, Stands
<1> QED
  BY <1>3 DEF PathsKnown, DocsOf

\* The other tasks do nothing to the directories.
LEMMA OthersPaths ==
    ASSUME IInv, PathsKnown, NEW t \in Tasks, t # Root, Step(t)
    PROVE  PathsKnown'
<1>1. UNCHANGED <<which, world, fs, file>>
  BY DEF Step, Parse, Inquire, GetAttributes, BeginParse, ReadStream, BuildStreamPath, Reader,
         RegisterImmutable, RegisterMutable, Finish
<1>2. \E r : task' = [task EXCEPT ![t] = r]
  <2>1. CASE Inquire(t) \/ GetAttributes(t) \/ BeginParse(t)
    BY <2>1, ReadInquiry, ReadAttributes, ReadToParse
  <2>2. CASE BuildStreamPath(t)
    BY <2>2 DEF BuildStreamPath, Collective, Reader
  <2>3. CASE ReadStream(t) \/ RegisterImmutable(t) \/ RegisterMutable(t) \/ Finish(t)
    BY <2>3 DEF ReadStream, RegisterImmutable, RegisterMutable, Finish, Local
  <2> QED
    BY <2>1, <2>2, <2>3 DEF Step, Parse
<1>3. task'[Root] = task[Root]
  BY <1>2
<1> QED
  BY <1>1, <1>3, PathsStay DEF PathsKnown

\* A task that stops or goes on keeps its file; one that reads has what it has read.
LEMMA FileIs ==
    ASSUME IInv, NEW t \in Tasks, NEW r, NEW f,
           \/ \E p \in {"failed", "crashed", "done"} : r = [task[t] EXCEPT !.pc = p]
           \/ \E m : r = NextStream(t, m)
           \/ r = Inquired(t, f) \/ r = Checks(t, f) \/ r = Begins(t, f)
    PROVE  r.file \in {task[t].file, f} /\ r.pc \notin {"register", "unwritable"}
<1>1. IsTask(task[t])
  BY DEF IInv, AllDetermined, Determined
<1>2. task[t] = [pc |-> task[t].pc, file |-> task[t].file, mesh |-> task[t].mesh,
                 mesh_type |-> task[t].mesh_type, at |-> task[t].at, manager |-> task[t].manager]
  BY <1>1, Parts
<1>3. ASSUME NEW p \in {"failed", "crashed", "done"}, r = [task[t] EXCEPT !.pc = p]
      PROVE  r.file = task[t].file /\ r.pc = p
  BY <1>1, <1>3, NewPlace
<1>4. ASSUME NEW m, r = NextStream(t, m) PROVE r.file = task[t].file /\ r.pc = "path"
  <2>1. r = [pc |-> "path", file |-> task[t].file, mesh |-> task[t].mesh,
             mesh_type |-> task[t].mesh_type, at |-> task[t].at + 1, manager |-> m]
    BY <1>2, <1>4 DEF NextStream
  <2> QED
    BY <2>1
<1>5. CASE r = Inquired(t, f)
  <2>1. CASE QueryCrashes(f.doc, "invariant")
    <3>1. r = [task[t] EXCEPT !.pc = "crashed"]
      BY <1>5, <2>1 DEF Inquired, Crashed
    <3> QED
      BY <1>3, <3>1
  <2>2. CASE ~QueryCrashes(f.doc, "invariant")
    <3>1. r = [pc |-> "attributes", file |-> f, mesh |-> MeshStream(f.doc, MeshDefault),
               mesh_type |-> task[t].mesh_type, at |-> task[t].at, manager |-> task[t].manager]
      BY <1>2, <1>5, <2>2 DEF Inquired
    <3> QED
      BY <3>1
  <2> QED
    BY <2>1, <2>2
<1>6. CASE r = Checks(t, f)
  <2>1. ASSUME NEW p \in {"crashed", "failed"}, r = [[task[t] EXCEPT !.pc = p] EXCEPT !.file = f]
        PROVE  r.file = f /\ r.pc = p
    <3>1. r = [pc |-> p, file |-> f, mesh |-> task[t].mesh,
               mesh_type |-> task[t].mesh_type, at |-> task[t].at, manager |-> task[t].manager]
      BY <1>2, <2>1
    <3> QED
      BY <3>1
  <2>2. ASSUME NEW y, r = [task[t] EXCEPT !.pc = "parse", !.file = f, !.mesh_type = y]
        PROVE  r.file = f /\ r.pc = "parse"
    <3>1. r = [pc |-> "parse", file |-> f, mesh |-> task[t].mesh,
               mesh_type |-> y, at |-> task[t].at, manager |-> task[t].manager]
      BY <1>2, <2>2
    <3> QED
      BY <3>1
  <2> QED
    BY <1>6, <2>1, <2>2 DEF Checks, Crashed, Failed
<1>7. CASE r = Begins(t, f)
  <2> PICK setup : setup = SetupImmutableStreams
    OBVIOUS
  <2>1. r = [pc |-> "path", file |-> f, mesh |-> task[t].mesh,
             mesh_type |-> task[t].mesh_type, at |-> 1, manager |-> setup]
    BY <1>2, <1>7 DEF Begins
  <2> QED
    BY <2>1
<1> QED
  BY <1>3, <1>4, <1>5, <1>6, <1>7

\* Where task 0 looks at no directory, it comes to no verdict.
LEMMA RootPaths ==
    ASSUME IInv, PathsKnown, Step(Root), ~BuildStreamPath(Root)
    PROVE  PathsKnown'
<1>1. UNCHANGED <<which, world, fs, file>> /\ DOMAIN task = Tasks /\ Root \in Tasks
  BY TasksAssumption DEF Step, Parse, Inquire, GetAttributes, BeginParse, ReadStream,
         RegisterImmutable, RegisterMutable, Finish, IInv, AllDetermined
<1>2. CASE ReadStream(Root) /\ task' = [task EXCEPT ![Root] = [task[Root] EXCEPT !.pc = "register"]]
  <2> PICK r : r = [task[Root] EXCEPT !.pc = "register"]
    OBVIOUS
  <2>1. IsTask(task[Root]) /\ task[Root].pc = "path"
    BY <1>1, <1>2 DEF IInv, AllDetermined, Determined, ReadStream, AtStream
  <2>2. r.file = task[Root].file /\ r.at = task[Root].at /\ r.pc = "register"
    BY <2>1, NewPlace
  <2>3. task'[Root] = r
    BY <1>1, <1>2
  <2>4. ~Writes(Current(Root))
    <3>1. task' # [task EXCEPT ![Root] = Crashed(Root)]
      <4>1. Crashed(Root).pc = "crashed"
        BY <2>1, NewPlace DEF Crashed
      <4> QED
        BY <1>1, <2>2, <2>3, <4>1
    <3>2. task' # [task EXCEPT ![Root] = Failed(Root)]
      <4>1. Failed(Root).pc = "failed"
        BY <2>1, NewPlace DEF Failed
      <4> QED
        BY <1>1, <2>2, <2>3, <4>1
    <3>3. ~UsesAbsent(Current(Root)) /\ Resolves(Doc(Root), Current(Root)) /\ ~Writer(Root) /\ AtStream(Root, "path")
      BY <1>2, <3>1, <3>2, Zenon DEF ReadStream, Local
    <3> QED
      BY <3>3 DEF Writer
  <2>5. ~Stands(r)
    BY <2>2, <2>4 DEF Stands, Current, Doc
  <2> QED
    BY <1>1, <2>2, <2>3, <2>5, PathsStay DEF PathsKnown
<1>3. CASE \E r : /\ task' = [task EXCEPT ![Root] = r]
                  /\ \/ \E p \in {"failed", "crashed", "done"} : r = [task[Root] EXCEPT !.pc = p]
                     \/ \E m : r = NextStream(Root, m)
                     \/ r = Inquired(Root, file) \/ r = Checks(Root, file) \/ r = Begins(Root, file)
  <2> PICK r : /\ task' = [task EXCEPT ![Root] = r]
               /\ \/ \E p \in {"failed", "crashed", "done"} : r = [task[Root] EXCEPT !.pc = p]
                  \/ \E m : r = NextStream(Root, m)
                  \/ r = Inquired(Root, file) \/ r = Checks(Root, file) \/ r = Begins(Root, file)
    BY <1>3
  <2>1. r.file \in {task[Root].file, file} /\ r.pc \notin {"register", "unwritable"}
    BY <1>1, FileIs
  <2>2. task'[Root] = r
    BY <1>1
  <2> QED
    BY <1>1, <2>1, <2>2, PathsStay DEF PathsKnown
<1>4. CASE Inquire(Root)
  <2>1. \/ task' = [task EXCEPT ![Root] = Failed(Root)]
        \/ task' = [task EXCEPT ![Root] = Inquired(Root, file)]
    BY <1>4 DEF Inquire, ReadFile, Reader, Local, Collective, Inquired
  <2> QED
    BY <1>3, <2>1 DEF Failed
<1>5. CASE GetAttributes(Root)
  <2>1. \/ task' = [task EXCEPT ![Root] = Failed(Root)]
        \/ task' = [task EXCEPT ![Root] = Checks(Root, file)]
    BY <1>5 DEF GetAttributes, ReadFile, Reader, Local, Collective, Checks
  <2> QED
    BY <1>3, <2>1 DEF Failed
<1>6. CASE BeginParse(Root)
  <2>1. \/ task' = [task EXCEPT ![Root] = Failed(Root)]
        \/ task' = [task EXCEPT ![Root] = Begins(Root, file)]
    BY <1>6 DEF BeginParse, ReadFile, Reader, Local, Collective, Begins
  <2> QED
    BY <1>3, <2>1 DEF Failed
<1>7. CASE ReadStream(Root)
  <2>1. \E p \in {"crashed", "failed", "register"} : task' = [task EXCEPT ![Root] = [task[Root] EXCEPT !.pc = p]]
    BY <1>7 DEF ReadStream, Local, Crashed, Failed
  <2> QED
    BY <1>2, <1>3, <1>7, <2>1
<1>8. CASE RegisterImmutable(Root)
  <2>1. \/ task' = [task EXCEPT ![Root] = Failed(Root)]
        \/ \E m : task' = [task EXCEPT ![Root] = NextStream(Root, m)]
    BY <1>8 DEF RegisterImmutable, Local
  <2> QED
    BY <1>3, <2>1 DEF Failed
<1>9. CASE RegisterMutable(Root)
  <2>1. \/ task' = [task EXCEPT ![Root] = Failed(Root)]
        \/ \E m : task' = [task EXCEPT ![Root] = NextStream(Root, m)]
    BY <1>9 DEF RegisterMutable, Local
  <2> QED
    BY <1>3, <2>1 DEF Failed
<1>10. CASE Finish(Root)
  BY <1>3, <1>10 DEF Finish, Local
<1> QED
  BY <1>4, <1>5, <1>6, <1>7, <1>8, <1>9, <1>10 DEF Step, Parse

\* What only directories were in the way of at the start, they are in the way of still.
LEMMA StillPlain ==
    ASSUME NEW f, IsFileSystem(f), NEW g, Grown(f, g), NEW path \in DOMAIN f, PlainStart(f, path)
    PROVE  PlainStart(g, path)
<1>1. g[<<>>] = "writable"
  BY DEF IsFileSystem, Grown, PlainStart
<1>2. ASSUME NEW n \in 1 .. Len(path) PROVE g[SubSeq(path, 1, n)] # "file"
  <2>1. n \in 0 .. Len(path)
    BY Ancestors
  <2>2. SubSeq(path, 1, n) \in DOMAIN f
    BY <2>1, Ancestors
  <2> QED
    BY <2>2 DEF Grown, PlainStart
<1> QED
  BY <1>1, <1>2 DEF PlainStart

\* Task 0 makes the directories of its stream and comes to the right verdict.
LEMMA BuildPaths ==
    ASSUME IInv, PathsKnown, BuildStreamPath(Root)
    PROVE  PathsKnown'
<1> PICK old, doc, at : old = task[Root] /\ doc = old.file.doc /\ at = old.at
  OBVIOUS
<1> PICK dirs : dirs = Current(Root).template.dirs
  OBVIOUS
<1> PICK built : built = BuildPath(fs, dirs)
  OBVIOUS
<1> PICK p : p = IF built.ret = 0 THEN "register" ELSE "unwritable"
  OBVIOUS
<1> PICK r : r = [old EXCEPT !.pc = p]
  OBVIOUS
<1>1. UNCHANGED <<which, world, file>> /\ DOMAIN task = Tasks /\ Root \in Tasks /\ Writer(Root)
  BY TasksAssumption DEF BuildStreamPath, IInv, AllDetermined
<1>2. fs' = built.fs /\ task' = [task EXCEPT ![Root] = r]
  BY DEF BuildStreamPath, Collective, Reader
<1>3. IsTask(old) /\ at \in Nat /\ at >= 1
  <2>1. Determined(old, Got(Root)) /\ Got(Root) \in Nat
    BY <1>1, GotNat DEF IInv, AllDetermined
  <2>2. Got(Root) >= 3
    BY <1>1, <2>1 DEF Writer, AtStream, Determined
  <2> QED
    BY <2>1, <2>2 DEF Determined
<1>4. r.file = old.file /\ r.at = at /\ r.pc = p /\ task'[Root] = r
  BY <1>1, <1>2, <1>3, NewPlace
<1>5. /\ which \in DOMAIN Scenarios /\ world = Scenarios[which] /\ doc \in DocsOf(which)
      /\ IsFileSystem(fs) /\ Grown(world.fs, fs)
  BY DEF PathsKnown
<1>6. IsFileSystem(world.fs) /\ doc \in Seq(Range(doc))
  BY <1>5, PathsAssumption
<1>7. dirs \in DOMAIN world.fs
  <2>1. at <= Len(doc) /\ ~UsesAbsent(InOrder(doc)[at]) /\ "output" \in InOrder(doc)[at].type
    BY <1>1 DEF Writer, AtStream, Current, Doc, Writes
  <2>2. Len(doc) \in Nat
    BY <1>6
  <2>3. at \in 1 .. Len(doc)
    BY <1>3, <2>1, <2>2
  <2>4. dirs = InOrder(doc)[at].template.dirs
    BY DEF Current, Doc
  <2> QED
    BY <1>5, <2>1, <2>3, <2>4, PathsAssumption
<1>8. dirs \in DOMAIN fs
  BY <1>5, <1>7 DEF Grown
<1>9. /\ IsFileSystem(built.fs) /\ Grown(fs, built.fs)
      /\ PlainStart(fs, dirs) => IF built.ret = 0 THEN Usable(built.fs, dirs) ELSE ~Buildable(built.fs, dirs)
  BY <1>5, <1>8, BuildPathIsRight
<1>10. Grown(world.fs, built.fs)
  BY <1>5, <1>9, GrownTwice
<1>11. PlainStart(world.fs, dirs) => PlainStart(fs, dirs)
  BY <1>5, <1>6, <1>7, StillPlain
<1>12. dirs = InOrder(r.file.doc)[r.at].template.dirs
  BY <1>4 DEF Current, Doc
<1>13. Verdict(r, built.fs)
  <2>1. Stands(r) => PlainStart(fs, dirs)
    BY <1>11, <1>12 DEF Stands
  <2> QED
    BY <1>4, <1>9, <1>12, <2>1 DEF Verdict
<1>14. Verdict(task[Root], fs)'
  BY <1>1, <1>2, <1>4, <1>13 DEF Verdict, Stands
<1> QED
  BY <1>1, <1>2, <1>4, <1>5, <1>9, <1>10, <1>14 DEF PathsKnown, DocsOf

\* A file that takes the place of another is one of those a run may come to read.
LEMMA NewFile ==
    ASSUME PathsKnown, UNCHANGED <<which, world, fs, task>>,
           file' \in {file, DefaultFile} \cup Files[which] \cup Edits[which]
    PROVE  PathsKnown'
<1>1. DefaultFile.doc \in DocsOf(which)
  BY DEF DefaultFile, DocsOf, PathsKnown
<1>2. file'.doc \in DocsOf(which)
  BY <1>1 DEF DocsOf, PathsKnown
<1> QED
  BY <1>2, PathsStay DEF PathsKnown

LEMMA NextPaths == IInv /\ PathsKnown /\ [Next]_vars => PathsKnown'
<1> SUFFICES ASSUME IInv, PathsKnown, [Next]_vars PROVE PathsKnown'
  OBVIOUS
<1>1. CASE Build
  BY <1>1, NewFile DEF Build
<1>2. CASE Provide
  BY <1>2, NewFile DEF Provide
<1>3. CASE Edit
  BY <1>3, NewFile DEF Edit
<1>4. ASSUME NEW t \in Tasks, Step(t) PROVE PathsKnown'
  BY <1>4, OthersPaths, RootPaths, BuildPaths
<1>5. CASE UNCHANGED vars
  BY <1>5, NewFile DEF vars
<1> QED
  BY <1>1, <1>2, <1>3, <1>4, <1>5 DEF Next, Over

\* PathBuilt (build_stream_path): where only directories are in the way and the run may write
\* where it starts, a stream that writes is registered when its directory is there to be
\* written, and refused only when it could not be; and nothing is changed that was there.
THEOREM DirectoriesRight == Spec => []PathBuilt
<1>1. Init => IInv /\ PathsKnown
  BY InitInv, InitPaths
<1>2. (IInv /\ PathsKnown) /\ [Next]_vars => (IInv /\ PathsKnown)'
  BY NextInv, NextPaths
<1>3. IInv /\ PathsKnown => PathBuilt
  BY PathsRight
<1> QED
  BY <1>1, <1>2, <1>3, PTL DEF Spec
=============================================================================
