---------------------------- MODULE StreamAlarms ----------------------------
(***************************************************************************)
(* The lists of the stream manager (framework/mpas_stream_manager.F and    *)
(* mpas_stream_list.F): its streams, the alarms its streams listen to, and *)
(* the references between them.  A stream has a list of alarms for each    *)
(* way, an alarm has a list of streams, the manager has a list of streams  *)
(* and one of alarms for each way, and an operation updates all of them or *)
(* stops at its first error.                                               *)
(*                                                                         *)
(* A list is the sequence of the names of its items, and a reference to a  *)
(* node is the name of the node: no list of the manager has two nodes of   *)
(* one name (CrossReferenced).  A node no list leads to is lost and is not *)
(* modelled.  Names are plain: as a pattern each matches itself only.      *)
(***************************************************************************)
EXTENDS Integers, SequencesExt

CONSTANTS
    StreamIds,          \* names of streams
    StreamDirections,   \* directions a stream is created with
    AlarmIds,           \* names of alarms
    ClockAlarms,    \* those of the alarms the clock has
    MaxLinks        \* bound on the alarms of all streams together

ASSUME AlarmsAssumption == ClockAlarms \subseteq AlarmIds
ASSUME LinksAssumption  == MaxLinks \in Nat
ASSUME StreamDirectionsAssumption == StreamDirections \subseteq SUBSET {"input", "output"}

VARIABLES
    streams,        \* manager % streams
    alarms,         \* manager % alarms_in and alarms_out
    node,           \* the nodes of the streams that are allocated
    streamList,     \* for each way, the stream lists of the nodes of alarms
    numStreams,
    ringing,        \* the alarms of the clock that ring
    returned        \* what the last operation returned

lists == <<streams, alarms, node, streamList, numStreams>>
managerVars == <<lists, ringing, returned>>

Ways == {"input", "output"}
Directions == {{}, {"input"}, {"output"}, Ways}     \* a set of ways; {}: none

ManagerInit ==
    /\ streams = <<>> /\ alarms = [w \in Ways |-> <<>>]
    /\ node = [s \in {} |-> {}] /\ streamList = [w \in Ways |-> [a \in {} |-> <<>>]]
    /\ numStreams = 0
    /\ ringing = {} /\ returned = "NOERR"

-----------------------------------------------------------------------------
(* Lists *)

\* MPAS_stream_list_query
Has(list, name) == name \in Range(list)

\* MPAS_stream_list_insert compares the name with those of all items but the last.
Duplicate(list, name) == \E k \in 1 .. Len(list) - 1 : list[k] = name
Insert(list, name) == IF Duplicate(list, name) THEN list ELSE Append(list, name)

\* MPAS_stream_list_remove: the first item with the name.
Removed(list, name) == RemoveFirst(list, name)

Without(f, x) == [y \in DOMAIN f \ {x} |-> f[y]]

-----------------------------------------------------------------------------
(* Streams *)

Returns(code) == returned' = code
Refused == Returns("ERROR") /\ UNCHANGED <<lists, ringing>>

\* The query before it leaves the insertion nothing to refuse.
CreateStream(s, d) ==
    IF Has(streams, s) THEN Refused
    ELSE /\ node' = [t \in DOMAIN node \cup {s} |->
                        IF t = s THEN [direction |-> d, alarmList |-> [w \in Ways |-> <<>>]]
                        ELSE node[t]]
         /\ streams' = Insert(streams, s)
         /\ numStreams' = numStreams + 1
         /\ Returns("NOERR")
         /\ UNCHANGED <<alarms, streamList, ringing>>

\* The alarms of s in the order they are unlinked in, up to the first that does
\* not have s on its list.
Unlinked(s, w) ==
    LET xrefs == node[s].alarmList[w]
        fails == SelectInSeq(xrefs, LAMBDA a : ~Has(streamList[w][a], s))
    IN  IF fails = 0 THEN xrefs ELSE SubSeq(xrefs, 1, fails - 1)

\* The output alarms are left alone when an input alarm could not be unlinked, and
\* then the stream is off the list but not freed.
DestroyStream(s) ==
    IF ~Has(streams, s) THEN Refused
    ELSE LET done(w) == Unlinked(s, w) = node[s].alarmList[w]
             visited == [w \in Ways |-> IF w = "input" \/ done("input")
                                        THEN Range(Unlinked(s, w)) ELSE {}]
         IN  /\ streams' = Removed(streams, s)
             /\ streamList' = [w \in Ways |-> [a \in DOMAIN streamList[w] |->
                                  IF a \in visited[w] THEN Removed(streamList[w][a], s)
                                  ELSE streamList[w][a]]]
             /\ IF \A w \in Ways : done(w)
                THEN /\ node' = Without(node, s)
                     /\ numStreams' = numStreams - 1 /\ Returns("NOERR")
                ELSE UNCHANGED <<node, numStreams>> /\ Returns("ERROR")
             /\ UNCHANGED <<alarms, ringing>>

-----------------------------------------------------------------------------
(* Alarms *)

\* Mutant: an alarm the manager has is given a new node.
StreamsOfNew(a, w) == <<>>

\* The stream list of the alarm's node, a new one if the manager has none.
StreamsOf(a, w) == IF Has(alarms[w], a) THEN streamList[w][a] ELSE <<>>

\* The part of MPAS_stream_mgr_add_alarm before its first change.
MayAddAlarm(s, a, ways) ==
    /\ Has(streams, s)
    /\ ways \subseteq node[s].direction
    /\ a \in ClockAlarms
    /\ \A w \in ways : ~Has(node[s].alarmList[w], a)

\* The stream goes on the list of the alarm's node, and the alarm on the list of the
\* stream; the output lists are left alone when an input list refuses the stream.
AddAlarm(s, a, ways) ==
    IF ~MayAddAlarm(s, a, ways) THEN Refused
    ELSE LET refuses(w) == w \in ways /\ Duplicate(StreamsOf(a, w), s)
             visited == IF refuses("input") THEN {"input"} ELSE ways
             linked == {w \in visited : ~refuses(w)}
         IN  /\ alarms' = [w \in Ways |-> IF w \in visited /\ ~Has(alarms[w], a)
                                          THEN Insert(alarms[w], a) ELSE alarms[w]]
             /\ streamList' = [w \in Ways |->
                   IF w \notin visited THEN streamList[w]
                   ELSE [b \in DOMAIN streamList[w] \cup {a} |->
                            IF b = a THEN Insert(StreamsOf(a, w), s) ELSE streamList[w][b]]]
             /\ node' = [node EXCEPT ![s].alarmList = [w \in Ways |->
                            IF w \in linked THEN Insert(@[w], a) ELSE @[w]]]
             /\ Returns(IF linked = ways THEN "NOERR" ELSE "ERROR")
             /\ UNCHANGED <<streams, numStreams, ringing>>

\* The alarm goes off the stream's list, the stream off the alarm's, and an alarm
\* with no streams left goes off the manager's.
RemoveAlarm(s, a, ways) ==
    IF ~Has(streams, s) \/ ways = Ways THEN Refused
    ELSE \E w \in ways :
       /\ node' = [node EXCEPT ![s].alarmList[w] = Removed(@, a)]
       /\ IF ~Has(node[s].alarmList[w], a)
          THEN Returns("NOT_FOUND") /\ UNCHANGED <<alarms, streamList>>
          ELSE LET rest == Removed(streamList[w][a], s)
               IN  IF ~Has(streamList[w][a], s)
                   THEN Returns("ERROR") /\ UNCHANGED <<alarms, streamList>>
                   ELSE IF rest # <<>>
                   THEN /\ streamList' = [streamList EXCEPT ![w][a] = rest]
                        /\ Returns("NOERR") /\ UNCHANGED alarms
                   ELSE /\ alarms' = [alarms EXCEPT ![w] = Removed(@, a)]
                        /\ streamList' = [streamList EXCEPT ![w] = Without(@, a)]
                        /\ Returns(IF Has(alarms[w], a) THEN "NOERR" ELSE "NOT_FOUND")
       /\ UNCHANGED <<streams, numStreams, ringing>>

-----------------------------------------------------------------------------
(* Ringing *)

\* The alarms the streams in S have on their lists.
AlarmsOf(S, ways) ==
    {a \in AlarmIds : \E s \in S, w \in ways : Has(node[s].alarmList[w], a)}

\* Mutant: the manager goes through the alarms of its streams.
AllAlarmsOfStreams(ways) == AlarmsOf(Range(streams), ways)

\* The alarms on the manager's lists.
AllAlarms(ways) == UNION {Range(alarms[w]) : w \in ways}

\* MPAS_stream_mgr_reset_alarms, for the streams whose names match a pattern (the
\* names in S) and for all alarms.
ResetAlarms(S, ways) ==
    LET matching == S \cap Range(streams)
    IN  IF matching = {} THEN Refused
        ELSE ringing' = ringing \ AlarmsOf(matching, ways) /\ Returns("NOERR") /\ UNCHANGED lists
ResetAllAlarms(ways) ==
    ringing' = ringing \ AllAlarms(ways) /\ Returns("NOERR") /\ UNCHANGED lists

Answer(as) == IF as \cap ringing = {} THEN "SILENT" ELSE "RINGING"

\* MPAS_stream_mgr_ringing_alarms, with and without a stream.
RingingAlarms(s, ways) ==
    IF ~Has(streams, s) THEN Refused
    ELSE Returns(Answer(AlarmsOf({s}, ways))) /\ UNCHANGED <<lists, ringing>>
AnyRingingAlarms(ways) == Returns(Answer(AllAlarms(ways))) /\ UNCHANGED <<lists, ringing>>

\* The clock comes to the ring time of an alarm.
Ring(a) == ringing' = ringing \cup {a} /\ UNCHANGED <<lists, returned>>

\* The alarms streams have on their lists.
Links == {l \in Range(streams) \X AlarmIds \X Ways : Has(node[l[1]].alarmList[l[3]], l[2])}

ManagerNext ==
    \/ \E s \in StreamIds, d \in StreamDirections : CreateStream(s, d)
    \/ \E s \in StreamIds : DestroyStream(s)
    \/ /\ Cardinality(Links) < MaxLinks
       /\ \E s \in StreamIds, a \in AlarmIds, ways \in Directions \ {{}} : AddAlarm(s, a, ways)
    \/ \E s \in StreamIds, a \in AlarmIds, ways \in Directions \ {{}} : RemoveAlarm(s, a, ways)
    \/ \E S \in (SUBSET StreamIds) \ {{}}, ways \in Directions \ {{}} : ResetAlarms(S, ways)
    \/ \E ways \in Directions \ {{}} : ResetAllAlarms(ways)
    \/ \E s \in StreamIds, ways \in Directions \ {{}} : RingingAlarms(s, ways)
    \/ \E ways \in Directions \ {{}} : AnyRingingAlarms(ways)
    \/ \E a \in ClockAlarms : Ring(a)

ManagerSpec == ManagerInit /\ [][ManagerNext]_managerVars

-----------------------------------------------------------------------------
(* Properties *)

Codes == {"NOERR", "ERROR", "NOT_FOUND", "SILENT", "RINGING"}

\* Every list has items of its kind, every stream on the manager's list is allocated,
\* and numStreams counts them.
ManagerTypeOK ==
    /\ streams \in Seq(StreamIds) /\ alarms \in [Ways -> Seq(AlarmIds)]
    /\ DOMAIN node = Range(streams) /\ numStreams = Len(streams)
    /\ \A s \in DOMAIN node : node[s] \in [direction: Directions,
                                           alarmList: [Ways -> Seq(AlarmIds)]]
    /\ DOMAIN streamList = Ways
    /\ \A w \in Ways : /\ DOMAIN streamList[w] = Range(alarms[w])
                       /\ \A a \in DOMAIN streamList[w] : streamList[w][a] \in Seq(StreamIds)
    /\ ringing \subseteq ClockAlarms /\ returned \in Codes

\* Between two operations a stream has an alarm on its list exactly if the manager has
\* the alarm, with the stream on its list; and no list has a name twice, although the
\* insertion looks at all items but the last.  Without it an operation would stop half
\* way, or follow a reference to a node that is no longer there.
CrossReferenced ==
    /\ IsInjective(streams)
    /\ \A w \in Ways :
       /\ IsInjective(alarms[w])
       /\ \A s \in Range(streams) : IsInjective(node[s].alarmList[w])
       /\ \A a \in Range(alarms[w]) : /\ IsInjective(streamList[w][a])
                                      /\ Range(streamList[w][a]) \subseteq Range(streams)
       /\ \A s \in Range(streams), a \in AlarmIds :
             a \in Range(node[s].alarmList[w]) <=> s \in Range(StreamsOf(a, w))

Registry == INSTANCE StreamRegistry WITH
    direction <- [s \in Range(streams) |-> node[s].direction],
    listens <- Links,
    result <- returned,
    kept <- {k \in AlarmIds \X Ways :
                Has(alarms[k[2]], k[1]) /\ streamList[k[2]][k[1]] = <<>>}

\* The lists, their references and their early returns do what one relation between
\* streams and alarms does, and return the same codes: whatever the order of the
\* operations nobody's alarm is lost, kept too long or silenced for another.
ImplementsRegistry == Registry!Spec
=============================================================================
