--------------------------- MODULE StreamRegistry ---------------------------
(***************************************************************************)
(* What the stream manager promises about streams and their alarms: which  *)
(* streams there are, and a relation that says which alarms each of them   *)
(* listens to and in which direction.  There are no lists, no nodes and no *)
(* references between them here; module StreamAlarms has those, and        *)
(* implements this one, return codes included.                             *)
(***************************************************************************)

CONSTANTS
    StreamIds,          \* names of streams
    StreamDirections,   \* directions a stream is created with
    AlarmIds,           \* names of alarms
    ClockAlarms     \* those of the alarms the clock has

VARIABLES
    direction,      \* the streams there are, with their directions
    listens,        \* the triples of a stream, an alarm and "input" or "output"
    kept,           \* the alarms the manager has kept of streams that are gone
    ringing,        \* the alarms of the clock that ring
    result          \* what the last operation returned

vars == <<direction, listens, kept, ringing, result>>

Ways == {"input", "output"}
Directions == {{}, {"input"}, {"output"}, Ways}     \* a set of ways; {}: none

Init ==
    /\ direction = [s \in {} |-> {}]
    /\ listens = {} /\ kept = {} /\ ringing = {}
    /\ result = "NOERR"

Returns(code) == result' = code

Refused == Returns("ERROR") /\ UNCHANGED <<ringing, direction, listens, kept>>

CreateStream(s, d) ==
    IF s \in DOMAIN direction THEN Refused
    ELSE /\ Returns("NOERR") /\ UNCHANGED <<ringing, listens, kept>>
         /\ direction' = [t \in DOMAIN direction \cup {s} |->
                             IF t = s THEN d ELSE direction[t]]

\* An alarm that only this stream listened to stays with the manager.
DestroyStream(s) ==
    IF s \notin DOMAIN direction THEN Refused
    ELSE /\ Returns("NOERR") /\ UNCHANGED ringing
         /\ direction' = [t \in DOMAIN direction \ {s} |-> direction[t]]
         /\ listens' = {l \in listens : l[1] # s}
         /\ kept' = kept \cup {<<l[2], l[3]>> : l \in
                {k \in listens : \A j \in listens : j[2] = k[2] /\ j[3] = k[3] => j[1] = s}}

AddAlarm(s, a, ways) ==
    IF \/ s \notin DOMAIN direction \/ a \notin ClockAlarms
       \/ ~(ways \subseteq direction[s])
       \/ \E w \in ways : <<s, a, w>> \in listens
    THEN Refused
    ELSE /\ Returns("NOERR") /\ UNCHANGED <<ringing, direction>>
         /\ listens' = listens \cup {<<s, a, w>> : w \in ways}
         /\ kept' = {k \in kept : ~(k[1] = a /\ k[2] \in ways)}

\* An alarm is removed in one direction at a time.
RemoveAlarm(s, a, ways) ==
    IF s \notin DOMAIN direction \/ ways = Ways THEN Refused
    ELSE /\ UNCHANGED <<ringing, direction, kept>>
         /\ listens' = {l \in listens : ~(l[1] = s /\ l[2] = a /\ l[3] \in ways)}
         /\ Returns(IF listens' = listens THEN "NOT_FOUND" ELSE "NOERR")

\* The alarms the streams in S listen to in one of the ways, and all the manager has.
Heard(S, ways) == {l[2] : l \in {k \in listens : k[1] \in S /\ k[3] \in ways}}
HeardByAny(ways) ==
    Heard(DOMAIN direction, ways) \cup {k[1] : k \in {j \in kept : j[2] \in ways}}

\* The alarms of the streams whose names are in S, and all alarms of the manager.
ResetAlarms(S, ways) ==
    IF S \cap DOMAIN direction = {} THEN Refused
    ELSE /\ Returns("NOERR") /\ UNCHANGED <<direction, listens, kept>>
         /\ ringing' = ringing \ Heard(S, ways)
ResetAllAlarms(ways) ==
    /\ Returns("NOERR") /\ UNCHANGED <<direction, listens, kept>>
    /\ ringing' = ringing \ HeardByAny(ways)

Answer(as) == IF as \cap ringing = {} THEN "SILENT" ELSE "RINGING"

RingingAlarms(s, ways) ==
    IF s \notin DOMAIN direction THEN Refused
    ELSE UNCHANGED <<ringing, direction, listens, kept>> /\ Returns(Answer(Heard({s}, ways)))
AnyRingingAlarms(ways) ==
    UNCHANGED <<ringing, direction, listens, kept>> /\ Returns(Answer(HeardByAny(ways)))

\* The clock comes to the ring time of an alarm.
Ring(a) == UNCHANGED <<result, direction, listens, kept>> /\ ringing' = ringing \cup {a}

Next ==
    \/ \E s \in StreamIds, d \in StreamDirections : CreateStream(s, d)
    \/ \E s \in StreamIds : DestroyStream(s)
    \/ \E ways \in Directions \ {{}} :
          \/ \E s \in StreamIds :
                \/ RingingAlarms(s, ways)
                \/ \E a \in AlarmIds : AddAlarm(s, a, ways) \/ RemoveAlarm(s, a, ways)
          \/ \E S \in (SUBSET StreamIds) \ {{}} : ResetAlarms(S, ways)
          \/ ResetAllAlarms(ways) \/ AnyRingingAlarms(ways)
    \/ \E a \in ClockAlarms : Ring(a)

Spec == Init /\ [][Next]_vars
=============================================================================
