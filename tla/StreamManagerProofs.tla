------------------------- MODULE StreamManagerProofs -------------------------
(* Proofs about the stream manager.  First an output stream and its files, for   *)
(* any clobber modes, intervals and number of runs, with failing writes or       *)
(* without.  Then the lists of the manager, for every set of streams and of      *)
(* alarms: the references between the lists stay in step, and the operations on  *)
(* them do what the operations on one relation do.                               *)
EXTENDS OutputStream, StreamAlarms, SequenceTheorems, WellFoundedInduction, TLAPS

-----------------------------------------------------------------------------
(* Operators of a write *)

\* A set of record numbers has a greatest member.
LEMMA MaxOfPart ==
    ASSUME NEW k \in Nat, NEW I \in SUBSET (1 .. k), I # {}
    PROVE  Max(I) \in I
<1> DEFINE T == {k - x : x \in I}
<1>1. T \subseteq Nat
  <2>1. \A x \in I : k - x \in Nat
    OBVIOUS
  <2> QED
    BY <2>1
<1>2. T # {}
  OBVIOUS
<1>3. \E y \in T : \A z \in T : ~ (<<z, y>> \in OpToRel(<, Nat))
  <2> HIDE DEF T
  <2> QED
    BY <1>1, <1>2, NatLessThanWellFounded, WFMin
<1>4. PICK y \in T : \A z \in T : ~ (<<z, y>> \in OpToRel(<, Nat))
  BY <1>3
<1>5. \A z \in T : ~(z < y)
  BY <1>1, <1>4 DEF OpToRel
<1>6. PICK x \in I : y = k - x
  OBVIOUS
<1>7. \A z \in I : x >= z
  BY <1>5, <1>6
<1> QED
  BY <1>7 DEF Max

\* MPAS_seekStream returns a record with the exact time, if one of those it looks at has
\* it, or none.
LEMMA SeekFinds ==
    ASSUME NEW contents, NEW size \in Nat, NEW t
    PROVE  LET record == SeekStream(contents, size, t)
           IN  /\ record \in 0 .. size
               /\ record # 0 => contents[record] = t
               /\ record = 0 => \A i \in 1 .. size : contents[i] # t
<1> DEFINE I == {i \in 1 .. size : contents[i] = t}
<1>1. SeekStream(contents, size, t) = IF I # {} THEN Max(I) ELSE 0
  BY DEF SeekStream, SelectLastInSubSeq
<1>2. I # {} => Max(I) \in I
  BY MaxOfPart
<1> QED
  BY <1>1, <1>2

\* A newly opened file is written at one of its records, or behind them.
LEMMA FirstRecordType ==
    ASSUME NEW contents \in Seq(Stamps), NEW t
    PROVE  FirstRecord(contents, t) \in 1 .. Len(contents) + 1
<1>1. Len(contents) \in Nat /\ SeekStream(contents, Len(contents), t) \in 0 .. Len(contents)
  BY SeekFinds
<1> QED
  BY <1>1 DEF FirstRecord

\* Writing a record leaves the other ones of the file as they are; it skips none if it
\* is one of them or the one behind them.
LEMMA PutType ==
    ASSUME NEW contents \in Seq(Stamps), NEW record \in Nat \ {0}, NEW t \in Stamps
    PROVE  /\ Put(contents, record, t) \in Seq(Stamps)
           /\ Len(Put(contents, record, t)) \in Nat
           /\ Len(Put(contents, record, t)) >= Len(contents)
           /\ Len(Put(contents, record, t)) >= record
           /\ \A i \in 1 .. Len(contents) :
                 i # record => Put(contents, record, t)[i] = contents[i]
           /\ record <= Len(contents) + 1 =>
                 Range(Put(contents, record, t)) \subseteq Range(contents) \cup {t}
<1> DEFINE n == IF record > Len(contents) THEN record ELSE Len(contents)
<1>1. Len(contents) \in Nat /\ n \in Nat /\ n >= Len(contents) /\ n >= record
  OBVIOUS
<1>2. Put(contents, record, t) =
         [i \in 1 .. n |-> CASE i = record -> t
                             [] i # record /\ i <= Len(contents) -> contents[i]
                             [] OTHER -> FillValue]
  BY DEF Put
<1>3. \A i \in 1 .. n :
         /\ i = record => Put(contents, record, t)[i] = t
         /\ i # record /\ i <= Len(contents) =>
               i \in 1 .. Len(contents) /\ Put(contents, record, t)[i] = contents[i]
         /\ i # record /\ ~(i <= Len(contents)) => Put(contents, record, t)[i] = FillValue
  BY <1>1, <1>2
<1>4. \A i \in 1 .. n : Put(contents, record, t)[i] \in Stamps
  BY <1>3 DEF Stamps
<1>5. Put(contents, record, t) \in [1 .. n -> Stamps]
  BY <1>2, <1>4
<1>6. Put(contents, record, t) \in Seq(Stamps) /\ Len(Put(contents, record, t)) = n
  BY <1>1, <1>5
<1>7. ASSUME record <= Len(contents) + 1, NEW i \in 1 .. n
      PROVE  Put(contents, record, t)[i] \in Range(contents) \cup {t}
  <2>1. i = record \/ i <= Len(contents)
    BY <1>1, <1>7
  <2> QED
    BY <1>3, <2>1 DEF Range
<1>8. record <= Len(contents) + 1 =>
         Range(Put(contents, record, t)) \subseteq Range(contents) \cup {t}
  BY <1>6, <1>7 DEF Range
<1> QED
  BY <1>1, <1>3, <1>6, <1>8

\* A sequence is a prefix of another when the other one is as long and the same there.
LEMMA PrefixByElement ==
    ASSUME NEW s \in Seq(Stamps), NEW t \in Seq(Stamps)
    PROVE  IsPrefix(s, t) <=> Len(s) <= Len(t) /\ \A i \in 1 .. Len(s) : s[i] = t[i]
<1>1. ASSUME Len(s) <= Len(t)
      PROVE  SubSeq(s, 1, Len(s)) = SubSeq(t, 1, Len(s)) <=> \A i \in 1 .. Len(s) : s[i] = t[i]
  <2>1. /\ SubSeq(s, 1, Len(s)) = [i \in 1 .. Len(s) |-> s[i]]
        /\ SubSeq(t, 1, Len(s)) = [i \in 1 .. Len(s) |-> t[i]]
    BY <1>1
  <2> QED
    BY <2>1
<1> QED
  BY <1>1 DEF IsPrefix

\* Records behind the prefix p of a file may be written without changing p.
LEMMA PutKeepsPrefix ==
    ASSUME NEW p \in Seq(Stamps), NEW contents \in Seq(Stamps), IsPrefix(p, contents),
           NEW record \in Nat \ {0}, Len(p) < record, NEW t \in Stamps
    PROVE  IsPrefix(p, Put(contents, record, t))
<1>1. Len(p) <= Len(contents) /\ \A i \in 1 .. Len(p) : p[i] = contents[i]
  BY PrefixByElement
<1>2. Len(p) \in Nat /\ Len(contents) \in Nat
  OBVIOUS
<1>3. \A i \in 1 .. Len(p) : i \in 1 .. Len(contents) /\ i # record
  BY <1>1, <1>2
<1> DEFINE q == Put(contents, record, t)
<1>4. /\ q \in Seq(Stamps) /\ Len(q) \in Nat /\ Len(q) >= Len(contents)
      /\ \A i \in 1 .. Len(contents) : i # record => q[i] = contents[i]
  BY PutType
<1> HIDE DEF q
<1>5. Len(p) <= Len(q) /\ \A i \in 1 .. Len(p) : p[i] = q[i]
  BY <1>1, <1>2, <1>3, <1>4
<1>6. IsPrefix(p, q)
  BY <1>4, <1>5, PrefixByElement
<1> QED
  BY <1>6 DEF q

-----------------------------------------------------------------------------
(* The inductive invariant *)

\* The disk holds records, and none was skipped in a file in which no failing write was
\* passed over.
FilesComplete ==
    /\ \A f \in DOMAIN files : files[f] \in Seq(Stamps)
    /\ \A f \in DOMAIN found : found[f] \in Seq(Stamps)
    /\ \A f \in DOMAIN files \ masked : FillValue \notin Range(files[f])

HasFile == stream.valid /\ stream.handle = "open"

\* The open file is there, and neither the size the handle keeps nor, unless a failing
\* write was passed over, the counter is ahead of it.
HandleInside ==
    HasFile =>
       /\ stream.filename \in DOMAIN files
       /\ stream.filename \notin masked => stream.nRecords <= Len(files[stream.filename])
       /\ stream.preexisting <= Len(files[stream.filename])

\* The open file is not one the mode forbids to open, and the size the handle keeps
\* covers the records the mode forbids to change.
HandleGuards ==
    HasFile /\ stream.filename \in DOMAIN found =>
       /\ mode # "never_modify"
       /\ mode = "append" => Len(found[stream.filename]) <= stream.preexisting

IInv == TypeOK /\ FilesComplete /\ HandleInside /\ HandleGuards /\ ExistingDataKept

\* The first run starts with an empty disk.
LEMMA InitInv == Init => IInv
<1> SUFFICES ASSUME Init PROVE IInv
  OBVIOUS
<1> USE BoundsAssumption
<1>1. TypeOK
  BY DEF Init, TypeOK, Times, Results, NewStream, Handles
<1>2. FilesComplete /\ HandleInside /\ HandleGuards /\ ExistingDataKept
  BY DEF Init, FilesComplete, HandleInside, HandleGuards, ExistingDataKept, NewStream, HasFile
<1> QED
  BY <1>1, <1>2 DEF IInv

-----------------------------------------------------------------------------
(* Where a write goes *)

\* The name of the file a time falls into is a number.
LEMMA FileOfType == \A t \in Times : FileOf(t) \in Nat
  BY BoundsAssumption DEF FileOf, Times

\* A write that needs no file to be opened goes to the file that is open.
LEMMA FileIsOpen ==
    ASSUME IInv, Accepted, ~OpensFile
    PROVE  HasFile /\ stream.filename = FileOf(now)
  BY DEF Accepted, OpensFile, CloseFailed, HasFile, IInv, TypeOK

\* A write that reaches a file goes to one of its records or, unless a failing write in
\* it was passed over, to the one behind them; the record counter ends up inside what is
\* then there, unless the record is refused, which the file already has.
LEMMA TargetType ==
    ASSUME IInv, Accepted
    PROVE  /\ Target.contents \in Seq(Stamps) /\ Target.size \in 0 .. Len(Target.contents)
           /\ Target.record \in Nat \ {0}
           /\ OpensFile \/ FileOf(now) \notin masked =>
                 Target.record <= Len(Target.contents) + 1
           /\ Target.counter \in Nat
           /\ Target.counter <= Len(Target.contents) \/ Target.counter <= Target.record
           /\ FileOf(now) \notin masked => FillValue \notin Range(Target.contents)
<1> DEFINE f == FileOf(now)
<1>1. CASE OpensFile
  <2>1. /\ Target.contents = Opened(f) /\ Target.size = Len(Opened(f))
        /\ Target.record = FirstRecord(Opened(f), now)
        /\ Target.counter = FirstRecord(Opened(f), now)
    BY <1>1 DEF Target
  <2>2. /\ Opened(f) \in Seq(Stamps)
        /\ f \notin masked => FillValue \notin Range(Opened(f))
    BY DEF Opened, Exists, IInv, FilesComplete, Range
  <2>3. FirstRecord(Opened(f), now) \in 1 .. Len(Opened(f)) + 1 /\ Len(Opened(f)) \in Nat
    BY <2>2, FirstRecordType
  <2> QED
    BY <2>1, <2>2, <2>3
<1>2. CASE ~OpensFile
  <2> DEFINE n == stream.nRecords + 1
             size == stream.preexisting
             next == NextRecord(files[f], n, size, now)
  <2>1. /\ Target.contents = files[f] /\ Target.size = size
        /\ Target.record = next.record /\ Target.counter = next.counter
    BY <1>2 DEF Target
  <2>2. HasFile /\ stream.filename = f
    BY <1>2, FileIsOpen
  <2>3. /\ files[f] \in Seq(Stamps) /\ size \in 0 .. Len(files[f]) /\ n \in Nat \ {0}
        /\ f \notin masked => n <= Len(files[f]) + 1
        /\ f \notin masked => FillValue \notin Range(files[f])
    BY <2>2 DEF IInv, TypeOK, FilesComplete, HandleInside
  <2> DEFINE record == SeekStream(files[f], size, now)
  <2>4. record \in 0 .. size
    BY <2>3, SeekFinds
  <2>5. \/ /\ record # 0 /\ n < size /\ next.record = record /\ next.counter = n
        \/ /\ next.record = size + 1 /\ next.counter = size + 1
        \/ /\ next.record = n /\ next.counter = n
    BY DEF NextRecord
  <2> HIDE DEF n, size, next, record
  <2> QED
    BY <1>2, <2>1, <2>3, <2>4, <2>5
<1> QED
  BY <1>1, <1>2

\* A file the mode protects is written only behind the records it promises to keep.
LEMMA TargetGuards ==
    ASSUME IInv, FileOf(now) \in DOMAIN found, Accepted
    PROVE  /\ mode # "never_modify"
           /\ mode = "append" =>
                 /\ IsPrefix(found[FileOf(now)], Target.contents)
                 /\ Len(found[FileOf(now)]) <= Target.size
<1> DEFINE f == FileOf(now)
<1>1. f \in DOMAIN files /\ f \in DOMAIN found
  BY DEF IInv, TypeOK
<1>2. CASE OpensFile
  <2>1. mode # "never_modify"
    BY <1>1, <1>2 DEF Accepted, Refuses, Exists, clobberFiles
  <2>2. ASSUME mode = "append"
        PROVE  IsPrefix(found[f], Target.contents) /\ Len(found[f]) <= Target.size
    <3>1. Target.contents = files[f] /\ Target.size = Len(files[f])
      BY <1>1, <1>2, <2>2 DEF Target, Opened, Exists, MaySeek
    <3>2. IsPrefix(found[f], files[f])
      BY <1>1, <2>2 DEF IInv, ExistingDataKept
    <3> QED
      BY <3>1, <3>2 DEF IsPrefix
  <2> QED
    BY <2>1, <2>2
<1>3. CASE ~OpensFile
  <2>1. HasFile /\ stream.filename = f
    BY <1>3, FileIsOpen
  <2>2. Target.contents = files[f] /\ Target.size = stream.preexisting
    BY <1>3 DEF Target
  <2> QED
    BY <1>1, <2>1, <2>2 DEF IInv, HandleGuards, ExistingDataKept
<1> QED
  BY <1>2, <1>3

\* What a write leaves on disk: the opened file, or that file with the record, with its
\* time or without.
WrittenFiles ==
    \/ files' = Stored(FileOf(now), Target.contents)
    \/ /\ ~WouldClobber(Target.record, Target.size)
       /\ files' = Stored(FileOf(now), Put(Target.contents, Target.record, now))
    \/ /\ Target.record > Len(Target.contents)
       /\ files' = Stored(FileOf(now), Put(Target.contents, Target.record, TornValue))

\* The files in which an error was passed over change at most by the one that is written,
\* which leaves them only if no record of it is skipped.
MaskedKept ==
    /\ masked \subseteq masked' \cup {FileOf(now)}
    /\ FileOf(now) \notin masked' =>
          /\ FillValue \notin Range(Target.contents)
          /\ Target.record <= Len(Target.contents) + 1

\* Either way the disk is complete, and what the mode protects is still there.
LEMMA WrittenKeeps ==
    ASSUME IInv, Accepted, WrittenFiles, MaskedKept, UNCHANGED <<mode, found>>
    PROVE  /\ FilesComplete' /\ ExistingDataKept'
           /\ DOMAIN files' = DOMAIN files \cup {FileOf(now)}
           /\ FileOf(now) \in DOMAIN files'
           /\ Len(files'[FileOf(now)]) \in Nat
           /\ Len(files'[FileOf(now)]) >= Len(Target.contents)
           /\ files' = Stored(FileOf(now), Put(Target.contents, Target.record, now)) =>
                 Len(files'[FileOf(now)]) >= Target.record
<1> DEFINE f == FileOf(now)
           p == Put(Target.contents, Target.record, now)
           q == Put(Target.contents, Target.record, TornValue)
<1>1. /\ Target.contents \in Seq(Stamps) /\ Target.size \in 0 .. Len(Target.contents)
      /\ Target.record \in Nat \ {0} /\ now \in Times
      /\ now \in Stamps /\ TornValue \in Stamps
      /\ Len(Target.contents) \in Nat
  BY TargetType DEF IInv, TypeOK, Stamps
<1>2. /\ p \in Seq(Stamps) /\ Len(p) \in Nat /\ Len(p) >= Len(Target.contents)
      /\ Len(p) >= Target.record
      /\ Target.record <= Len(Target.contents) + 1 =>
            Range(p) \subseteq Range(Target.contents) \cup {now}
  BY <1>1, PutType
<1>3. /\ q \in Seq(Stamps) /\ Len(q) \in Nat /\ Len(q) >= Len(Target.contents)
      /\ Target.record <= Len(Target.contents) + 1 =>
            Range(q) \subseteq Range(Target.contents) \cup {TornValue}
  BY <1>1, PutType
<1>4. PICK c : /\ files' = Stored(f, c)
               /\ \/ c = Target.contents
                  \/ c = p /\ ~WouldClobber(Target.record, Target.size)
                  \/ c = q /\ Target.record > Len(Target.contents)
  BY DEF WrittenFiles
<1>5. /\ DOMAIN files' = DOMAIN files \cup {f} /\ files'[f] = c
      /\ \A g \in DOMAIN files \ {f} : files'[g] = files[g]
  BY <1>4 DEF Stored
<1>6. now # FillValue /\ TornValue # FillValue
  BY <1>1, BoundsAssumption DEF Times, FillValue, TornValue
<1> HIDE DEF p, q
<1>7. c \in Seq(Stamps) /\ Len(c) \in Nat /\ Len(c) >= Len(Target.contents)
  BY <1>1, <1>2, <1>3, <1>4
<1>8. f \notin masked' => FillValue \notin Range(c)
  <2> SUFFICES ASSUME f \notin masked' PROVE FillValue \notin Range(c)
    OBVIOUS
  <2>1. FillValue \notin Range(Target.contents) /\ Target.record <= Len(Target.contents) + 1
    BY DEF MaskedKept
  <2> QED
    BY <1>2, <1>3, <1>4, <1>6, <2>1
<1>9. FilesComplete'
  <2>1. /\ \A g \in DOMAIN files' : files'[g] \in Seq(Stamps)
        /\ \A g \in DOMAIN found' : found'[g] \in Seq(Stamps)
    BY <1>5, <1>7 DEF FilesComplete, IInv
  <2>2. ASSUME NEW g \in DOMAIN files', g \notin masked', g # f
        PROVE  FillValue \notin Range(files'[g])
    <3>1. g \in DOMAIN files /\ g \notin masked /\ files'[g] = files[g]
      BY <1>5, <2>2 DEF MaskedKept
    <3> QED
      BY <3>1 DEF FilesComplete, IInv
  <2>3. f \notin masked' => FillValue \notin Range(files'[f])
    BY <1>5, <1>8
  <2>4. \A g \in DOMAIN files' \ masked' : FillValue \notin Range(files'[g])
    BY <2>2, <2>3
  <2> QED
    BY <2>1, <2>4 DEF FilesComplete, Range, Stamps, Times
<1>10. ExistingDataKept'
  <2>1. ASSUME NEW g \in DOMAIN found, g # f
        PROVE  files'[g] = files[g]
    BY <1>5, <2>1 DEF IInv, TypeOK
  <2>2. ASSUME f \in DOMAIN found, mode = "append" PROVE IsPrefix(found[f], c)
    <3>1. IsPrefix(found[f], Target.contents) /\ Len(found[f]) <= Target.size
      BY <2>2, TargetGuards
    <3>2. found[f] \in Seq(Stamps)
      BY <2>2 DEF IInv, FilesComplete
    <3>3. CASE c = Target.contents
      BY <3>1, <3>3
    <3>4. CASE c = p /\ ~WouldClobber(Target.record, Target.size)
      <4>1. ~(Target.record <= Target.size)
        BY <2>2, <3>4 DEF WouldClobber, clobberRecords
      <4>2. Len(found[f]) < Target.record
        BY <1>1, <3>1, <3>2, <4>1
      <4> QED
        BY <1>1, <3>1, <3>2, <3>4, <4>2, PutKeepsPrefix DEF p
    <3>5. CASE c = q /\ Target.record > Len(Target.contents)
      <4>1. Len(found[f]) < Target.record
        BY <1>1, <3>1, <3>2, <3>5
      <4> QED
        BY <1>1, <3>1, <3>2, <3>5, <4>1, PutKeepsPrefix DEF q
    <3> QED
      BY <1>4, <3>3, <3>4, <3>5
  <2>3. f \in DOMAIN found => mode # "never_modify"
    BY TargetGuards
  <2> QED
    BY <1>5, <2>1, <2>2, <2>3 DEF ExistingDataKept, IInv
<1>11. files' = Stored(f, p) => Len(files'[f]) >= Target.record
  <2>1. files' = Stored(f, p) => files'[f] = p
    BY DEF Stored
  <2> QED
    BY <1>2, <2>1
<1> QED
  BY <1>5, <1>7, <1>9, <1>10, <1>11 DEF p

-----------------------------------------------------------------------------
(* Every step *)

\* A step that leaves the disk and the stream alone leaves what is said of them.
LEMMA Framed ==
    ASSUME IInv, UNCHANGED <<mode, found, files, stream, masked>>
    PROVE  FilesComplete' /\ HandleInside' /\ HandleGuards' /\ ExistingDataKept'
<1>1. FilesComplete /\ HandleInside /\ HandleGuards /\ ExistingDataKept
  BY DEF IInv
<1>2. mode' = mode /\ found' = found /\ files' = files /\ stream' = stream /\ masked' = masked
  OBVIOUS
<1> QED
  BY <1>1, <1>2 DEF FilesComplete, HandleInside, HandleGuards, ExistingDataKept, HasFile, Range,
                    Stamps, Times

\* The same of a step that closes the file, or has none open.
LEMMA ClosedHandle ==
    ASSUME IInv, ~HasFile'
    PROVE  HandleInside' /\ HandleGuards'
  BY DEF HandleInside, HandleGuards

\* And of one that leaves only the disk alone.
LEMMA DiskFramed ==
    ASSUME IInv, UNCHANGED <<mode, found, files, masked>>
    PROVE  FilesComplete' /\ ExistingDataKept'
  BY DEF IInv, FilesComplete, ExistingDataKept, Range, Stamps, Times

\* The stream node has its type after a write.
LEMMA HandleAfterType ==
    ASSUME IInv, Accepted
    PROVE  /\ FileOf(now) \in Nat
           /\ Target.counter \in Nat /\ Target.size \in Nat
<1>1. Target.counter \in Nat /\ Target.size \in 0 .. Len(Target.contents)
      /\ Len(Target.contents) \in Nat
  BY TargetType
<1>2. FileOf(now) \in Nat
  BY FileOfType DEF IInv, TypeOK
<1> QED
  BY <1>1, <1>2

\* A write that succeeds or is refused leaves the file open with its counter inside it,
\* and guarded.
LEMMA WriteInv ==
    ASSUME IInv, Write
    PROVE  FilesComplete' /\ HandleInside' /\ HandleGuards' /\ ExistingDataKept' /\ TypeOK'
<1> DEFINE f == FileOf(now)
           target == Target
<1>1. /\ Accepted /\ UNCHANGED <<orderly, mode, period, run, found, now, failures>>
      /\ stream' = HandleAfter(target)
      /\ masked' = IF OpensFile /\ FillValue \notin Range(target.contents)
                   THEN masked \ {f} ELSE masked
      /\ \/ WouldClobber(target.record, target.size) /\ files' = Stored(f, target.contents)
         \/ /\ ~WouldClobber(target.record, target.size)
            /\ files' = Stored(f, Put(target.contents, target.record, now))
  BY DEF Write, configuration
<1>2. /\ target.contents \in Seq(Stamps) /\ target.size \in 0 .. Len(target.contents)
      /\ target.record \in Nat \ {0} /\ target.counter \in Nat
      /\ target.counter <= Len(target.contents) \/ target.counter <= target.record
      /\ OpensFile \/ f \notin masked => target.record <= Len(target.contents) + 1
      /\ f \notin masked => FillValue \notin Range(target.contents)
      /\ Len(target.contents) \in Nat
  BY <1>1, TargetType
<1>3. /\ stream'.valid = TRUE /\ stream'.filename = f /\ stream'.nRecords = target.counter
      /\ stream'.preexisting = target.size /\ stream'.handle = "open"
  BY <1>1 DEF HandleAfter
<1>4. WrittenFiles
  BY <1>1 DEF WrittenFiles
<1>5. MaskedKept
  <2> HIDE DEF target
  <2> QED
    BY <1>1, <1>2 DEF MaskedKept, target
<1>6. /\ FilesComplete' /\ ExistingDataKept'
      /\ DOMAIN files' = DOMAIN files \cup {f} /\ f \in DOMAIN files'
      /\ Len(files'[f]) \in Nat /\ Len(files'[f]) >= Len(target.contents)
      /\ files' = Stored(f, Put(target.contents, target.record, now)) =>
            Len(files'[f]) >= target.record
  BY <1>1, <1>4, <1>5, WrittenKeeps
<1>7. HandleInside'
  <2>1. target.counter <= Len(files'[f])
    <3>1. CASE WouldClobber(target.record, target.size)
      BY <1>2, <1>6, <3>1 DEF WouldClobber
    <3>2. CASE files' = Stored(f, Put(target.contents, target.record, now))
      BY <1>2, <1>6, <3>2
    <3> QED
      BY <1>1, <3>1, <3>2
  <2>2. target.size <= Len(files'[f])
    BY <1>2, <1>6
  <2> QED
    BY <1>3, <1>6, <2>1, <2>2 DEF HandleInside
<1>8. HandleGuards'
  BY <1>1, <1>3, TargetGuards DEF HandleGuards
<1>9. TypeOK'
  <2>1. stream' \in [valid: BOOLEAN, filename: Nat \cup {FillValue}, nRecords: Nat,
                     preexisting: Nat, handle: Handles]
    <3>1. f \in Nat /\ target.size \in Nat /\ target.counter \in Nat
      BY <1>1, HandleAfterType
    <3> HIDE DEF f, target
    <3> QED
      BY <1>1, <3>1 DEF HandleAfter, Handles, f
  <2>2. /\ DOMAIN files' \subseteq {FileOf(t) : t \in Times}
        /\ \A g \in DOMAIN files' : Range(files'[g]) \subseteq Stamps
        /\ DOMAIN found' \subseteq DOMAIN files'
    BY <1>1, <1>6 DEF FilesComplete, Range, IInv, TypeOK, Stamps, Times
  <2>3. result' \in Results /\ due' \in BOOLEAN /\ written' \subseteq Times
    BY DEF Write, Results, IInv, TypeOK
  <2>4. masked' \subseteq DOMAIN files'
    BY <1>1, <1>6 DEF IInv, TypeOK
  <2> QED
    BY <1>1, <2>1, <2>2, <2>3, <2>4 DEF IInv, TypeOK
<1> QED
  BY <1>6, <1>7, <1>8, <1>9

\* The disk has its type after a write that left it so.
LEMMA WrittenFilesType ==
    ASSUME IInv, FilesComplete', UNCHANGED found,
           DOMAIN files' = DOMAIN files \/ DOMAIN files' = DOMAIN files \cup {FileOf(now)}
    PROVE  /\ DOMAIN files' \subseteq {FileOf(t) : t \in Times}
           /\ \A g \in DOMAIN files' : Range(files'[g]) \subseteq Stamps
           /\ DOMAIN found' \subseteq DOMAIN files'
  BY DEF FilesComplete, Range, IInv, TypeOK, Stamps, Times

\* A write that fails leaves the disk as it was, or with what it has written.
LEMMA PartlyWrittenKeeps ==
    ASSUME IInv, Accepted, PartlyWritten, UNCHANGED <<mode, found>>,
           masked' = masked \/ masked' = masked \cup {FileOf(now)}
    PROVE  /\ FilesComplete' /\ ExistingDataKept'
           /\ DOMAIN files' = DOMAIN files \cup {FileOf(now)}
           /\ Len(files'[FileOf(now)]) \in Nat
           /\ Len(files'[FileOf(now)]) >= Len(Target.contents)
<1>1. WrittenFiles
  BY DEF PartlyWritten, WrittenFiles
<1>2. MaskedKept
  BY TargetType DEF MaskedKept
<1> QED
  BY <1>1, <1>2, WrittenKeeps

LEMMA WriteFailsInv ==
    ASSUME IInv, WriteFails
    PROVE  FilesComplete' /\ HandleInside' /\ HandleGuards' /\ ExistingDataKept' /\ TypeOK'
<1> DEFINE f == FileOf(now)
<1>1. /\ Accepted /\ UNCHANGED <<orderly, mode, period, run, found, now, written, masked>>
      /\ failures < MaxFailures /\ failures' = failures + 1
      /\ stream' = NewStream /\ result' = "ERROR" /\ due' = FALSE
      /\ files' = files \/ PartlyWritten
  BY DEF WriteFails, configuration
<1>2. HandleInside' /\ HandleGuards'
  BY <1>1, ClosedHandle DEF NewStream, HasFile
<1>3. /\ FilesComplete' /\ ExistingDataKept'
      /\ DOMAIN files' = DOMAIN files \/ DOMAIN files' = DOMAIN files \cup {f}
  BY <1>1, DiskFramed, PartlyWrittenKeeps
<1>4. TypeOK'
  <2>1. /\ DOMAIN files' \subseteq {FileOf(t) : t \in Times}
        /\ \A g \in DOMAIN files' : Range(files'[g]) \subseteq Stamps
        /\ DOMAIN found' \subseteq DOMAIN files'
    BY <1>1, <1>3, WrittenFilesType
  <2>2. failures' \in 0 .. MaxFailures
    BY <1>1, BoundsAssumption DEF IInv, TypeOK
  <2> QED
    BY <1>1, <1>3, <2>1, <2>2 DEF IInv, TypeOK, Results, NewStream, Handles
<1> QED
  BY <1>2, <1>3, <1>4

\* A failing write that is passed over leaves no file open, one without fields, or the
\* file it was to write with the counter moved on.
LEMMA WriteErrorMaskedInv ==
    ASSUME IInv, WriteErrorMasked
    PROVE  FilesComplete' /\ HandleInside' /\ HandleGuards' /\ ExistingDataKept' /\ TypeOK'
<1> DEFINE f == FileOf(now)
<1>1. /\ UNCHANGED <<orderly, mode, period, run, found, now, written>>
      /\ failures < MaxFailures /\ failures' = failures + 1
      /\ result' = "MASKED" /\ due' = FALSE
  BY DEF WriteErrorMasked, configuration
<1> DEFINE Kept == /\ FilesComplete' /\ ExistingDataKept'
                   /\ DOMAIN files' = DOMAIN files \/ DOMAIN files' = DOMAIN files \cup {f}
                   /\ masked' \subseteq DOMAIN files'
                   /\ HandleInside' /\ HandleGuards'
                   /\ stream' \in [valid: BOOLEAN, filename: Nat \cup {FillValue},
                                    nRecords: Nat, preexisting: Nat, handle: Handles]
<1>2. f \in Nat
  BY FileOfType DEF IInv, TypeOK
\* Opened files are on disk as a failing MPAS_writeStream may leave them.
<1>3. ASSUME Accepted, files' \in {files, Stored(f, Target.contents)}, UNCHANGED masked
      PROVE  /\ FilesComplete' /\ ExistingDataKept' /\ masked' \subseteq DOMAIN files'
             /\ DOMAIN files' = DOMAIN files \/ DOMAIN files' = DOMAIN files \cup {f}
  <2>1. files' = files \/ PartlyWritten
    BY <1>3 DEF PartlyWritten
  <2> QED
    BY <1>1, <1>3, <2>1, DiskFramed, PartlyWrittenKeeps DEF IInv, TypeOK
<1>4. ASSUME /\ Accepted /\ files' \in {files, Stored(f, Target.contents)} /\ UNCHANGED masked
             /\ stream' = [NewStream EXCEPT !.filename = f]
      PROVE  Kept
  <2>1. HandleInside' /\ HandleGuards'
    BY <1>4, ClosedHandle DEF NewStream, HasFile
  <2>2. Kept
    BY <1>2, <1>3, <1>4, <2>1 DEF NewStream, Handles
  <2> QED
    BY <2>2
<1>5. ASSUME /\ Accepted /\ files' = Stored(f, Target.contents) /\ UNCHANGED masked
             /\ stream' = [HandleAfter(Target) EXCEPT !.handle = "bare"]
      PROVE  Kept
  <2>1. HandleInside' /\ HandleGuards'
    BY <1>5, ClosedHandle DEF HandleAfter, HasFile
  <2>2. stream' \in [valid: BOOLEAN, filename: Nat \cup {FillValue}, nRecords: Nat,
                     preexisting: Nat, handle: Handles]
    BY <1>5, HandleAfterType DEF HandleAfter, Handles
  <2> QED
    BY <1>3, <1>5, <2>1, <2>2
<1>6. ASSUME /\ stream' = [NewStream EXCEPT !.valid = TRUE, !.filename = f]
             /\ UNCHANGED <<files, masked>>
      PROVE  Kept
  <2>1. HandleInside' /\ HandleGuards'
    BY <1>6, ClosedHandle DEF NewStream, HasFile
  <2>2. FilesComplete' /\ ExistingDataKept' /\ masked' \subseteq DOMAIN files'
    BY <1>1, <1>6, DiskFramed DEF IInv, TypeOK
  <2> QED
    BY <1>2, <1>6, <2>1, <2>2 DEF NewStream, Handles
<1>7. ASSUME /\ Accepted /\ PartlyWritten /\ stream' = HandleAfter(Target)
             /\ masked' = masked \cup {f}
      PROVE  Kept
  <2>1. /\ FilesComplete' /\ ExistingDataKept'
        /\ DOMAIN files' = DOMAIN files \cup {f} /\ Len(files'[f]) \in Nat
        /\ Len(files'[f]) >= Len(Target.contents)
    BY <1>1, <1>7, PartlyWrittenKeeps
  <2>2. /\ stream'.valid = TRUE /\ stream'.filename = f /\ stream'.handle = "open"
        /\ stream'.preexisting = Target.size
    BY <1>7 DEF HandleAfter
  <2>3. Target.size \in 0 .. Len(Target.contents) /\ Len(Target.contents) \in Nat
    BY <1>7, TargetType
  <2>4. HandleInside'
    <3>1. Target.size <= Len(files'[f]) /\ f \in DOMAIN files' /\ f \in masked'
      BY <1>7, <2>1, <2>3
    <3> QED
      BY <2>2, <3>1 DEF HandleInside
  <2>5. HandleGuards'
    BY <1>1, <1>7, <2>2, TargetGuards DEF HandleGuards
  <2>6. stream' \in [valid: BOOLEAN, filename: Nat \cup {FillValue}, nRecords: Nat,
                     preexisting: Nat, handle: Handles]
    BY <1>7, HandleAfterType DEF HandleAfter, Handles
  <2>7. masked' \subseteq DOMAIN files'
    BY <1>7, <2>1 DEF IInv, TypeOK
  <2> QED
    BY <2>1, <2>4, <2>5, <2>6, <2>7
<1>8. Kept
  <2> HIDE DEF Kept
  <2> QED
    BY <1>4, <1>5, <1>6, <1>7 DEF WriteErrorMasked
<1>9. TypeOK'
  <2>1. /\ DOMAIN files' \subseteq {FileOf(t) : t \in Times}
        /\ \A g \in DOMAIN files' : Range(files'[g]) \subseteq Stamps
        /\ DOMAIN found' \subseteq DOMAIN files'
    BY <1>1, <1>8, WrittenFilesType
  <2>2. failures' \in 0 .. MaxFailures
    BY <1>1, BoundsAssumption DEF IInv, TypeOK
  <2> QED
    BY <1>1, <1>8, <2>1, <2>2 DEF IInv, TypeOK, Results
<1> QED
  BY <1>8, <1>9

\* A stream without fields or without a file leaves the disk alone.
LEMMA NoFileInv ==
    ASSUME IInv, WriteNothing \/ WriteToClosed
    PROVE  FilesComplete' /\ HandleInside' /\ HandleGuards' /\ ExistingDataKept' /\ TypeOK'
<1> DEFINE S == [valid: BOOLEAN, filename: Nat \cup {FillValue}, nRecords: Nat,
                 preexisting: Nat, handle: Handles]
<1>1. /\ UNCHANGED <<orderly, mode, period, run, found, now, files, failures, masked>>
      /\ due' = FALSE
  BY DEF WriteNothing, WriteToClosed, configuration
<1>2. FilesComplete' /\ ExistingDataKept'
  BY <1>1, DiskFramed
<1>3. /\ stream' \in S /\ stream'.handle # "open"
      /\ result' \in Results /\ written' \subseteq Times
  <2>1. CASE WriteNothing
    <3>1. /\ stream' = [stream EXCEPT !.nRecords = Target.counter]
          /\ stream.handle = "bare" /\ ~OpensFile
          /\ result' \in {"CLOBBER_REC", "NOERR"} /\ written' \subseteq written \cup {now}
      BY <2>1 DEF WriteNothing
    <3>2. Target.counter \in Nat
      <4> DEFINE n == stream.nRecords + 1
                 size == stream.preexisting
      <4>1. n \in Nat /\ size + 1 \in Nat
        BY DEF IInv, TypeOK
      <4>2. Target.counter = NextRecord(files[FileOf(now)], n, size, now).counter
        BY <3>1 DEF Target
      <4>3. NextRecord(files[FileOf(now)], n, size, now).counter \in {n, size + 1}
        BY DEF NextRecord
      <4> QED
        BY <4>1, <4>2, <4>3
    <3> HIDE DEF S
    <3>3. stream \in S
      BY DEF IInv, TypeOK, S
    <3>4. stream' \in S /\ stream'.handle = "bare"
      BY <3>1, <3>2, <3>3 DEF S
    <3> QED
      BY <3>1, <3>4 DEF IInv, TypeOK, Results
  <2>2. CASE WriteToClosed
    <3>1. /\ stream' = [stream EXCEPT !.filename = FileOf(now)]
          /\ stream.handle = "closed" /\ stream \in S
          /\ result' \in {"ERROR", "MASKED"} /\ written' = written
      BY <2>2 DEF WriteToClosed, CloseFailed, IInv, TypeOK
    <3>2. FileOf(now) \in Nat
      BY FileOfType DEF IInv, TypeOK
    <3> QED
      BY <3>1, <3>2 DEF IInv, TypeOK, Results
  <2> QED
    BY <2>1, <2>2
<1>4. HandleInside' /\ HandleGuards'
  BY <1>3, ClosedHandle DEF HasFile
<1>5. TypeOK'
  BY <1>1, <1>3 DEF IInv, TypeOK, FileOf, Times
<1> QED
  BY <1>2, <1>4, <1>5

\* A new run finds what is on disk, and has no file open.
LEMMA RestartInv ==
    ASSUME IInv, Restart
    PROVE  FilesComplete' /\ HandleInside' /\ HandleGuards' /\ ExistingDataKept' /\ TypeOK'
<1>1. /\ files' = files /\ found' = files /\ stream' = NewStream /\ result' = "NONE"
      /\ run' = run + 1 /\ run < MaxRuns /\ written' = {} /\ UNCHANGED <<failures, masked>>
      /\ orderly' = orderly /\ mode' \in Modes /\ period' \in Periods /\ now' \in 0 .. now
      /\ due' \in BOOLEAN
  BY DEF Restart, IInv, TypeOK
<1>2. HandleInside' /\ HandleGuards'
  BY <1>1, ClosedHandle DEF NewStream, HasFile
<1>3. FilesComplete'
  BY <1>1 DEF IInv, FilesComplete, Range, Stamps, Times
<1>4. ExistingDataKept'
  <2>1. \A f \in DOMAIN files : IsPrefix(files[f], files[f])
    BY PrefixByElement DEF IInv, FilesComplete
  <2> QED
    BY <1>1, <2>1 DEF ExistingDataKept
<1>5. TypeOK'
  <2>1. now' \in Times /\ run' \in 1 .. MaxRuns
    BY <1>1, BoundsAssumption DEF IInv, TypeOK, Times
  <2>2. /\ DOMAIN files' \subseteq {FileOf(t) : t \in Times}
        /\ \A f \in DOMAIN files' : Range(files'[f]) \subseteq Stamps
    BY <1>1 DEF IInv, TypeOK, FileOf, Times, Stamps, Range
  <2> QED
    BY <1>1, <2>1, <2>2 DEF IInv, TypeOK, Results, NewStream, Handles
<1> QED
  BY <1>2, <1>3, <1>4, <1>5

\* Writes, time steps and restarts keep the invariant.
LEMMA NextInv == IInv /\ [Next]_vars => IInv'
<1> SUFFICES ASSUME IInv, [Next]_vars PROVE IInv'
  OBVIOUS
<1>1. CASE WriteRefused
  <2>1. /\ UNCHANGED <<orderly, mode, period, run, found, now, files, failures, written, masked>>
        /\ stream' = [stream EXCEPT !.valid = FALSE, !.filename = FileOf(now), !.nRecords = 1]
        /\ result' = "CLOBBER_FILE" /\ due' = FALSE
    BY <1>1 DEF WriteRefused, configuration
  <2>2. /\ ~stream'.valid
        /\ stream' \in [valid: BOOLEAN, filename: Nat \cup {FillValue}, nRecords: Nat,
                        preexisting: Nat, handle: Handles]
    BY <2>1, FileOfType DEF IInv, TypeOK
  <2>3. HandleInside' /\ HandleGuards'
    BY <2>2, ClosedHandle DEF HasFile
  <2>4. FilesComplete' /\ ExistingDataKept'
    BY <2>1, DiskFramed
  <2>5. TypeOK'
    BY <2>1, <2>2 DEF IInv, TypeOK, Results, FileOf, Times
  <2> QED
    BY <2>3, <2>4, <2>5 DEF IInv
<1>2. CASE Write
  BY <1>2, WriteInv DEF IInv
<1>3. CASE WriteNothing \/ WriteToClosed
  BY <1>3, NoFileInv DEF IInv
<1>4. CASE WriteFails
  BY <1>4, WriteFailsInv DEF IInv
<1>5. CASE WriteErrorMasked
  BY <1>5, WriteErrorMaskedInv DEF IInv
<1>6. CASE Tick
  <2>1. /\ UNCHANGED <<orderly, mode, period, run, found, stream, files, result, failures,
                       written, masked>>
        /\ now' = now + 1 /\ now < MaxTime /\ due' \in BOOLEAN
    BY <1>6 DEF Tick, configuration
  <2>2. now' \in Times
    BY <2>1, BoundsAssumption DEF IInv, TypeOK, Times
  <2>3. TypeOK'
    BY <2>1, <2>2 DEF IInv, TypeOK, FileOf, Times, Stamps, Range
  <2> QED
    BY <2>1, <2>3, Framed DEF IInv
<1>7. CASE Restart
  BY <1>7, RestartInv DEF IInv
<1>8. CASE UNCHANGED vars
  <2>1. UNCHANGED <<orderly, mode, period, now, due, stream, files, result, run, failures,
                    found, written, masked>>
    BY <1>8 DEF vars
  <2>2. TypeOK'
    BY <2>1 DEF IInv, TypeOK, FileOf, Times, Stamps, Range
  <2> QED
    BY <2>1, <2>2, Framed DEF IInv
<1> QED
  BY <1>1, <1>2, <1>3, <1>4, <1>5, <1>6, <1>7, <1>8 DEF Next

-----------------------------------------------------------------------------
(* The records of a stream in order *)

\* A later time never falls into an earlier file.
LEMMA FileOfMonotone ==
    ASSUME NEW a \in Times, NEW b \in Times, a <= b
    PROVE  FileOf(a) <= FileOf(b)
<1>1. \A d \in Nat \ {0}, x \in Nat, y \in Nat : x <= y => x \div d <= y \div d
  BY SMT
<1> QED
  BY <1>1, BoundsAssumption DEF FileOf, Times

\* The times of c are in order.
InOrder(c) == \A i \in 1 .. Len(c), j \in 1 .. Len(c) : i < j => c[i] < c[j]

\* The record of c that the time t belongs at: behind the earlier times, before the
\* later ones, and that of t itself if c has it.
RightRecord(c, record, t) ==
    /\ record \in 1 .. Len(c) + 1
    /\ \A i \in 1 .. Len(c) : /\ i < record <=> c[i] < t
                              /\ i = record => c[i] = t

\* A file all of whose records have their times stays one when none is skipped.
LEMMA PutTime ==
    ASSUME NEW c \in Seq(Times), NEW record \in 1 .. Len(c) + 1, NEW t \in Times
    PROVE  /\ Put(c, record, t) \in Seq(Times) /\ Len(Put(c, record, t)) \in Nat
           /\ \A i \in 1 .. Len(c) : i # record => Put(c, record, t)[i] = c[i]
<1>1. c \in Seq(Stamps) /\ t \in Stamps
  BY DEF Stamps
<1>2. record \in Nat \ {0} /\ record <= Len(c) + 1
  OBVIOUS
<1> DEFINE p == Put(c, record, t)
<1>3. /\ p \in Seq(Stamps) /\ Len(p) \in Nat
      /\ \A i \in 1 .. Len(c) : i # record => p[i] = c[i]
      /\ Range(p) \subseteq Range(c) \cup {t}
  <2>1. p \in Seq(Stamps)
    BY <1>1, <1>2, PutType
  <2>2. Len(p) \in Nat
    BY <1>1, <1>2, PutType
  <2>3. \A i \in 1 .. Len(c) : i # record => p[i] = c[i]
    BY <1>1, <1>2, PutType
  <2>4. Range(p) \subseteq Range(c) \cup {t}
    BY <1>1, <1>2, PutType
  <2> QED
    BY <2>1, <2>2, <2>3, <2>4
<1> HIDE DEF p
<1>4. Range(c) \subseteq Times
  BY DEF Range
<1>5. \A i \in 1 .. Len(p) : p[i] \in Range(p)
  BY <1>3 DEF Range
<1>6. \A i \in 1 .. Len(p) : p[i] \in Times
  BY <1>3, <1>4, <1>5
<1> QED
  BY <1>3, <1>6 DEF p

\* A time put at the record it belongs at leaves the others where they are.
LEMMA PutInOrder ==
    ASSUME NEW c \in Seq(Times), InOrder(c), NEW t \in Times,
           NEW record, RightRecord(c, record, t)
    PROVE  LET p == Put(c, record, t)
           IN  /\ p \in Seq(Times) /\ InOrder(p)
               /\ record <= Len(c) => p = c
               /\ record > Len(c) => Len(p) = record
               /\ Range(p) = Range(c) \cup {t}
               /\ \A i \in 1 .. Len(p) : i <= record <=> p[i] <= t
<1>1. record \in 1 .. Len(c) + 1 /\ Len(c) \in Nat
  BY DEF RightRecord
<1>2. CASE record <= Len(c)
  <2>1. record \in 1 .. Len(c) /\ c[record] = t
    BY <1>1, <1>2 DEF RightRecord
  <2>2. Put(c, record, t) = [i \in 1 .. Len(c) |-> c[i]]
    BY <1>1, <2>1 DEF Put
  <2>3. Put(c, record, t) = c
    BY <2>2
  <2>4. Range(c) = Range(c) \cup {t}
    BY <2>1 DEF Range
  <2>5. \A i \in 1 .. Len(c) : i <= record <=> c[i] <= t
    <3> SUFFICES ASSUME NEW i \in 1 .. Len(c) PROVE i <= record <=> c[i] <= t
      OBVIOUS
    <3>1. c[i] \in Int /\ t \in Int /\ i \in Int /\ record \in Int
      BY <1>1, BoundsAssumption DEF Times
    <3>2. i < record <=> c[i] < t
      BY DEF RightRecord
    <3>3. i > record => c[i] > t
      BY <2>1 DEF InOrder
    <3> QED
      BY <2>1, <3>1, <3>2, <3>3
  <2> QED
    BY <1>1, <1>2, <2>3, <2>4, <2>5
<1>3. CASE record = Len(c) + 1
  <2> DEFINE p == Put(c, record, t)
  <2>1. p \in Seq(Times) /\ Len(p) \in Nat /\ \A i \in 1 .. Len(c) : p[i] = c[i]
    <3>1. \A i \in 1 .. Len(c) : i # record
      BY <1>1, <1>3
    <3>2. /\ p \in Seq(Times) /\ Len(p) \in Nat
          /\ \A i \in 1 .. Len(c) : i # record => p[i] = c[i]
      BY <1>1, PutTime
    <3> HIDE DEF p
    <3> QED
      BY <3>1, <3>2
  <2>2. p = [i \in 1 .. record |->
               CASE i = record -> t [] i # record /\ i <= Len(c) -> c[i] [] OTHER -> FillValue]
    BY <1>1, <1>3 DEF Put
  <2>3. Len(p) = record /\ p[record] = t
    BY <1>1, <2>1, <2>2
  <2>4. \A i \in 1 .. Len(c) : c[i] < t
    BY <1>1, <1>3 DEF RightRecord
  <2> HIDE DEF p
  <2>5. \A i \in 1 .. Len(p) : i = record \/ i \in 1 .. Len(c)
    BY <1>1, <1>3, <2>3
  <2>6. InOrder(p)
    <3> SUFFICES ASSUME NEW i \in 1 .. Len(p), NEW j \in 1 .. Len(p), i < j
                 PROVE  p[i] < p[j]
      BY DEF InOrder
    <3>1. i \in 1 .. Len(c)
      BY <1>1, <1>3, <2>3
    <3>2. CASE j \in 1 .. Len(c)
      BY <2>1, <3>1, <3>2 DEF InOrder
    <3>3. CASE j = record
      BY <2>1, <2>3, <2>4, <3>1, <3>3
    <3> QED
      BY <2>5, <3>2, <3>3
  <2>7. Range(p) = Range(c) \cup {t}
    <3>1. \A i \in 1 .. Len(p) : p[i] \in Range(c) \cup {t}
      BY <2>1, <2>3, <2>5 DEF Range
    <3>2. \A i \in 1 .. Len(c) : i \in 1 .. Len(p) /\ p[i] = c[i]
      BY <1>1, <1>3, <2>1, <2>3
    <3>3. record \in 1 .. Len(p)
      BY <1>1, <2>3
    <3> QED
      BY <2>1, <2>3, <3>1, <3>2, <3>3 DEF Range
  <2>8. \A i \in 1 .. Len(p) : i <= record <=> p[i] <= t
    <3> SUFFICES ASSUME NEW i \in 1 .. Len(p) PROVE i <= record /\ p[i] <= t
      OBVIOUS
    <3>1. p[i] = t \/ p[i] < t
      BY <2>1, <2>3, <2>4, <2>5
    <3> QED
      BY <1>1, <2>1, <2>3, <3>1, BoundsAssumption DEF Times
  <2> QED
    BY <1>1, <1>3, <2>1, <2>3, <2>6, <2>7, <2>8 DEF p
<1> QED
  BY <1>1, <1>2, <1>3

\* Whether the output of the present time is still to be made, and the last time the
\* output of which can have been made.
Pending == due \/ result = "ERROR"
Latest == IF Pending THEN now - 1 ELSE now

OutputTimes == {t \in Times : t % period = 0}
OnDisk(t) == FileOf(t) \in DOMAIN files /\ t \in Range(files[FileOf(t)])

\* The records of a file are in order, and are output times that fall into it.
FilesInOrder ==
    \A f \in DOMAIN files : /\ InOrder(files[f])
                            /\ \A t \in Range(files[f]) : FileOf(t) = f /\ t \in OutputTimes

\* Under the modes that keep the files they open, the disk holds every output up to
\* some time, and all that can have been made.
DiskComplete ==
    MaySeek => \A t \in OutputTimes :
       /\ t <= Latest => OnDisk(t)
       /\ OnDisk(t) => \A u \in OutputTimes : u < t => OnDisk(u)

\* The counter of the open file is at the last output made; an emptied file holds no
\* record behind it.
CounterAtLatest ==
    stream.valid =>
       /\ \A i \in 1 .. Len(files[stream.filename]) :
             i <= stream.nRecords <=> files[stream.filename][i] <= Latest
       /\ ~MaySeek => stream.nRecords = Len(files[stream.filename])

\* What the run has written is on disk, and is not in a file that it may open again.
WrittenKept ==
    /\ \A t \in written : OnDisk(t)
    /\ result # "ERROR" =>
          /\ stream.filename <= FileOf(now)
          /\ \A t \in written : /\ FileOf(t) <= stream.filename
                                /\ FileOf(t) = stream.filename => stream.valid

\* An orderly series passes over no failing write.
NothingMasked == masked = {} /\ (stream.valid => stream.handle = "open")

OrderInv ==
    /\ NothingMasked
    /\ FilesInOrder /\ DiskComplete /\ CounterAtLatest /\ WrittenKept
    /\ due => now % period = 0

\* Every record on disk then has its time.
LEMMA FilesHaveTimes ==
    ASSUME IInv, OrderInv, NEW f \in DOMAIN files
    PROVE  files[f] \in Seq(Times)
<1>1. files[f] \in Seq(Stamps) /\ \A t \in Range(files[f]) : t \in Times
  BY DEF IInv, FilesComplete, OrderInv, FilesInOrder, OutputTimes
<1>2. \A i \in 1 .. Len(files[f]) : files[f][i] \in Times
  BY <1>1 DEF Range
<1> QED
  BY <1>1, <1>2

\* A write of an orderly run that needs no file to be opened has one open.
LEMMA OrderlyHandle ==
    ASSUME IInv, OrderInv
    PROVE  /\ OpensFile <=> ~(stream.valid /\ stream.filename = FileOf(now))
           /\ stream.valid => HasFile
  BY DEF OrderInv, NothingMasked, OpensFile, CloseFailed, HasFile, IInv, TypeOK

\* The record an orderly run writes is the one its time belongs at.
LEMMA TargetRight ==
    ASSUME IInv, OrderInv, MayWrite, Accepted
    PROVE  /\ Target.contents \in Seq(Times) /\ InOrder(Target.contents)
           /\ RightRecord(Target.contents, Target.record, now)
           /\ Target.counter = Target.record
           /\ ~MaySeek => Target.record = Len(Target.contents) + 1
           /\ \/ FileOf(now) \in DOMAIN files /\ Target.contents = files[FileOf(now)]
              \/ /\ Target.contents = <<>> /\ OpensFile
                 /\ MaySeek => FileOf(now) \notin DOMAIN files
<1> DEFINE f == FileOf(now)
           c == Target.contents
<1>1. due /\ result # "ERROR" /\ now \in Times /\ now \in OutputTimes /\ Latest = now - 1
  BY DEF MayWrite, Latest, Pending, OrderInv, OutputTimes, IInv, TypeOK
<1>2. now \in Int /\ \A t \in Times : t \in Int
  BY <1>1, BoundsAssumption DEF Times
<1>3. ASSUME f \in DOMAIN files
      PROVE  /\ files[f] \in Seq(Times) /\ Len(files[f]) \in Nat /\ InOrder(files[f])
             /\ \A i \in 1 .. Len(files[f]) : /\ files[f][i] \in Times
                                              /\ files[f][i] \in Range(files[f])
                                              /\ files[f][i] \in OutputTimes
  <2>1. files[f] \in Seq(Times) /\ InOrder(files[f])
    BY <1>3, FilesHaveTimes DEF OrderInv, FilesInOrder
  <2>2. \A i \in 1 .. Len(files[f]) : files[f][i] \in Times /\ files[f][i] \in Range(files[f])
    BY <2>1 DEF Range
  <2> QED
    BY <1>3, <2>1, <2>2 DEF OrderInv, FilesInOrder
\* A record behind the present time is there only if that time is.
<1>4. ASSUME f \in DOMAIN files, MaySeek, NEW i \in 1 .. Len(files[f]), files[f][i] > now
      PROVE  \E j \in 1 .. Len(files[f]) : files[f][j] = now
  <2>1. files[f][i] \in OutputTimes /\ files[f][i] \in Range(files[f])
    BY <1>3, <1>4
  <2>2. OnDisk(files[f][i])
    BY <1>4, <2>1 DEF OrderInv, FilesInOrder, OnDisk
  <2>3. OnDisk(now)
    BY <1>1, <1>4, <2>1, <2>2 DEF OrderInv, DiskComplete
  <2> QED
    BY <2>3 DEF OnDisk, Range
\* So the record that is found, or the end of the file, is the right one.
<1>5. ASSUME f \in DOMAIN files, NEW r \in 1 .. Len(files[f]), files[f][r] = now
      PROVE  RightRecord(files[f], r, now)
  <2> SUFFICES ASSUME NEW i \in 1 .. Len(files[f])
               PROVE  /\ i < r <=> files[f][i] < now
                      /\ i = r => files[f][i] = now
    BY <1>3, <1>5 DEF RightRecord
  <2>1. InOrder(files[f]) /\ files[f][i] \in Int
    BY <1>2, <1>3, <1>5
  <2>2. i < r => files[f][i] < now
    BY <1>5, <2>1 DEF InOrder
  <2>3. r < i => now < files[f][i]
    BY <1>5, <2>1 DEF InOrder
  <2>4. i \in Int /\ r \in Int
    OBVIOUS
  <2> QED
    BY <1>2, <1>5, <2>1, <2>2, <2>3, <2>4
<1>6. ASSUME f \in DOMAIN files, \A i \in 1 .. Len(files[f]) : files[f][i] < now
      PROVE  RightRecord(files[f], Len(files[f]) + 1, now)
  BY <1>3, <1>6 DEF RightRecord
<1>7. CASE OpensFile
  <2>1. c = Opened(f) /\ Target.record = FirstRecord(c, now) /\ Target.counter = FirstRecord(c, now)
    BY <1>7 DEF Target
  <2>2. CASE f \in DOMAIN files /\ MaySeek
    <3>1. c = files[f]
      BY <2>1, <2>2 DEF Opened, Exists
    <3> DEFINE place == SeekStream(files[f], Len(files[f]), now)
    <3>2. /\ place \in 0 .. Len(files[f])
          /\ place # 0 => files[f][place] = now
          /\ place = 0 => \A i \in 1 .. Len(files[f]) : files[f][i] # now
      BY <1>3, <2>2, SeekFinds
    <3>3. Target.record = IF place # 0 THEN place ELSE Len(files[f]) + 1
      BY <2>1, <3>1 DEF FirstRecord
    <3> HIDE DEF place
    <3>4. RightRecord(files[f], Target.record, now)
      <4>1. CASE place # 0
        BY <1>3, <1>5, <2>2, <3>2, <3>3, <4>1
      <4>2. CASE place = 0
        <5>1. \A i \in 1 .. Len(files[f]) : files[f][i] < now
          BY <1>2, <1>3, <1>4, <2>2, <3>2, <4>2
        <5> QED
          BY <1>6, <2>2, <3>3, <4>2, <5>1
      <4> QED
        BY <4>1, <4>2
    <3> QED
      BY <1>3, <2>1, <2>2, <3>1, <3>4
  <2>3. CASE ~(f \in DOMAIN files /\ MaySeek)
    <3>1. c = <<>>
      BY <2>1, <2>3 DEF Opened, Exists
    <3>2. SeekStream(c, Len(c), now) = 0 /\ Len(c) = 0
      <4>1. Len(c) = 0
        BY <3>1
      <4>2. SeekStream(c, 0, now) \in 0 .. 0
        BY SeekFinds, 0 \in Nat
      <4> QED
        BY <4>1, <4>2
    <3>3. Target.record = 1 /\ Target.counter = 1
      BY <2>1, <3>2 DEF FirstRecord
    <3> QED
      BY <1>7, <2>3, <3>1, <3>2, <3>3 DEF RightRecord, InOrder
  <2> QED
    BY <2>2, <2>3
<1>8. CASE ~OpensFile
  <2> DEFINE n == stream.nRecords + 1
             size == stream.preexisting
             next == NextRecord(files[f], n, size, now)
             record == SeekStream(files[f], size, now)
  <2>1. /\ c = files[f] /\ Target.record = next.record /\ Target.counter = next.counter
    BY <1>8 DEF Target
  <2>2. /\ f \in DOMAIN files /\ size \in 0 .. Len(files[f]) /\ n \in 1 .. Len(files[f]) + 1
        /\ stream.valid /\ stream.filename = f
    <3>1. stream.valid /\ HasFile /\ stream.filename = f
      BY <1>8, OrderlyHandle
    <3>2. /\ f \in DOMAIN files /\ stream.nRecords <= Len(files[f])
          /\ stream.preexisting <= Len(files[f])
      BY <3>1 DEF IInv, HandleInside, OrderInv, NothingMasked
    <3>3. Len(files[f]) \in Nat /\ stream.nRecords \in Nat /\ stream.preexisting \in Nat
      BY <1>3, <3>2 DEF IInv, TypeOK
    <3> QED
      BY <3>1, <3>2, <3>3
  <2>3. /\ \A i \in 1 .. Len(files[f]) : i < n <=> files[f][i] < now
        /\ ~MaySeek => n = Len(files[f]) + 1
    <3>1. /\ \A i \in 1 .. Len(files[f]) : i <= stream.nRecords <=> files[f][i] <= now - 1
          /\ ~MaySeek => stream.nRecords = Len(files[f])
      BY <1>1, <2>2 DEF OrderInv, CounterAtLatest
    <3>2. \A i \in 1 .. Len(files[f]) : files[f][i] \in Int
      BY <1>2, <1>3, <2>2
    <3>3. stream.nRecords \in Nat /\ Len(files[f]) \in Nat
      BY <1>3, <2>2 DEF IInv, TypeOK
    <3>4. ASSUME NEW i \in 1 .. Len(files[f]) PROVE i < n <=> files[f][i] < now
      <4>1. /\ i <= stream.nRecords <=> files[f][i] <= now - 1
            /\ files[f][i] \in Int /\ i \in Int
        BY <3>1, <3>2
      <4> QED
        BY <1>2, <3>3, <4>1
    <3> QED
      BY <3>1, <3>3, <3>4
  <2>4. /\ record \in 0 .. size
        /\ record # 0 => files[f][record] = now
        /\ record = 0 => \A i \in 1 .. size : files[f][i] # now
    BY <2>2, SeekFinds
  <2>5. \/ /\ MaySeek /\ record # 0 /\ n < size /\ next.record = record /\ next.counter = n
        \/ /\ MaySeek /\ record = 0 /\ n < size
        \/ /\ next.record = n /\ next.counter = n
    BY DEF NextRecord
  <2> HIDE DEF n, size, next, record
  <2>6. n \in Nat /\ size \in Nat /\ Len(files[f]) \in Nat /\ InOrder(files[f])
    BY <1>3, <2>2
  <2>7. ASSUME MaySeek, n <= Len(files[f]) PROVE files[f][n] = now
    <3>1. n \in 1 .. Len(files[f]) /\ files[f][n] \in Int /\ ~(files[f][n] < now)
      BY <1>2, <1>3, <2>2, <2>3, <2>6, <2>7
    <3>2. CASE files[f][n] > now
      <4>1. PICK j \in 1 .. Len(files[f]) : files[f][j] = now
        BY <1>4, <2>2, <2>7, <3>1, <3>2
      <4>2. j < n
        <5>1. n < j => files[f][n] < files[f][j]
          BY <2>6, <3>1 DEF InOrder
        <5> QED
          BY <1>2, <2>6, <3>1, <3>2, <4>1, <5>1
      <4> QED
        BY <1>2, <2>3, <4>1, <4>2
    <3> QED
      BY <1>2, <3>1, <3>2
  <2>8. next.record = n /\ next.counter = n
    <3>1. ASSUME MaySeek, n < size
          PROVE  record = n
      <4>1. n \in 1 .. Len(files[f]) /\ n \in 1 .. size /\ files[f][n] = now
        BY <2>2, <2>6, <2>7, <3>1
      <4>2. record \in 1 .. size /\ record \in 1 .. Len(files[f]) /\ files[f][record] = now
        BY <2>2, <2>4, <2>6, <4>1
      <4>3. /\ n < record => files[f][n] < files[f][record]
            /\ record < n => files[f][record] < files[f][n]
        BY <2>6, <4>1, <4>2 DEF InOrder
      <4> QED
        BY <1>2, <2>6, <4>1, <4>2, <4>3
    <3> QED
      BY <2>2, <2>5, <3>1
  <2>9. RightRecord(files[f], n, now)
    <3>1. CASE n <= Len(files[f])
      <4>1. MaySeek
        BY <2>3, <2>6, <3>1
      <4>2. files[f][n] = now
        BY <2>7, <3>1, <4>1
      <4> QED
        BY <1>5, <2>2, <3>1, <4>2
    <3>2. CASE n = Len(files[f]) + 1
      <4>1. \A i \in 1 .. Len(files[f]) : files[f][i] < now
        BY <2>3, <2>6, <3>2
      <4> QED
        BY <1>6, <2>2, <3>2, <4>1
    <3> QED
      BY <2>2, <2>6, <3>1, <3>2
  <2>10. files[f] \in Seq(Times)
    BY <1>3, <2>2
  <2> QED
    BY <2>1, <2>2, <2>3, <2>6, <2>8, <2>9, <2>10
<1> QED
  BY <1>7, <1>8

\* Whatever a write leaves of the file it opened, in order and with the time it wrote.
LEMMA StoredInOrder ==
    ASSUME IInv, OrderInv, MayWrite, Accepted, UNCHANGED <<now, period, mode>>,
           NEW c, c = Target.contents \/ c = Put(Target.contents, Target.record, now),
           files' = Stored(FileOf(now), c)
    PROVE  /\ FilesInOrder'
           /\ \A t \in written : OnDisk(t)'
           /\ MaySeek => \A t \in OutputTimes : /\ OnDisk(t) => OnDisk(t)'
                                                /\ OnDisk(t)' => OnDisk(t) \/ t = now
           /\ c = Put(Target.contents, Target.record, now) =>
                 /\ OnDisk(now)'
                 /\ c \in Seq(Times)
                 /\ \A i \in 1 .. Len(c) : i <= Target.record <=> c[i] <= now
                 /\ ~MaySeek => Len(c) = Target.record
<1> DEFINE f == FileOf(now)
           old == Target.contents
           p == Put(old, Target.record, now)
<1>1. /\ old \in Seq(Times) /\ InOrder(old) /\ RightRecord(old, Target.record, now)
      /\ now \in Times /\ now \in OutputTimes
      /\ ~MaySeek => Target.record = Len(old) + 1
  BY TargetRight DEF MayWrite, OrderInv, OutputTimes, IInv, TypeOK
<1>2. /\ p \in Seq(Times) /\ InOrder(p) /\ Range(p) = Range(old) \cup {now}
      /\ Target.record > Len(old) => Len(p) = Target.record
      /\ \A i \in 1 .. Len(p) : i <= Target.record <=> p[i] <= now
  BY <1>1, PutInOrder
<1> HIDE DEF p
<1>3. /\ c \in Seq(Times) /\ InOrder(c)
      /\ Range(old) \subseteq Range(c) /\ Range(c) \subseteq Range(old) \cup {now}
      /\ c = p => now \in Range(c)
  BY <1>1, <1>2 DEF p
<1>4. /\ DOMAIN files' = DOMAIN files \cup {f} /\ files'[f] = c
      /\ \A g \in DOMAIN files \ {f} : files'[g] = files[g]
  BY DEF Stored
<1>5. \/ f \in DOMAIN files /\ old = files[f]
      \/ old = <<>> /\ OpensFile /\ (MaySeek => f \notin DOMAIN files)
  BY TargetRight
<1>6. \A t \in Range(old) : FileOf(t) = f /\ t \in OutputTimes
  <2>1. CASE f \in DOMAIN files /\ old = files[f]
    BY <2>1 DEF OrderInv, FilesInOrder
  <2>2. CASE old = <<>>
    BY <2>2 DEF Range
  <2> QED
    BY <1>5, <2>1, <2>2
<1>7. OutputTimes' = OutputTimes /\ \A t : FileOf(t)' = FileOf(t)
  BY DEF OutputTimes, FileOf, Times
<1>8. FilesInOrder'
  <2>1. \A t \in Range(c) : FileOf(t) = f /\ t \in OutputTimes
    BY <1>1, <1>3, <1>6
  <2>2. ASSUME NEW g \in DOMAIN files'
        PROVE  /\ InOrder(files'[g])
               /\ \A t \in Range(files'[g]) : FileOf(t) = g /\ t \in OutputTimes
    <3>1. CASE g = f
      BY <1>3, <1>4, <2>1, <3>1
    <3>2. CASE g # f
      BY <1>4, <2>2, <3>2 DEF OrderInv, FilesInOrder
    <3> QED
      BY <3>1, <3>2
  <2> QED
    BY <1>7, <2>2 DEF FilesInOrder, InOrder
\* What is on disk afterwards.
<1>9. ASSUME NEW t
      PROVE  OnDisk(t)' <=> IF FileOf(t) = f THEN t \in Range(c) ELSE OnDisk(t)
  BY <1>4, <1>7 DEF OnDisk, Range
<1>10. ASSUME NEW t \in written PROVE OnDisk(t)'
  <2>1. OnDisk(t)
    BY <1>10 DEF OrderInv, WrittenKept
  <2>2. CASE FileOf(t) # f
    BY <1>9, <2>1, <2>2
  <2>3. CASE FileOf(t) = f
    <3>1. stream.filename <= f /\ f <= stream.filename /\ (f = stream.filename => stream.valid)
      BY <1>10, <2>3 DEF OrderInv, WrittenKept, MayWrite
    <3>2. stream.filename \in Int /\ f \in Int
      BY <1>1, FileOfType DEF IInv, TypeOK, FillValue
    <3>3. ~OpensFile
      BY <3>1, <3>2, OrderlyHandle
    <3>4. t \in Range(old)
      BY <1>5, <2>1, <2>3, <3>3 DEF OnDisk
    <3> QED
      BY <1>3, <1>9, <2>3, <3>4
  <2> QED
    BY <2>2, <2>3
<1>11. ASSUME MaySeek, NEW t
       PROVE  /\ OnDisk(t) => OnDisk(t)'
              /\ OnDisk(t)' => OnDisk(t) \/ t = now
  <2>1. CASE FileOf(t) # f
    BY <1>9, <2>1
  <2>2. CASE FileOf(t) = f
    <3>1. OnDisk(t) => t \in Range(old)
      BY <1>5, <1>11, <2>2 DEF OnDisk
    <3>2. t \in Range(old) => OnDisk(t)
      <4>1. CASE f \in DOMAIN files /\ old = files[f]
        BY <2>2, <4>1 DEF OnDisk
      <4>2. CASE old = <<>>
        BY <4>2 DEF Range
      <4> QED
        BY <1>5, <4>1, <4>2
    <3> QED
      BY <1>3, <1>9, <2>2, <3>1, <3>2
  <2> QED
    BY <2>1, <2>2
<1>12. c = p => OnDisk(now)'
  BY <1>3, <1>4 DEF OnDisk, FileOf, Range
<1>13. ~MaySeek => Len(p) = Target.record
  <2>1. Len(old) \in Nat
    BY <1>1
  <2> QED
    BY <1>1, <1>2, <2>1
<1> QED
  BY <1>2, <1>8, <1>10, <1>11, <1>12, <1>13 DEF p

\* The disk stays complete when the output of the present time is the only one made.
LEMMA DiskStaysComplete ==
    ASSUME IInv, OrderInv, MayWrite, MaySeek, UNCHANGED <<now, period, mode>>,
           \A t \in OutputTimes : /\ OnDisk(t) => OnDisk(t)'
                                  /\ OnDisk(t)' => OnDisk(t) \/ t = now,
           Latest' = now - 1 \/ (Latest' = now /\ OnDisk(now)')
    PROVE  DiskComplete'
<1>1. now \in Times /\ Latest = now - 1 /\ OutputTimes' = OutputTimes
  BY DEF IInv, TypeOK, MayWrite, Latest, Pending, OutputTimes, Times
<1>2. now \in Int /\ \A t \in OutputTimes : t \in Int
  BY <1>1, BoundsAssumption DEF OutputTimes, Times
<1>3. \A t \in OutputTimes :
         /\ t <= now - 1 => OnDisk(t)
         /\ OnDisk(t) => \A u \in OutputTimes : u < t => OnDisk(u)
  BY <1>1 DEF OrderInv, DiskComplete
<1>4. ASSUME NEW t \in OutputTimes, t <= Latest' PROVE OnDisk(t)'
  <2>1. t <= now - 1 \/ (t = now /\ OnDisk(now)')
    BY <1>2, <1>4
  <2> QED
    BY <1>3, <1>4, <2>1
<1>5. ASSUME NEW t \in OutputTimes, OnDisk(t)', NEW u \in OutputTimes, u < t PROVE OnDisk(u)'
  <2>1. OnDisk(t) \/ u <= now - 1
    BY <1>2, <1>5
  <2> QED
    BY <1>3, <1>5, <2>1
<1> QED
  BY <1>1, <1>4, <1>5 DEF DiskComplete

\* The record the time belongs at is never one that may not be written: if the file
\* holds that time already, writing it again changes nothing.
LEMMA RefusedIsThere ==
    ASSUME IInv, OrderInv, MayWrite, Accepted,
           WouldClobber(Target.record, Target.size)
    PROVE  Target.contents = Put(Target.contents, Target.record, now)
<1>1. /\ Target.contents \in Seq(Times) /\ InOrder(Target.contents)
      /\ RightRecord(Target.contents, Target.record, now) /\ now \in Times
  BY TargetRight DEF IInv, TypeOK
<1>2. Target.record <= Len(Target.contents)
  <2>1. /\ Target.record \in Nat /\ Len(Target.contents) \in Nat
        /\ Target.size \in 0 .. Len(Target.contents)
    BY TargetType
  <2> QED
    BY <2>1 DEF WouldClobber
<1> QED
  BY <1>1, <1>2, PutInOrder

\* A write keeps the order.
LEMMA WriteInOrder ==
    ASSUME IInv, OrderInv, Write
    PROVE  OrderInv'
<1> DEFINE f == FileOf(now)
           p == Put(Target.contents, Target.record, now)
<1>1. /\ MayWrite /\ Accepted
      /\ UNCHANGED <<orderly, mode, period, run, found, now>> /\ due' = FALSE
      /\ result' # "ERROR"
      /\ stream'.valid /\ stream'.filename = f /\ stream'.nRecords = Target.counter
      /\ stream'.handle = "open" /\ masked' \subseteq masked
      /\ written' \subseteq written \cup {now}
  BY DEF Write, HandleAfter, configuration
<1>2. files' = Stored(f, p)
  <2>1. \/ WouldClobber(Target.record, Target.size) /\ files' = Stored(f, Target.contents)
        \/ files' = Stored(f, p)
    BY DEF Write
  <2> QED
    BY <1>1, <2>1, RefusedIsThere
<1>3. /\ FilesInOrder'
      /\ \A t \in written : OnDisk(t)'
      /\ MaySeek => \A t \in OutputTimes : /\ OnDisk(t) => OnDisk(t)'
                                           /\ OnDisk(t)' => OnDisk(t) \/ t = now
      /\ OnDisk(now)'
      /\ p \in Seq(Times)
      /\ \A i \in 1 .. Len(p) : i <= Target.record <=> p[i] <= now
      /\ ~MaySeek => Len(p) = Target.record
  BY <1>1, <1>2, StoredInOrder
<1>4. Latest' = now /\ Target.counter = Target.record
  BY <1>1, TargetRight DEF Latest, Pending
<1>5. DiskComplete'
  <2>1. ~MaySeek => DiskComplete'
    BY <1>1 DEF DiskComplete, MaySeek
  <2> QED
    BY <1>1, <1>3, <1>4, <2>1, DiskStaysComplete
<1>6. CounterAtLatest'
  <2>1. files'[f] = p
    BY <1>2 DEF Stored
  <2>2. MaySeek' = MaySeek
    BY <1>1 DEF MaySeek
  <2> HIDE DEF p, f
  <2> QED
    BY <1>1, <1>3, <1>4, <2>1, <2>2 DEF CounterAtLatest
<1>7. WrittenKept'
  <2>1. \A t \in written' : OnDisk(t)'
    <3>1. \A t \in written : OnDisk(t)'
      BY <1>3
    <3>2. f \in DOMAIN files' /\ now \in Range(files'[f])
      BY <1>1, <1>3 DEF OnDisk, FileOf
    <3>3. ASSUME NEW t, t = now PROVE OnDisk(t)'
      BY <3>2, <3>3 DEF OnDisk, FileOf
    <3> QED
      BY <1>1, <3>1, <3>3
  <2>2. f \in Int /\ stream.filename \in Int
    BY FileOfType DEF IInv, TypeOK, FillValue
  <2>3. \A t \in written' : t = now \/ (t \in written /\ FileOf(t) <= stream.filename)
    BY <1>1 DEF OrderInv, WrittenKept, MayWrite
  <2>4. stream.filename <= f /\ \A t \in written : t \in Times
    BY <1>1 DEF OrderInv, WrittenKept, MayWrite, IInv, TypeOK
  <2>5. \A t \in written' : FileOf(t) <= f
    BY <2>2, <2>3, <2>4, FileOfType
  <2>6. /\ stream'.filename = f /\ stream'.valid /\ FileOf(now)' = f
        /\ \A t : FileOf(t)' = FileOf(t)
    BY <1>1 DEF FileOf
  <2>7. /\ stream'.filename <= FileOf(now)'
        /\ \A t \in written' : /\ FileOf(t)' <= stream'.filename
                               /\ FileOf(t)' = stream'.filename => stream'.valid
    <3> HIDE DEF f
    <3> QED
      BY <2>2, <2>5, <2>6
  <2> QED
    BY <2>1, <2>7 DEF WrittenKept
<1>8. NothingMasked'
  BY <1>1 DEF OrderInv, NothingMasked
<1> QED
  BY <1>1, <1>3, <1>5, <1>6, <1>7, <1>8 DEF OrderInv

\* A write that fails keeps it too.
LEMMA WriteFailsInOrder ==
    ASSUME IInv, OrderInv, orderly, WriteFails
    PROVE  OrderInv'
<1> DEFINE f == FileOf(now)
           p == Put(Target.contents, Target.record, now)
<1>1. /\ MayWrite /\ Accepted
      /\ UNCHANGED <<orderly, mode, period, run, found, now, written, masked>> /\ due' = FALSE
      /\ result' = "ERROR" /\ stream' = NewStream
      /\ \/ files' = files
         \/ files' = Stored(f, Target.contents)
         \/ files' = Stored(f, p)
  BY DEF WriteFails, PartlyWritten, configuration
<1>2. /\ FilesInOrder'
      /\ \A t \in written : OnDisk(t)'
      /\ MaySeek => \A t \in OutputTimes : /\ OnDisk(t) => OnDisk(t)'
                                           /\ OnDisk(t)' => OnDisk(t) \/ t = now
  <2>1. CASE files' = files
    BY <1>1, <2>1 DEF OrderInv, FilesInOrder, WrittenKept, OnDisk, OutputTimes, FileOf, Times
  <2>2. CASE files' # files
    BY <1>1, <2>2, StoredInOrder
  <2> QED
    BY <2>1, <2>2
<1>3. Latest' = now - 1
  BY <1>1 DEF Latest, Pending
<1>4. DiskComplete'
  <2>1. ~MaySeek => DiskComplete'
    BY <1>1 DEF DiskComplete, MaySeek
  <2> QED
    BY <1>1, <1>2, <1>3, <2>1, DiskStaysComplete
<1>5. CounterAtLatest' /\ WrittenKept' /\ NothingMasked'
  BY <1>1, <1>2 DEF CounterAtLatest, WrittenKept, OrderInv, NothingMasked, NewStream
<1> QED
  BY <1>1, <1>2, <1>4, <1>5 DEF OrderInv

\* A run that is started again takes up the series of the last one no later than the
\* first output that may be missing.
LEMMA RestartInOrder ==
    ASSUME IInv, OrderInv, orderly, Restart
    PROVE  OrderInv'
<1>1. /\ mode' = mode /\ period' = period /\ files' = files /\ stream' = NewStream
      /\ result' = "NONE" /\ written' = {} /\ now' \in 0 .. now
      /\ Pending => now' < now \/ now' = 0
      /\ due' \in {now' = 0, now' % period' = 0} /\ masked' = masked
  BY DEF Restart, Pending
<1>2. period \in Nat \ {0} /\ now \in Nat
  BY PeriodsAssumption, BoundsAssumption DEF IInv, TypeOK, Times
<1>3. due' => now' % period' = 0
  <2>1. 0 % period = 0
    BY <1>2, SMT
  <2> QED
    BY <1>1, <2>1
<1>4. Latest' <= Latest /\ Latest' \in Int /\ Latest \in Int
  <2>1. Latest' = IF due' THEN now' - 1 ELSE now'
    BY <1>1 DEF Latest, Pending
  <2>2. now' = 0 => due'
    <3>1. 0 % period = 0
      BY <1>2, SMT
    <3>2. due' = (now' = 0) \/ due' = (now' % period' = 0)
      BY <1>1, Zenon
    <3> SUFFICES ASSUME now' = 0 PROVE due'
      OBVIOUS
    <3>3. now' % period' = 0
      BY <1>1, <3>1
    <3> QED
      BY <3>2, <3>3, Zenon
  <2>3. Latest = IF Pending THEN now - 1 ELSE now
    BY DEF Latest
  <2>4. now' \in Int /\ 0 <= now' /\ now' <= now
    BY <1>1, <1>2
  <2>5. CASE due'
    <3>1. PICK n : n = now'
      OBVIOUS
    <3>2. n \in Int /\ n <= now /\ Latest' = n - 1
      BY <2>1, <2>4, <2>5, <3>1
    <3>3. Latest \in Int /\ Latest >= now - 1
      BY <1>2, <2>3
    <3> QED
      BY <1>2, <3>2, <3>3
  <2>6. CASE ~due'
    <3>1. Latest' = now' /\ (Pending => now' < now)
      BY <1>1, <2>1, <2>2, <2>6
    <3>2. CASE Pending
      BY <1>2, <2>3, <2>4, <3>1, <3>2
    <3>3. CASE ~Pending
      BY <1>2, <2>3, <2>4, <3>1, <3>3
    <3> QED
      BY <3>2, <3>3
  <2> QED
    BY <2>5, <2>6
<1>5. FilesInOrder'
  BY <1>1 DEF OrderInv, FilesInOrder, InOrder, OutputTimes, FileOf, Times
<1>6. DiskComplete'
  <2>1. /\ OutputTimes' = OutputTimes /\ MaySeek' = MaySeek
        /\ \A t : OnDisk(t)' <=> OnDisk(t)
    BY <1>1 DEF OutputTimes, MaySeek, OnDisk, FileOf, Times
  <2>2. \A t \in OutputTimes : t \in Int
    BY BoundsAssumption DEF OutputTimes, Times
  <2>3. \A t \in OutputTimes : t <= Latest' => t <= Latest
    BY <1>4, <2>2
  <2> QED
    BY <2>1, <2>3 DEF OrderInv, DiskComplete
<1>7. CounterAtLatest' /\ WrittenKept'
  <2>1. now' \in Times /\ FileOf(now') \in Nat
    <3>1. now' \in Times
      BY <1>1, <1>2, BoundsAssumption DEF IInv, TypeOK, Times
    <3> QED
      BY <3>1, FileOfType
  <2>2. FileOf(now)' = FileOf(now')
    BY DEF FileOf
  <2> QED
    BY <1>1, <2>1, <2>2 DEF CounterAtLatest, WrittenKept, NewStream, FillValue
<1>8. NothingMasked'
  BY <1>1 DEF OrderInv, NothingMasked, NewStream
<1> QED
  BY <1>3, <1>5, <1>6, <1>7, <1>8 DEF OrderInv

\* A time step makes an output due, or passes a time that is not one.
LEMMA TickInOrder ==
    ASSUME IInv, OrderInv, Tick
    PROVE  OrderInv'
<1>1. /\ UNCHANGED <<orderly, mode, period, run, found, stream, files, result, written, masked>>
      /\ ~due /\ result # "ERROR" /\ now < MaxTime /\ now' = now + 1
      /\ due' = (now' % period = 0)
  BY DEF Tick, configuration
<1>2. now \in Times /\ now' \in Times /\ now \in Nat /\ Latest = now
  BY <1>1, BoundsAssumption DEF IInv, TypeOK, Times, Latest, Pending
<1>3. \A t \in OutputTimes : t \in Int /\ (t <= Latest' <=> t <= Latest)
  <2>1. Latest' = IF now' % period = 0 THEN now ELSE now + 1
    <3>1. Latest' = IF due' THEN now' - 1 ELSE now'
      BY <1>1 DEF Latest, Pending
    <3>2. due' <=> now' % period = 0
      BY <1>1, Zenon
    <3> QED
      BY <1>1, <1>2, <3>1, <3>2
  <2>2. \A t \in OutputTimes : t \in Int /\ t % period = 0
    BY BoundsAssumption DEF OutputTimes, Times
  <2> QED
    BY <1>1, <1>2, <2>1, <2>2
<1>4. /\ OutputTimes' = OutputTimes /\ MaySeek' = MaySeek
      /\ \A t : OnDisk(t)' <=> OnDisk(t)
      /\ \A t : FileOf(t)' = FileOf(t)
  BY <1>1 DEF OutputTimes, MaySeek, OnDisk, FileOf, Times
<1>5. FilesInOrder'
  BY <1>1, <1>4 DEF OrderInv, FilesInOrder, InOrder
<1>6. DiskComplete'
  BY <1>3, <1>4 DEF OrderInv, DiskComplete
<1>7. CounterAtLatest'
  <2>1. ASSUME stream.valid, NEW i \in 1 .. Len(files[stream.filename])
        PROVE  files[stream.filename][i] \in OutputTimes
    <3>1. stream.filename \in DOMAIN files
      BY <2>1, OrderlyHandle DEF IInv, HandleInside
    <3>2. files[stream.filename] \in Seq(Times)
      BY <3>1, FilesHaveTimes
    <3>3. files[stream.filename][i] \in Range(files[stream.filename])
      BY <2>1, <3>2 DEF Range
    <3> QED
      BY <3>1, <3>3 DEF OrderInv, FilesInOrder
  <2> QED
    BY <1>1, <1>3, <1>4, <2>1 DEF OrderInv, CounterAtLatest
<1>8. WrittenKept'
  <2>1. stream.filename \in Int /\ FileOf(now) \in Int /\ FileOf(now') \in Int
        /\ FileOf(now) <= FileOf(now')
    BY <1>1, <1>2, FileOfType, FileOfMonotone DEF IInv, TypeOK, FillValue
  <2>2. stream.filename <= FileOf(now')
    BY <1>1, <2>1 DEF OrderInv, WrittenKept
  <2>3. FileOf(now)' = FileOf(now')
    BY DEF FileOf
  <2> QED
    BY <1>1, <1>4, <2>2, <2>3 DEF OrderInv, WrittenKept
<1>9. NothingMasked'
  BY <1>1 DEF OrderInv, NothingMasked
<1> QED
  BY <1>1, <1>5, <1>6, <1>7, <1>8, <1>9 DEF OrderInv

\* A file that may not be opened is one that the run has not written.
LEMMA RefusedInOrder ==
    ASSUME IInv, OrderInv, WriteRefused
    PROVE  OrderInv'
<1>1. /\ UNCHANGED <<orderly, mode, period, run, found, now, files, written, masked>>
      /\ stream' = [stream EXCEPT !.valid = FALSE, !.filename = FileOf(now), !.nRecords = 1]
      /\ result' = "CLOBBER_FILE" /\ due' = FALSE /\ due /\ result # "ERROR"
      /\ OpensFile /\ mode = "never_modify"
  BY DEF WriteRefused, MayWrite, Refuses, clobberFiles, configuration
<1>2. ~stream'.valid /\ stream'.filename = FileOf(now)
  BY <1>1 DEF IInv, TypeOK
<1>3. /\ OutputTimes' = OutputTimes /\ MaySeek' = MaySeek
      /\ \A t : OnDisk(t)' <=> OnDisk(t)
      /\ \A t : FileOf(t)' = FileOf(t)
  BY <1>1 DEF OutputTimes, MaySeek, OnDisk, FileOf, Times
<1>4. FilesInOrder'
  BY <1>1, <1>3 DEF OrderInv, FilesInOrder, InOrder
<1>5. DiskComplete' /\ CounterAtLatest'
  BY <1>1, <1>2 DEF DiskComplete, CounterAtLatest, MaySeek
<1>6. WrittenKept'
  <2>1. FileOf(now) \in Int /\ stream.filename \in Int
    BY FileOfType DEF IInv, TypeOK, FillValue
  <2>2. ASSUME NEW t \in written
        PROVE  FileOf(t) <= FileOf(now) /\ FileOf(t) # FileOf(now)
    <3>1. FileOf(t) \in Int
      BY FileOfType DEF IInv, TypeOK
    <3>2. /\ stream.filename <= FileOf(now) /\ FileOf(t) <= stream.filename
          /\ FileOf(t) = stream.filename => stream.valid
      BY <1>1 DEF OrderInv, WrittenKept
    <3> QED
      BY <1>1, <2>1, <3>1, <3>2, OrderlyHandle
  <2>3. FileOf(now)' = FileOf(now) /\ written' = written
    BY <1>1 DEF FileOf
  <2> QED
    BY <1>1, <1>2, <1>3, <2>1, <2>2, <2>3 DEF OrderInv, WrittenKept
<1>7. NothingMasked'
  BY <1>1, <1>2 DEF OrderInv, NothingMasked
<1> QED
  BY <1>1, <1>4, <1>5, <1>6, <1>7 DEF OrderInv

\* An orderly series of runs keeps the order.
Ordered == orderly => OrderInv

LEMMA InitOrdered == Init => Ordered
<1> SUFFICES ASSUME Init PROVE OrderInv
  BY DEF Ordered
<1>1. /\ now = 0 /\ due = TRUE /\ stream = NewStream /\ DOMAIN files = {} /\ written = {}
      /\ masked = {} /\ period \in Nat \ {0} /\ 0 \in Times
  BY PeriodsAssumption, BoundsAssumption DEF Init, Times
<1>2. 0 % period = 0
  BY <1>1, SMT
<1>3. FilesInOrder /\ DiskComplete
  <2>1. \A t \in OutputTimes : ~(t <= Latest)
    BY <1>1, BoundsAssumption DEF OutputTimes, Times, Latest, Pending
  <2> QED
    BY <1>1, <2>1 DEF FilesInOrder, DiskComplete, OnDisk
<1>4. CounterAtLatest /\ WrittenKept
  BY <1>1, FileOfType DEF CounterAtLatest, WrittenKept, NewStream, FillValue
<1>5. NothingMasked
  BY <1>1 DEF NothingMasked, NewStream
<1> QED
  BY <1>1, <1>2, <1>3, <1>4, <1>5 DEF OrderInv

LEMMA NextOrdered == IInv /\ Ordered /\ [Next]_vars => Ordered'
<1> SUFFICES ASSUME IInv, OrderInv, orderly, [Next]_vars PROVE OrderInv'
  BY DEF Ordered, Next, vars, WriteRefused, Write, WriteNothing, WriteFails, WriteErrorMasked,
         WriteToClosed, Tick, Restart, configuration
<1>1. CASE WriteRefused
  BY <1>1, RefusedInOrder
<1>2. CASE Write
  BY <1>2, WriteInOrder
<1>3. CASE WriteNothing \/ WriteToClosed
  BY <1>3, OrderlyHandle DEF WriteNothing, WriteToClosed, CloseFailed, HasFile
<1>4. CASE WriteFails
  BY <1>4, WriteFailsInOrder
<1>5. CASE WriteErrorMasked
  BY <1>5 DEF WriteErrorMasked
<1>6. CASE Tick
  BY <1>6, TickInOrder
<1>7. CASE Restart
  BY <1>7, RestartInOrder
<1>8. CASE UNCHANGED vars
  <2>1. UNCHANGED <<orderly, mode, period, now, due, stream, files, result, run, found, written,
                    masked>>
    BY <1>8 DEF vars
  <2> QED
    BY <2>1 DEF OrderInv, FilesInOrder, InOrder, DiskComplete, CounterAtLatest, WrittenKept,
                NothingMasked, Latest, Pending, OutputTimes, OnDisk, MaySeek, FileOf, Times
<1> QED
  BY <1>1, <1>2, <1>3, <1>4, <1>5, <1>6, <1>7, <1>8 DEF Next

-----------------------------------------------------------------------------
(* The theorems *)

\* The node of the stream and the files on disk have their types in every run.
THEOREM TypeCorrect == Spec => []TypeOK
<1>1. IInv => TypeOK
  BY DEF IInv
<1> QED
  BY <1>1, InitInv, NextInv, PTL DEF Spec

\* clobber_mode `never_modify' keeps the files of older runs as they were, `append'
\* keeps their records, also when writes fail and whatever the runs before have done.
THEOREM DataKept == Spec => []ExistingDataKept
<1>1. IInv => ExistingDataKept
  BY DEF IInv
<1> QED
  BY <1>1, InitInv, NextInv, PTL DEF Spec

\* A record is skipped, and the record counter runs ahead of the open file, only where a
\* run went on after a failing write.
THEOREM NothingSkipped == Spec => []NoGaps
<1>1. IInv => NoGaps
  BY DEF IInv, FilesComplete, HandleInside, HasFile, NoGaps
<1> QED
  BY <1>1, InitInv, NextInv, PTL DEF Spec

\* In a series of runs that write a stream at the same interval, each ending at a write
\* that fails and going on where the output was complete, the records of every file are
\* in the order of their times, none twice, under every clobber mode.
THEOREM InTimeOrder == Spec => []RecordsInOrder
<1>1. IInv /\ Ordered => RecordsInOrder
  <2> SUFFICES ASSUME IInv, OrderInv, NEW f \in DOMAIN files,
                      NEW i \in 1 .. Len(files[f]) - 1
               PROVE  files[f][i] < files[f][i + 1]
    BY DEF Ordered, RecordsInOrder
  <2>1. files[f] \in Seq(Times) /\ InOrder(files[f])
    BY FilesHaveTimes DEF OrderInv, FilesInOrder
  <2>2. i \in 1 .. Len(files[f]) /\ i + 1 \in 1 .. Len(files[f]) /\ i < i + 1
    BY <2>1
  <2> QED
    BY <2>1, <2>2 DEF InOrder
<1> QED
  BY <1>1, InitInv, NextInv, InitOrdered, NextOrdered, PTL DEF Spec

\* What such a run has written without an error stays on disk as long as it runs.
THEOREM WrittenStays == Spec => []NothingLost
<1>1. IInv /\ Ordered => NothingLost
  BY DEF Ordered, OrderInv, WrittenKept, OnDisk, NothingLost
<1> QED
  BY <1>1, InitInv, NextInv, InitOrdered, NextOrdered, PTL DEF Spec

-----------------------------------------------------------------------------
(* Lists *)

\* A list has no two items of one name.
ListOf(T) == {q \in Seq(T) : IsInjective(q)}

LEMMA NoItems ==
    ASSUME NEW T
    PROVE  /\ <<>> \in ListOf(T) /\ Range(<<>>) = {}
           /\ \A q \in ListOf(T) : Range(q) = {} => q = <<>>
<1>1. <<>> \in ListOf(T) /\ Range(<<>>) = {}
  BY DEF ListOf, IsInjective, Range
<1>2. ASSUME NEW q \in ListOf(T), q # <<>> PROVE Range(q) # {}
  <2>1. q \in Seq(T) /\ 1 \in DOMAIN q
    BY <1>2 DEF ListOf
  <2> QED
    BY <2>1 DEF Range
<1> QED
  BY <1>1, <1>2

\* A name that is not on the list goes to its end.
LEMMA Inserted ==
    ASSUME NEW T, NEW q \in ListOf(T), NEW x \in T, x \notin Range(q)
    PROVE  /\ ~Duplicate(q, x) /\ Insert(q, x) \in ListOf(T)
           /\ Range(Insert(q, x)) = Range(q) \cup {x} /\ Len(Insert(q, x)) = Len(q) + 1
<1> DEFINE r == Append(q, x)
           n == Len(q)
<1>1. q \in Seq(T) /\ IsInjective(q) /\ n \in Nat /\ DOMAIN q = 1 .. n
  BY DEF ListOf
<1>2. ~Duplicate(q, x)
  <2> SUFFICES ASSUME NEW k \in 1 .. n - 1 PROVE q[k] # x
    BY DEF Duplicate
  <2>1. k \in DOMAIN q
    BY <1>1
  <2> QED
    BY <2>1 DEF Range
<1>3. /\ r \in Seq(T) /\ Len(r) = n + 1 /\ DOMAIN r = 1 .. n + 1
      /\ \A i \in 1 .. n : r[i] = q[i]
      /\ r[n + 1] = x
  BY <1>1
<1> HIDE DEF r, n
<1>4. \A i \in 1 .. n + 1 : (i \in DOMAIN q /\ r[i] = q[i]) \/ (i = n + 1 /\ r[i] = x)
  BY <1>1, <1>3
<1>5. \A i \in DOMAIN q : i \in 1 .. n + 1 /\ r[i] = q[i] /\ q[i] \in Range(q)
  BY <1>1, <1>3 DEF Range
<1>6. IsInjective(r)
  <2> SUFFICES ASSUME NEW i \in 1 .. n + 1, NEW j \in 1 .. n + 1, r[i] = r[j] PROVE i = j
    BY <1>3 DEF IsInjective
  <2> QED
    BY <1>1, <1>4, <1>5 DEF IsInjective
<1>7. Range(r) = Range(q) \cup {x}
  <2>1. n + 1 \in 1 .. n + 1
    BY <1>1
  <2> QED
    BY <1>3, <1>4, <1>5, <2>1 DEF Range
<1>8. Insert(q, x) = r
  BY <1>2 DEF Insert, r
<1> QED
  BY <1>2, <1>3, <1>6, <1>7, <1>8 DEF ListOf, n

\* The item with the name goes off the list.
LEMMA RemovedItem ==
    ASSUME NEW T, NEW q \in ListOf(T), NEW x
    PROVE  /\ Removed(q, x) \in ListOf(T) /\ Range(Removed(q, x)) = Range(q) \ {x}
           /\ IF x \in Range(q) THEN Len(Removed(q, x)) = Len(q) - 1 ELSE Removed(q, x) = q
<1> DEFINE n == Len(q)
<1>1. q \in Seq(T) /\ IsInjective(q) /\ n \in Nat /\ DOMAIN q = 1 .. n
  BY DEF ListOf
<1>2. CASE x \notin Range(q)
  <2>1. \A i \in 1 .. n : q[i] # x
    BY <1>1, <1>2 DEF Range
  <2>2. Removed(q, x) = q
    BY <2>1 DEF Removed, RemoveFirst
  <2> QED
    BY <1>2, <2>2
<1>3. CASE x \in Range(q)
  <2>1. PICK k \in 1 .. n : q[k] = x
    BY <1>1, <1>3 DEF Range
  <2>2. {i \in 1 .. n : q[i] = x} = {k}
    BY <1>1, <2>1 DEF IsInjective
  <2>3. SelectInSeq(q, LAMBDA v : v = x) = k
    <3>1. Min({k}) = k
      BY DEF Min
    <3> QED
      BY <2>2, <3>1 DEF SelectInSeq
  <2> DEFINE front == SubSeq(q, 1, k - 1)
             back == SubSeq(q, k + 1, n)
             r == front \o back
  <2>4. Removed(q, x) = r
    BY <2>1, <2>3 DEF Removed, RemoveFirst, RemoveAt
  <2>5. /\ front \in Seq(T) /\ Len(front) = k - 1
        /\ \A i \in 1 .. k - 1 : front[i] = q[i]
    BY <1>1, <2>1
  <2>6. /\ back \in Seq(T) /\ Len(back) = n - k
        /\ \A i \in 1 .. n - k : back[i] = q[i + k]
    <3>1. \A i \in k + 1 .. n : q[i] \in T
      BY <1>1, <2>1
    <3>2. /\ back \in Seq(T) /\ Len(back) = IF k + 1 <= n THEN n - (k + 1) + 1 ELSE 0
          /\ \A i \in 1 .. n - (k + 1) + 1 : back[i] = q[k + 1 + i - 1]
      BY <1>1, <2>1, <3>1, SubSeqProperties
    <3> HIDE DEF n, back
    <3>3. n - (k + 1) + 1 = n - k /\ (k + 1 > n => n - k = 0)
      BY <1>1, <2>1
    <3>4. \A i \in 1 .. n - k : k + 1 + i - 1 = i + k
      BY <1>1, <2>1
    <3> QED
      BY <1>1, <2>1, <3>2, <3>3, <3>4
  <2> HIDE DEF n, front, back
  <2>7. /\ r \in Seq(T) /\ Len(r) = n - 1 /\ DOMAIN r = 1 .. n - 1
        /\ \A i \in 1 .. n - 1 : r[i] = IF i < k THEN q[i] ELSE q[i + 1]
    <3>1. /\ r \in Seq(T) /\ Len(r) = (k - 1) + (n - k)
          /\ \A i \in 1 .. (k - 1) + (n - k) :
                r[i] = IF i <= k - 1 THEN front[i] ELSE back[i - (k - 1)]
      BY <1>1, <2>1, <2>5, <2>6
    <3> HIDE DEF r
    <3>2. (k - 1) + (n - k) = n - 1
      BY <1>1, <2>1
    <3>3. ASSUME NEW i \in 1 .. n - 1 PROVE r[i] = IF i < k THEN q[i] ELSE q[i + 1]
      <4>1. CASE i < k
        BY <1>1, <2>1, <2>5, <3>1, <3>2, <4>1
      <4>2. CASE ~(i < k)
        <5>1. i - (k - 1) \in 1 .. n - k /\ i - (k - 1) + k = i + 1
          BY <1>1, <2>1, <4>2
        <5> QED
          BY <1>1, <2>1, <2>6, <3>1, <3>2, <4>2, <5>1
      <4> QED
        BY <4>1, <4>2
    <3> QED
      BY <1>1, <2>1, <3>1, <3>2, <3>3
  <2> HIDE DEF r
  <2> DEFINE f(i) == IF i < k THEN i ELSE i + 1
  <2>8. \A i \in 1 .. n - 1 : f(i) \in DOMAIN q /\ r[i] = q[f(i)] /\ f(i) # k
    BY <1>1, <2>1, <2>7
  <2>9. \A i, j \in 1 .. n - 1 : f(i) = f(j) => i = j
    BY <2>1
  <2>10. \A j \in DOMAIN q \ {k} : \E i \in 1 .. n - 1 : f(i) = j
    <3> SUFFICES ASSUME NEW j \in DOMAIN q \ {k} PROVE \E i \in 1 .. n - 1 : f(i) = j
      OBVIOUS
    <3>1. CASE j < k
      BY <1>1, <2>1, <3>1
    <3>2. CASE j > k
      <4>1. j - 1 \in 1 .. n - 1 /\ f(j - 1) = j
        BY <1>1, <2>1, <3>2
      <4> QED
        BY <4>1
    <3> QED
      BY <1>1, <2>1, <3>1, <3>2
  <2> HIDE DEF f
  <2>11. IsInjective(r)
    <3> SUFFICES ASSUME NEW i \in 1 .. n - 1, NEW j \in 1 .. n - 1, r[i] = r[j] PROVE i = j
      BY <2>7 DEF IsInjective
    <3>1. f(i) = f(j)
      BY <1>1, <2>8 DEF IsInjective
    <3> QED
      BY <2>9, <3>1
  <2>12. Range(r) = Range(q) \ {x}
    <3>1. \A i \in 1 .. n - 1 : r[i] \in Range(q) \ {x}
      BY <1>1, <2>1, <2>8 DEF Range, IsInjective
    <3>2. \A j \in DOMAIN q : q[j] # x => j # k
      BY <2>1
    <3> QED
      BY <2>7, <2>8, <2>10, <3>1, <3>2 DEF Range
  <2> QED
    BY <1>3, <2>4, <2>7, <2>11, <2>12 DEF ListOf, n
<1> QED
  BY <1>2, <1>3

-----------------------------------------------------------------------------
(* The invariant *)

Node == [direction : Directions, alarmList : [Ways -> ListOf(AlarmIds)]]

ListsOK ==
    /\ streams \in ListOf(StreamIds) /\ numStreams = Len(streams)
    /\ node \in [Range(streams) -> Node]
    /\ alarms \in [Ways -> ListOf(AlarmIds)]
    /\ DOMAIN streamList = Ways
    /\ \A w \in Ways : streamList[w] \in [Range(alarms[w]) -> ListOf(StreamIds)]

\* The references of the manager's alarms lead to its streams, and a stream has an alarm
\* on its list exactly if the alarm has the stream on its own.
Linked ==
    \A w \in Ways :
       /\ \A a \in Range(alarms[w]) : Range(streamList[w][a]) \subseteq Range(streams)
       /\ \A s \in Range(streams), a \in AlarmIds :
             Has(node[s].alarmList[w], a) <=> Has(alarms[w], a) /\ Has(streamList[w][a], s)

Inv == ListsOK /\ Linked /\ ringing \subseteq ClockAlarms /\ returned \in Codes

\* The state of the relation the lists stand for.
Direction == [s \in Range(streams) |-> node[s].direction]
Kept == {k \in AlarmIds \X Ways : Has(alarms[k[2]], k[1]) /\ streamList[k[2]][k[1]] = <<>>}

\* The links are triples and the kept alarms pairs, in the present state and the next.
LinksLaw ==
    /\ \A s, a, w : <<s, a, w>> \in Links <=>
                    /\ s \in Range(streams) /\ a \in AlarmIds /\ w \in Ways
                    /\ Has(node[s].alarmList[w], a)
    /\ \A l \in Links : l = <<l[1], l[2], l[3]>>
    /\ \A a, w : <<a, w>> \in Kept <=> /\ a \in AlarmIds /\ w \in Ways
                                       /\ Has(alarms[w], a) /\ streamList[w][a] = <<>>
    /\ \A k \in Kept : k = <<k[1], k[2]>>

LEMMA LinksMeans == LinksLaw
  BY DEF LinksLaw, Links, Kept

LEMMA LinksMeansNext == LinksLaw'
  BY LinksMeans, PTL

LEMMA SameTriples ==
    ASSUME NEW A, NEW B, \A l \in A : l = <<l[1], l[2], l[3]>>, \A l \in B : l = <<l[1], l[2], l[3]>>,
           \A s, a, w : <<s, a, w>> \in A <=> <<s, a, w>> \in B
    PROVE  A = B
  OBVIOUS

LEMMA SamePairs ==
    ASSUME NEW A, NEW B, \A l \in A : l = <<l[1], l[2]>>, \A l \in B : l = <<l[1], l[2]>>,
           \A a, w : <<a, w>> \in A <=> <<a, w>> \in B
    PROVE  A = B
  OBVIOUS

\* What the invariant says of one stream and of one alarm.
LEMMA NodeOf ==
    ASSUME Inv, NEW s \in Range(streams)
    PROVE  /\ s \in StreamIds /\ node[s] \in Node /\ node[s].direction \in Directions
           /\ \A w \in Ways : /\ node[s].alarmList[w] \in ListOf(AlarmIds)
                              /\ Range(node[s].alarmList[w]) \subseteq AlarmIds
<1>1. streams \in Seq(StreamIds) /\ node[s] \in Node
  BY DEF Inv, ListsOK, ListOf
<1>2. s \in StreamIds
  BY <1>1 DEF Range
<1>3. \A w \in Ways : node[s].alarmList[w] \in ListOf(AlarmIds)
  BY <1>1 DEF Node
<1>4. \A q \in ListOf(AlarmIds) : Range(q) \subseteq AlarmIds
  BY DEF ListOf, Range
<1> QED
  BY <1>1, <1>2, <1>3, <1>4 DEF Node

LEMMA AlarmOf ==
    ASSUME Inv, NEW w \in Ways, NEW a \in Range(alarms[w])
    PROVE  /\ a \in AlarmIds /\ streamList[w][a] \in ListOf(StreamIds)
           /\ Range(streamList[w][a]) \subseteq Range(streams)
<1>1. alarms[w] \in Seq(AlarmIds) /\ streamList[w] \in [Range(alarms[w]) -> ListOf(StreamIds)]
  BY DEF Inv, ListsOK, ListOf
<1>2. a \in AlarmIds
  BY <1>1 DEF Range
<1> QED
  BY <1>1, <1>2 DEF Inv, Linked

LEMMA InvInit == ManagerInit => Inv
<1> SUFFICES ASSUME ManagerInit PROVE Inv
  OBVIOUS
<1>1. /\ streams = <<>> /\ alarms = [w \in Ways |-> <<>>] /\ node = [s \in {} |-> {}]
      /\ streamList = [w \in Ways |-> [a \in {} |-> <<>>]] /\ numStreams = 0
      /\ ringing = {} /\ returned = "NOERR"
  BY DEF ManagerInit
<1>2. streams \in ListOf(StreamIds) /\ Range(streams) = {} /\ Len(streams) = 0
  BY <1>1, NoItems
<1>3. \A w \in Ways : alarms[w] \in ListOf(AlarmIds) /\ Range(alarms[w]) = {}
  BY <1>1, NoItems
<1>4. alarms \in [Ways -> ListOf(AlarmIds)]
  BY <1>1, <1>3
<1>5. \A w \in Ways : streamList[w] \in [Range(alarms[w]) -> ListOf(StreamIds)]
  BY <1>1, <1>3
<1>6. node \in [Range(streams) -> Node]
  BY <1>1, <1>2
<1>7. ListsOK
  BY <1>1, <1>2, <1>4, <1>5, <1>6 DEF ListsOK
<1>8. Linked
  BY <1>2, <1>3 DEF Linked
<1> QED
  BY <1>1, <1>7, <1>8 DEF Inv, Codes

LEMMA InitRefines == ManagerInit => Registry!Init
<1> SUFFICES ASSUME ManagerInit PROVE Registry!Init
  OBVIOUS
<1>1. Range(streams) = {}
  BY NoItems DEF ManagerInit
<1>2. Links = {}
  BY <1>1 DEF Links
<1>3. Kept = {}
  BY NoItems DEF ManagerInit, Kept, Has
<1> QED
  BY <1>1, <1>2, <1>3 DEF ManagerInit, Registry!Init, Kept

\* An operation that leaves the lists alone keeps what they stand for.
LEMMA ListsLeft ==
    ASSUME Inv, UNCHANGED lists, ringing' \subseteq ClockAlarms, returned' \in Codes
    PROVE  Inv' /\ Links' = Links /\ Kept' = Kept /\ Direction' = Direction
<1>1. UNCHANGED <<streams, alarms, node, streamList, numStreams>>
  BY DEF lists
<1>2. ListsOK' /\ Linked'
  BY <1>1 DEF Inv, ListsOK, Linked
<1>3. Links' = Links
  BY <1>1 DEF Links
<1>4. Kept' = Kept
  BY <1>1 DEF Kept
<1>5. Direction' = Direction
  BY <1>1 DEF Direction
<1> QED
  BY <1>2, <1>3, <1>4, <1>5 DEF Inv

LEMMA RefusedStep ==
    ASSUME Inv, Refused
    PROVE  Inv' /\ Registry!Refused
<1>1. UNCHANGED lists /\ ringing' = ringing /\ returned' = "ERROR"
  BY DEF Refused, Returns
<1>2. Inv' /\ Links' = Links /\ Kept' = Kept /\ Direction' = Direction
  BY <1>1, ListsLeft DEF Inv, Codes
<1> QED
  BY <1>1, <1>2 DEF Registry!Refused, Registry!Returns, Kept, Direction

-----------------------------------------------------------------------------
(* Streams *)

\* A new stream listens to no alarm, and no alarm has a stream of that name yet.
LEMMA CreateStep ==
    ASSUME Inv, NEW s \in StreamIds, NEW d \in StreamDirections, CreateStream(s, d)
    PROVE  Inv' /\ Registry!CreateStream(s, d)
<1>1. DOMAIN Direction = Range(streams)
  BY DEF Direction
<1>2. CASE Has(streams, s)
  BY <1>1, <1>2, RefusedStep DEF CreateStream, Has, Registry!CreateStream, Direction
<1>3. CASE ~Has(streams, s)
  <2> DEFINE new == [direction |-> d, alarmList |-> [w \in Ways |-> <<>>]]
  <2>1. /\ node' = [t \in DOMAIN node \cup {s} |-> IF t = s THEN new ELSE node[t]]
        /\ streams' = Insert(streams, s) /\ numStreams' = numStreams + 1
        /\ returned' = "NOERR" /\ UNCHANGED <<alarms, streamList, ringing>>
    BY <1>3 DEF CreateStream, Returns
  <2>2. /\ streams' \in ListOf(StreamIds) /\ Range(streams') = Range(streams) \cup {s}
        /\ Len(streams') = Len(streams) + 1
    BY <1>3, <2>1, Inserted DEF Inv, ListsOK, Has
  <2>3. new \in Node /\ new.direction = d /\ \A w \in Ways : new.alarmList[w] = <<>>
    <3>1. d \in Directions
      BY StreamDirectionsAssumption DEF Directions, Ways
    <3>2. [w \in Ways |-> <<>>] \in [Ways -> ListOf(AlarmIds)]
      BY NoItems
    <3> QED
      BY <3>1, <3>2 DEF Node
  <2> HIDE DEF new
  <2>4. /\ DOMAIN node = Range(streams)
        /\ node' \in [Range(streams') -> Node] /\ node'[s] = new
        /\ \A t \in Range(streams) : t # s /\ node'[t] = node[t]
    <3>1. node \in [Range(streams) -> Node]
      BY DEF Inv, ListsOK
    <3> QED
      BY <1>3, <2>1, <2>2, <2>3, <3>1 DEF Has
  <2>5. ListsOK'
    BY <2>1, <2>2, <2>4 DEF Inv, ListsOK
  <2>6. \A a : ~Has(<<>>, a)
    BY NoItems DEF Has
  <2>7. \A w \in Ways : \A a \in Range(alarms[w]) : ~Has(streamList[w][a], s)
    <3> SUFFICES ASSUME NEW w \in Ways, NEW a \in Range(alarms[w]) PROVE ~Has(streamList[w][a], s)
      OBVIOUS
    <3>1. Range(streamList[w][a]) \subseteq Range(streams)
      BY AlarmOf
    <3> QED
      BY <1>3, <3>1 DEF Has
  <2>8. Linked'
    <3> SUFFICES ASSUME NEW w \in Ways
                 PROVE  /\ \A a \in Range(alarms[w]) : Range(streamList[w][a]) \subseteq Range(streams')
                        /\ \A t \in Range(streams'), a \in AlarmIds :
                              Has(node'[t].alarmList[w], a) <=> Has(alarms[w], a) /\ Has(streamList[w][a], t)
      BY <2>1 DEF Linked
    <3>1. \A a \in Range(alarms[w]) : Range(streamList[w][a]) \subseteq Range(streams')
      BY <2>2 DEF Inv, Linked
    <3>2. ASSUME NEW t \in Range(streams'), NEW a \in AlarmIds
          PROVE  Has(node'[t].alarmList[w], a) <=> Has(alarms[w], a) /\ Has(streamList[w][a], t)
      <4>1. CASE t = s
        BY <2>3, <2>4, <2>6, <2>7, <4>1 DEF Has
      <4>2. CASE t # s
        BY <2>2, <2>4, <4>2 DEF Inv, Linked
      <4> QED
        BY <4>1, <4>2
    <3> QED
      BY <3>1, <3>2
  <2>9. Inv'
    BY <2>1, <2>5, <2>8 DEF Inv, Codes
  <2>10. Links' = Links
    <3>1. ASSUME NEW t, NEW a, NEW w PROVE <<t, a, w>> \in Links' <=> <<t, a, w>> \in Links
      <4>1. <<t, a, w>> \in Links' <=> /\ t \in Range(streams') /\ a \in AlarmIds /\ w \in Ways
                                       /\ Has(node'[t].alarmList[w], a)
        BY LinksMeansNext DEF LinksLaw, Has, Ways
      <4>2. CASE t = s
        BY <1>3, <2>3, <2>4, <2>6, <4>1, <4>2, LinksMeans DEF LinksLaw, Has
      <4>3. CASE t # s
        BY <2>2, <2>4, <4>1, <4>3, LinksMeans DEF LinksLaw
      <4> QED
        BY <4>2, <4>3
    <3> QED
      BY <3>1, LinksMeans, LinksMeansNext, SameTriples DEF LinksLaw
  <2>11. Kept' = Kept
    BY <2>1 DEF Kept, Has
  <2>12. Direction' = [t \in DOMAIN Direction \cup {s} |-> IF t = s THEN d ELSE Direction[t]]
    BY <2>2, <2>3, <2>4 DEF Direction
  <2> QED
    BY <1>1, <1>3, <2>1, <2>9, <2>10, <2>11, <2>12
       DEF Has, Registry!CreateStream, Registry!Returns, Direction, Kept
<1> QED
  BY <1>2, <1>3

\* Every alarm of a stream has the stream on its list, so that each is unlinked.
LEMMA AllUnlinked ==
    ASSUME Inv, NEW s \in Range(streams), NEW w \in Ways
    PROVE  Unlinked(s, w) = node[s].alarmList[w]
<1> DEFINE xrefs == node[s].alarmList[w]
<1>1. xrefs \in Seq(AlarmIds)
  BY NodeOf DEF ListOf
<1>2. ASSUME NEW i \in 1 .. Len(xrefs) PROVE Has(streamList[w][xrefs[i]], s)
  <2>1. xrefs[i] \in AlarmIds /\ Has(xrefs, xrefs[i])
    BY <1>1 DEF Has, Range
  <2> QED
    BY <2>1 DEF Inv, Linked
<1>3. {i \in 1 .. Len(xrefs) : ~Has(streamList[w][xrefs[i]], s)} = {}
  BY <1>2
<1>4. SelectInSeq(xrefs, LAMBDA a : ~Has(streamList[w][a], s)) = 0
  BY <1>3 DEF SelectInSeq
<1> QED
  BY <1>4 DEF Unlinked

\* The stream goes off the lists of all alarms, also those it is not on.
LEMMA DestroyStep ==
    ASSUME Inv, NEW s \in StreamIds, DestroyStream(s)
    PROVE  Inv' /\ Registry!DestroyStream(s)
<1>1. DOMAIN Direction = Range(streams)
  BY DEF Direction
<1>2. CASE ~Has(streams, s)
  BY <1>1, <1>2, RefusedStep DEF DestroyStream, Has, Registry!DestroyStream, Direction
<1>3. CASE Has(streams, s)
  <2>1. /\ s \in Range(streams)
        /\ \A w \in Ways : Unlinked(s, w) = node[s].alarmList[w]
    BY <1>3, AllUnlinked DEF Has
  <2>2. /\ streams' = Removed(streams, s) /\ node' = Without(node, s)
        /\ numStreams' = numStreams - 1 /\ returned' = "NOERR" /\ UNCHANGED <<alarms, ringing>>
        /\ streamList' = [w \in Ways |-> [a \in DOMAIN streamList[w] |->
                             IF a \in Range(node[s].alarmList[w]) THEN Removed(streamList[w][a], s)
                             ELSE streamList[w][a]]]
    BY <1>3, <2>1 DEF DestroyStream, Returns, Ways
  <2>3. /\ streams' \in ListOf(StreamIds) /\ Range(streams') = Range(streams) \ {s}
        /\ Len(streams') = Len(streams) - 1
    BY <2>1, <2>2, RemovedItem DEF Inv, ListsOK
  <2>4. /\ node' \in [Range(streams') -> Node]
        /\ \A t \in Range(streams') : t # s /\ t \in Range(streams) /\ node'[t] = node[t]
    <3>1. node \in [Range(streams) -> Node]
      BY DEF Inv, ListsOK
    <3> QED
      BY <2>2, <2>3, <3>1 DEF Without
  <2>5. ASSUME NEW w \in Ways, NEW a \in Range(alarms[w])
        PROVE  /\ streamList'[w][a] \in ListOf(StreamIds)
               /\ Range(streamList'[w][a]) = Range(streamList[w][a]) \ {s}
    <3>1. /\ a \in AlarmIds /\ streamList[w][a] \in ListOf(StreamIds)
          /\ a \in DOMAIN streamList[w]
      BY <2>5, AlarmOf DEF Inv, ListsOK
    <3>2. Has(node[s].alarmList[w], a) <=> Has(streamList[w][a], s)
      BY <2>1, <2>5, <3>1 DEF Inv, Linked, Has
    <3>3. streamList'[w][a] = IF Has(streamList[w][a], s) THEN Removed(streamList[w][a], s)
                              ELSE streamList[w][a]
      BY <2>2, <3>1, <3>2 DEF Has
    <3> QED
      BY <3>1, <3>3, RemovedItem DEF Has
  <2>6. DOMAIN streamList' = Ways
        /\ \A w \in Ways : streamList'[w] \in [Range(alarms[w]) -> ListOf(StreamIds)]
    <3>1. DOMAIN streamList' = Ways
      BY <2>2
    <3>2. ASSUME NEW w \in Ways PROVE streamList'[w] \in [Range(alarms[w]) -> ListOf(StreamIds)]
      <4>1. streamList[w] \in [Range(alarms[w]) -> ListOf(StreamIds)]
        BY DEF Inv, ListsOK
      <4>2. \A a \in Range(alarms[w]) : streamList'[w][a] \in ListOf(StreamIds)
        BY <2>5
      <4>3. streamList'[w] = [a \in Range(alarms[w]) |->
                IF a \in Range(node[s].alarmList[w]) THEN Removed(streamList[w][a], s)
                ELSE streamList[w][a]]
        BY <2>2, <4>1
      <4> QED
        BY <4>2, <4>3
    <3> QED
      BY <3>1, <3>2
  <2>7. ListsOK'
    BY <2>2, <2>3, <2>4, <2>6 DEF Inv, ListsOK, ListOf
  <2>8. Linked'
    <3> SUFFICES ASSUME NEW w \in Ways
                 PROVE  /\ \A a \in Range(alarms[w]) : Range(streamList'[w][a]) \subseteq Range(streams')
                        /\ \A t \in Range(streams'), a \in AlarmIds :
                              Has(node'[t].alarmList[w], a) <=> Has(alarms[w], a) /\ Has(streamList'[w][a], t)
      BY <2>2 DEF Linked, Has
    <3>1. ASSUME NEW a \in Range(alarms[w]) PROVE Range(streamList'[w][a]) \subseteq Range(streams')
      BY <2>3, <2>5, <3>1, AlarmOf
    <3>2. ASSUME NEW t \in Range(streams'), NEW a \in AlarmIds
          PROVE  Has(node'[t].alarmList[w], a) <=> Has(alarms[w], a) /\ Has(streamList'[w][a], t)
      <4>1. Has(node[t].alarmList[w], a) <=> Has(alarms[w], a) /\ Has(streamList[w][a], t)
        BY <2>4, <3>2 DEF Inv, Linked
      <4>2. Has(alarms[w], a) => (Has(streamList'[w][a], t) <=> Has(streamList[w][a], t))
        BY <2>4, <2>5, <3>2 DEF Has
      <4> QED
        BY <2>4, <3>2, <4>1, <4>2
    <3> QED
      BY <3>1, <3>2
  <2>9. Inv'
    BY <2>2, <2>7, <2>8 DEF Inv, Codes
  <2>10. Direction' = [t \in DOMAIN Direction \ {s} |-> Direction[t]]
    BY <1>1, <2>3, <2>4 DEF Direction
  <2>11. Links' = {l \in Links : l[1] # s}
    <3> DEFINE rest == {l \in Links : l[1] # s}
    <3>1. ASSUME NEW t, NEW a, NEW w PROVE <<t, a, w>> \in Links' <=> <<t, a, w>> \in rest
      <4>1. <<t, a, w>> \in Links' <=> /\ t \in Range(streams') /\ a \in AlarmIds /\ w \in Ways
                                       /\ Has(node'[t].alarmList[w], a)
        BY LinksMeansNext DEF LinksLaw, Has, Ways
      <4> QED
        BY <2>3, <2>4, <4>1, LinksMeans DEF LinksLaw
    <3>2. \A l \in rest : l = <<l[1], l[2], l[3]>>
      BY LinksMeans DEF LinksLaw
    <3> HIDE DEF rest
    <3>3. Links' = rest
      BY <3>1, <3>2, LinksMeansNext, SameTriples DEF LinksLaw
    <3> QED
      BY <3>3 DEF rest
  <2>12. Kept' = Kept \cup {<<l[2], l[3]>> : l \in
                {k \in Links : \A j \in Links : j[2] = k[2] /\ j[3] = k[3] => j[1] = s}}
    <3> DEFINE only == {k \in Links : \A j \in Links : j[2] = k[2] /\ j[3] = k[3] => j[1] = s}
               lost == {<<l[2], l[3]>> : l \in only}
    <3>1. ASSUME NEW a, NEW w
          PROVE  <<a, w>> \in lost <=>
                     /\ <<s, a, w>> \in Links
                     /\ \A t : <<t, a, w>> \in Links => t = s
      <4>1. ASSUME <<a, w>> \in lost
            PROVE  <<s, a, w>> \in Links /\ \A t : <<t, a, w>> \in Links => t = s
        <5>1. PICK k \in Links : /\ k[2] = a /\ k[3] = w
                                 /\ \A j \in Links : j[2] = k[2] /\ j[3] = k[3] => j[1] = s
          BY <4>1
        <5>2. k = <<s, a, w>>
          BY <5>1, LinksMeans DEF LinksLaw
        <5> QED
          BY <5>1, <5>2
      <4>2. ASSUME <<s, a, w>> \in Links, \A t : <<t, a, w>> \in Links => t = s
            PROVE  <<a, w>> \in lost
        <5> DEFINE k == <<s, a, w>>
        <5>1. ASSUME NEW j \in Links, j[2] = k[2], j[3] = k[3] PROVE j[1] = s
          <6>1. j = <<j[1], a, w>>
            BY <5>1, LinksMeans DEF LinksLaw
          <6> QED
            BY <4>2, <5>1, <6>1
        <5>2. k \in only
          BY <4>2, <5>1
        <5> QED
          BY <5>2
      <4> QED
        BY <4>1, <4>2
    <3>2. \A l \in lost : l = <<l[1], l[2]>>
      OBVIOUS
    <3> HIDE DEF lost, only
    <3>3. ASSUME NEW a, NEW w PROVE <<a, w>> \in Kept' <=> <<a, w>> \in Kept \cup lost
      <4>1. /\ <<a, w>> \in Kept' <=> /\ a \in AlarmIds /\ w \in Ways
                                      /\ Has(alarms[w], a) /\ streamList'[w][a] = <<>>
            /\ <<a, w>> \in Kept <=> /\ a \in AlarmIds /\ w \in Ways
                                     /\ Has(alarms[w], a) /\ streamList[w][a] = <<>>
        BY <2>2, LinksMeans, LinksMeansNext DEF LinksLaw, Has, Ways
      <4>2. ASSUME NEW t
            PROVE <<t, a, w>> \in Links <=> /\ t \in Range(streams) /\ a \in AlarmIds /\ w \in Ways
                                            /\ Has(alarms[w], a) /\ Has(streamList[w][a], t)
        BY LinksMeans DEF LinksLaw, Inv, Linked
      <4>3. CASE w \in Ways /\ Has(alarms[w], a)
        <5>1. /\ a \in AlarmIds /\ streamList[w][a] \in ListOf(StreamIds)
              /\ Range(streamList[w][a]) \subseteq Range(streams)
          BY <4>3, AlarmOf DEF Has
        <5>2. /\ streamList'[w][a] \in ListOf(StreamIds)
              /\ Range(streamList'[w][a]) = Range(streamList[w][a]) \ {s}
          BY <2>5, <4>3 DEF Has
        <5>3. <<a, w>> \in Kept' <=> Range(streamList[w][a]) \ {s} = {}
          BY <4>1, <4>3, <5>1, <5>2, NoItems
        <5>4. <<a, w>> \in Kept <=> Range(streamList[w][a]) = {}
          BY <4>1, <4>3, <5>1, NoItems
        <5>5. \A t : <<t, a, w>> \in Links <=> t \in Range(streamList[w][a])
          BY <4>2, <4>3, <5>1 DEF Has
        <5> QED
          BY <3>1, <5>3, <5>4, <5>5
      <4>4. CASE ~(w \in Ways /\ Has(alarms[w], a))
        BY <3>1, <4>1, <4>2, <4>4
      <4> QED
        BY <4>3, <4>4
    <3>4. \A k \in Kept \cup lost : k = <<k[1], k[2]>>
      BY <3>2, LinksMeans DEF LinksLaw
    <3>5. Kept' = Kept \cup lost
      BY <3>3, <3>4, LinksMeansNext, SamePairs DEF LinksLaw
    <3> QED
      BY <3>5 DEF lost, only
  <2> QED
    BY <1>1, <2>1, <2>2, <2>9, <2>10, <2>11, <2>12
       DEF Registry!DestroyStream, Registry!Returns, Direction, Kept
<1> QED
  BY <1>2, <1>3

-----------------------------------------------------------------------------
(* Alarms *)

\* The list of the alarm's streams, present or not, has exactly the linked streams.
LEMMA ListOfAlarm ==
    ASSUME Inv, NEW a \in AlarmIds, NEW w \in Ways
    PROVE  /\ StreamsOf(a, w) \in ListOf(StreamIds)
           /\ Range(StreamsOf(a, w)) \subseteq Range(streams)
           /\ \A s \in Range(streams) :
                 s \in Range(StreamsOf(a, w)) <=> Has(node[s].alarmList[w], a)
<1>1. CASE Has(alarms[w], a)
  <2>1. StreamsOf(a, w) = streamList[w][a] /\ a \in Range(alarms[w])
    BY <1>1 DEF StreamsOf, Has
  <2>2. \A s \in Range(streams) : Has(node[s].alarmList[w], a) <=> Has(streamList[w][a], s)
    BY <1>1 DEF Inv, Linked
  <2> QED
    BY <2>1, <2>2, AlarmOf DEF Has
<1>2. CASE ~Has(alarms[w], a)
  <2>1. StreamsOf(a, w) = <<>>
    BY <1>2 DEF StreamsOf
  <2>2. \A s \in Range(streams) : ~Has(node[s].alarmList[w], a)
    BY <1>2 DEF Inv, Linked
  <2> QED
    BY <2>1, <2>2, NoItems
<1> QED
  BY <1>1, <1>2

\* No list refuses the stream or the alarm: what is asked before the first change is
\* enough for all of them.
LEMMA AddStep ==
    ASSUME Inv, NEW s \in StreamIds, NEW a \in AlarmIds, NEW ways \in Directions \ {{}},
           AddAlarm(s, a, ways)
    PROVE  Inv' /\ Registry!AddAlarm(s, a, ways)
<1>1. ways \subseteq Ways /\ DOMAIN Direction = Range(streams)
  BY DEF Directions, Ways, Direction
<1>2. CASE ~MayAddAlarm(s, a, ways)
  <2>1. Inv' /\ Registry!Refused
    BY <1>2, RefusedStep DEF AddAlarm
  <2>2. \/ s \notin DOMAIN Direction \/ a \notin ClockAlarms \/ ~(ways \subseteq Direction[s])
        \/ \E w \in ways : <<s, a, w>> \in Links
    <3> SUFFICES ASSUME s \in Range(streams), a \in ClockAlarms, ways \subseteq node[s].direction
                 PROVE  \E w \in ways : <<s, a, w>> \in Links
      BY <1>1 DEF Direction
    <3>1. PICK w \in ways : Has(node[s].alarmList[w], a)
      BY <1>2 DEF MayAddAlarm, Has
    <3> QED
      BY <1>1, <3>1, LinksMeans DEF LinksLaw
  <2> QED
    BY <2>1, <2>2 DEF Registry!AddAlarm, Direction
<1>3. CASE MayAddAlarm(s, a, ways)
  <2> DEFINE old == node[s].alarmList
             new == [w \in Ways |-> IF w \in ways THEN Insert(old[w], a) ELSE old[w]]
             longer(w) == Insert(StreamsOf(a, w), s)
  <2>1. /\ s \in Range(streams) /\ a \in ClockAlarms /\ ways \subseteq node[s].direction
        /\ \A w \in ways : a \notin Range(old[w])
    BY <1>3 DEF MayAddAlarm, Has
  <2>2. ASSUME NEW w \in ways
        PROVE  /\ ~Duplicate(StreamsOf(a, w), s) /\ longer(w) \in ListOf(StreamIds)
               /\ Range(longer(w)) = Range(StreamsOf(a, w)) \cup {s}
    <3>1. StreamsOf(a, w) \in ListOf(StreamIds) /\ s \notin Range(StreamsOf(a, w))
      BY <1>1, <2>1, <2>2, ListOfAlarm DEF Has
    <3> QED
      BY <3>1, Inserted
  <2>3. /\ alarms' = [w \in Ways |-> IF w \in ways /\ ~Has(alarms[w], a)
                                     THEN Insert(alarms[w], a) ELSE alarms[w]]
        /\ streamList' = [w \in Ways |->
              IF w \notin ways THEN streamList[w]
              ELSE [b \in DOMAIN streamList[w] \cup {a} |->
                       IF b = a THEN longer(w) ELSE streamList[w][b]]]
        /\ node' = [node EXCEPT ![s].alarmList = new]
        /\ returned' = "NOERR" /\ UNCHANGED <<streams, numStreams, ringing>>
    <3> DEFINE refuses(w) == w \in ways /\ Duplicate(StreamsOf(a, w), s)
               visited == IF refuses("input") THEN {"input"} ELSE ways
               linked == {w \in visited : ~refuses(w)}
    <3>1. \A w : ~refuses(w)
      BY <2>2
    <3>2. visited = ways /\ linked = ways
      BY <3>1
    <3>3. /\ alarms' = [w \in Ways |-> IF w \in visited /\ ~Has(alarms[w], a)
                                     THEN Insert(alarms[w], a) ELSE alarms[w]]
          /\ streamList' = [w \in Ways |->
                IF w \notin visited THEN streamList[w]
                ELSE [b \in DOMAIN streamList[w] \cup {a} |->
                         IF b = a THEN longer(w) ELSE streamList[w][b]]]
          /\ node' = [node EXCEPT ![s].alarmList = [w \in Ways |->
                         IF w \in linked THEN Insert(@[w], a) ELSE @[w]]]
          /\ returned' = (IF linked = ways THEN "NOERR" ELSE "ERROR")
          /\ UNCHANGED <<streams, numStreams, ringing>>
      BY <1>3 DEF AddAlarm, Returns
    <3> HIDE DEF refuses, visited, linked
    <3> QED
      BY <3>2, <3>3
  <2> HIDE DEF longer
  <2>4. ASSUME NEW w \in Ways
        PROVE  /\ alarms'[w] \in ListOf(AlarmIds)
               /\ Range(alarms'[w]) = IF w \in ways THEN Range(alarms[w]) \cup {a}
                                      ELSE Range(alarms[w])
    <3>1. alarms[w] \in ListOf(AlarmIds)
      BY DEF Inv, ListsOK
    <3>2. alarms'[w] = IF w \in ways /\ ~Has(alarms[w], a) THEN Insert(alarms[w], a) ELSE alarms[w]
      BY <2>3
    <3>3. CASE w \in ways /\ ~Has(alarms[w], a)
      BY <3>1, <3>2, <3>3, Inserted DEF Has
    <3>4. CASE ~(w \in ways /\ ~Has(alarms[w], a))
      BY <3>1, <3>2, <3>4 DEF Has
    <3> QED
      BY <3>3, <3>4
  <2>5. ASSUME NEW w \in Ways, NEW b
        PROVE  StreamsOf(b, w)' = IF w \in ways /\ b = a THEN longer(w) ELSE StreamsOf(b, w)
    <3>1. StreamsOf(b, w)' = IF b \in Range(alarms'[w]) THEN streamList'[w][b] ELSE <<>>
      BY DEF StreamsOf, Has, Ways
    <3>2. DOMAIN streamList[w] = Range(alarms[w])
      BY DEF Inv, ListsOK
    <3>3. CASE w \in ways
      BY <2>3, <2>4, <3>1, <3>2, <3>3 DEF StreamsOf, Has
    <3>4. CASE w \notin ways
      BY <2>3, <2>4, <3>1, <3>4 DEF StreamsOf, Has
    <3> QED
      BY <3>3, <3>4
  <2>6. \A w \in Ways : /\ new[w] \in ListOf(AlarmIds)
                        /\ Range(new[w]) = IF w \in ways THEN Range(old[w]) \cup {a}
                                           ELSE Range(old[w])
    <3>1. \A w \in Ways : old[w] \in ListOf(AlarmIds)
      BY <2>1, NodeOf
    <3> HIDE DEF old
    <3> SUFFICES ASSUME NEW w \in Ways
                 PROVE /\ new[w] \in ListOf(AlarmIds)
                       /\ Range(new[w]) = IF w \in ways THEN Range(old[w]) \cup {a}
                                          ELSE Range(old[w])
      OBVIOUS
    <3>2. CASE w \in ways
      BY <2>1, <3>1, <3>2, Inserted
    <3>3. CASE w \notin ways
      BY <3>1, <3>3
    <3> QED
      BY <3>2, <3>3
  <2>7. /\ node' \in [Range(streams) -> Node]
        /\ node'[s].alarmList = new /\ node'[s].direction = node[s].direction
        /\ \A t \in Range(streams) : t # s => node'[t] = node[t]
    <3>1. node \in [Range(streams) -> Node]
      BY DEF Inv, ListsOK
    <3>2. new \in [Ways -> ListOf(AlarmIds)]
      BY <2>6
    <3> HIDE DEF new
    <3>3. node' = [t \in Range(streams) |->
                      IF t = s THEN [direction |-> node[s].direction, alarmList |-> new] ELSE node[t]]
      <4>1. node[s] \in Node
        BY <2>1, <3>1
      <4>2. [node[s] EXCEPT !.alarmList = new] = [direction |-> node[s].direction, alarmList |-> new]
        BY <4>1 DEF Node
      <4>3. node' = [t \in Range(streams) |->
                        IF t = s THEN [node[s] EXCEPT !.alarmList = new] ELSE node[t]]
        BY <2>1, <2>3, <3>1
      <4> QED
        BY <4>2, <4>3
    <3> QED
      BY <2>1, <3>1, <3>2, <3>3 DEF Node
  <2> HIDE DEF old, new
  <2>8. ASSUME NEW w \in Ways PROVE streamList'[w] \in [Range(alarms'[w]) -> ListOf(StreamIds)]
    <3>1. streamList[w] \in [Range(alarms[w]) -> ListOf(StreamIds)]
      BY DEF Inv, ListsOK
    <3>2. CASE w \in ways
      <4>1. streamList'[w] = [b \in Range(alarms[w]) \cup {a} |->
                                 IF b = a THEN longer(w) ELSE streamList[w][b]]
        BY <2>3, <3>1, <3>2
      <4> QED
        BY <2>2, <2>4, <3>1, <3>2, <4>1
    <3>3. CASE w \notin ways
      BY <2>3, <2>4, <3>1, <3>3
    <3> QED
      BY <3>2, <3>3
  <2>9. ListsOK'
    <3>1. alarms' \in [Ways -> ListOf(AlarmIds)] /\ DOMAIN streamList' = Ways
      BY <2>3, <2>4
    <3>2. Range(streams') = Range(streams) /\ \A w \in Ways : Range(alarms[w])' = Range(alarms'[w])
      BY <2>3 DEF Ways
    <3> QED
      BY <2>3, <2>7, <2>8, <3>1, <3>2 DEF Inv, ListsOK, ListOf
  <2>10. \A t \in Range(streams), w \in Ways, b \in AlarmIds :
            Has(node'[t].alarmList[w], b) <=>
               Has(node[t].alarmList[w], b) \/ (t = s /\ b = a /\ w \in ways)
    <3> SUFFICES ASSUME NEW t \in Range(streams), NEW w \in Ways, NEW b \in AlarmIds
                 PROVE  Has(node'[t].alarmList[w], b) <=>
                           Has(node[t].alarmList[w], b) \/ (t = s /\ b = a /\ w \in ways)
      OBVIOUS
    <3>1. CASE t = s
      BY <2>6, <2>7, <3>1 DEF Has, old
    <3>2. CASE t # s
      BY <2>7, <3>2
    <3> QED
      BY <3>1, <3>2
  <2>11. \A w \in Ways, b \in AlarmIds :
            /\ Range(StreamsOf(b, w)') \subseteq Range(streams)
            /\ \A t \in Range(streams) : t \in Range(StreamsOf(b, w)') <=> Has(node'[t].alarmList[w], b)
    <3> SUFFICES ASSUME NEW w \in Ways, NEW b \in AlarmIds
                 PROVE  /\ Range(StreamsOf(b, w)') \subseteq Range(streams)
                        /\ \A t \in Range(streams) :
                              t \in Range(StreamsOf(b, w)') <=> Has(node'[t].alarmList[w], b)
      OBVIOUS
    <3>1. /\ Range(StreamsOf(b, w)) \subseteq Range(streams)
          /\ \A t \in Range(streams) : t \in Range(StreamsOf(b, w)) <=> Has(node[t].alarmList[w], b)
      BY ListOfAlarm
    <3>2. CASE w \in ways /\ b = a
      BY <2>1, <2>2, <2>5, <2>10, <3>1, <3>2
    <3>3. CASE ~(w \in ways /\ b = a)
      BY <2>5, <2>10, <3>1, <3>3
    <3> QED
      BY <3>2, <3>3
  <2>12. ASSUME NEW w \in Ways, NEW b
         PROVE  StreamsOf(b, w)' = IF b \in Range(alarms'[w]) THEN streamList'[w][b] ELSE <<>>
    BY DEF StreamsOf, Has, Ways
  <2>13. Linked'
    <3> SUFFICES ASSUME NEW w \in Ways
                 PROVE  /\ \A b \in Range(alarms'[w]) : Range(streamList'[w][b]) \subseteq Range(streams)
                        /\ \A t \in Range(streams), b \in AlarmIds :
                              Has(node'[t].alarmList[w], b) <=> Has(alarms'[w], b) /\ Has(streamList'[w][b], t)
      <4>1. Range(streams)' = Range(streams) /\ \A w2 \in Ways : Range(alarms[w2])' = Range(alarms'[w2])
        BY <2>3 DEF Ways
      <4> QED
        BY <4>1 DEF Linked, Has, Ways
    <3>1. \A b \in Range(alarms'[w]) : b \in AlarmIds
      BY <2>4 DEF ListOf, Range
    <3>2. ASSUME NEW t \in Range(streams), NEW b \in AlarmIds
          PROVE  Has(node'[t].alarmList[w], b) <=> Has(alarms'[w], b) /\ Has(streamList'[w][b], t)
      <4>1. Has(node'[t].alarmList[w], b) <=> t \in Range(StreamsOf(b, w)')
        BY <2>11
      <4>2. t \notin Range(<<>>)
        BY NoItems
      <4> QED
        BY <2>12, <4>1, <4>2 DEF Has
    <3>3. ASSUME NEW b \in Range(alarms'[w]) PROVE Range(streamList'[w][b]) \subseteq Range(streams)
      BY <2>11, <2>12, <3>1, <3>3
    <3> QED
      BY <3>2, <3>3
  <2>14. Inv'
    BY <2>3, <2>9, <2>13 DEF Inv, Codes
  <2>15. Direction' = Direction
    <3>1. \A t \in Range(streams) : node'[t].direction = node[t].direction
      BY <2>7
    <3> QED
      BY <2>3, <3>1 DEF Direction
  <2>16. Links' = Links \cup {<<s, a, w>> : w \in ways}
    <3> DEFINE more == Links \cup {<<s, a, w>> : w \in ways}
    <3>1. \A l \in more : l = <<l[1], l[2], l[3]>>
      BY LinksMeans DEF LinksLaw
    <3>2. ASSUME NEW t, NEW b, NEW w
          PROVE <<t, b, w>> \in more <=> <<t, b, w>> \in Links \/ (t = s /\ b = a /\ w \in ways)
      OBVIOUS
    <3> HIDE DEF more
    <3>3. ASSUME NEW t, NEW b, NEW w PROVE <<t, b, w>> \in Links' <=> <<t, b, w>> \in more
      <4>1. <<t, b, w>> \in Links' <=> /\ t \in Range(streams) /\ b \in AlarmIds /\ w \in Ways
                                       /\ Has(node'[t].alarmList[w], b)
        BY <2>3, LinksMeansNext DEF LinksLaw, Has, Ways
      <4> QED
        BY <1>1, <2>1, <2>10, <3>2, <4>1, LinksMeans DEF LinksLaw
    <3>4. Links' = more
      BY <3>1, <3>3, LinksMeansNext, SameTriples DEF LinksLaw
    <3> QED
      BY <3>4 DEF more
  <2>17. Kept' = {k \in Kept : ~(k[1] = a /\ k[2] \in ways)}
    <3> DEFINE fewer == {k \in Kept : ~(k[1] = a /\ k[2] \in ways)}
    <3>1. \A k \in fewer : k = <<k[1], k[2]>>
      BY LinksMeans DEF LinksLaw
    <3>2. ASSUME NEW b, NEW w
          PROVE  <<b, w>> \in fewer <=> <<b, w>> \in Kept /\ ~(b = a /\ w \in ways)
      OBVIOUS
    <3> HIDE DEF fewer
    <3>3. ASSUME NEW b, NEW w PROVE <<b, w>> \in Kept' <=> <<b, w>> \in fewer
      <4>1. /\ <<b, w>> \in Kept' <=> /\ b \in AlarmIds /\ w \in Ways
                                      /\ b \in Range(alarms'[w]) /\ streamList'[w][b] = <<>>
            /\ <<b, w>> \in Kept <=> /\ b \in AlarmIds /\ w \in Ways
                                     /\ b \in Range(alarms[w]) /\ streamList[w][b] = <<>>
        BY LinksMeans, LinksMeansNext DEF LinksLaw, Has, Ways
      <4>2. CASE b = a /\ w \in ways
        <5>1. streamList'[w][b] = longer(w) /\ longer(w) # <<>>
          <6>1. s \in Range(longer(w)) /\ s \notin Range(<<>>)
            BY <2>2, <4>2, NoItems
          <6> QED
            BY <1>1, <2>3, <4>2, <6>1
        <5> QED
          BY <3>2, <4>1, <4>2, <5>1
      <4>3. CASE ~(b = a /\ w \in ways) /\ w \in Ways
        <5>1. b \in Range(alarms'[w]) <=> b \in Range(alarms[w])
          BY <2>4, <4>3
        <5>2. b \in Range(alarms[w]) => streamList'[w][b] = streamList[w][b]
          <6>1. DOMAIN streamList[w] = Range(alarms[w])
            BY <4>3 DEF Inv, ListsOK
          <6> QED
            BY <2>3, <4>3, <6>1
        <5> QED
          BY <3>2, <4>1, <4>3, <5>1, <5>2
      <4>4. CASE w \notin Ways
        BY <3>2, <4>1, <4>4
      <4> QED
        BY <4>2, <4>3, <4>4
    <3>4. Kept' = fewer
      BY <3>1, <3>3, LinksMeansNext, SamePairs DEF LinksLaw
    <3> QED
      BY <3>4 DEF fewer
  <2>18. s \in DOMAIN Direction /\ ways \subseteq Direction[s] /\ \A w \in ways : <<s, a, w>> \notin Links
    BY <1>1, <2>1, LinksMeans DEF LinksLaw, Direction, Has, old
  <2> QED
    BY <2>1, <2>3, <2>14, <2>15, <2>16, <2>17, <2>18
       DEF Registry!AddAlarm, Registry!Returns, Direction, Kept
<1> QED
  BY <1>2, <1>3

\* The alarm and the stream go off each other's lists, and no alarm is left without
\* streams that had one.
LEMMA RemoveStep ==
    ASSUME Inv, NEW s \in StreamIds, NEW a \in AlarmIds, NEW ways \in Directions \ {{}},
           RemoveAlarm(s, a, ways)
    PROVE  Inv' /\ Registry!RemoveAlarm(s, a, ways)
<1>1. ways \subseteq Ways /\ DOMAIN Direction = Range(streams)
  BY DEF Directions, Ways, Direction
<1>2. CASE ~Has(streams, s) \/ ways = Ways
  <2>1. Inv' /\ Registry!Refused
    BY <1>2, RefusedStep DEF RemoveAlarm
  <2> QED
    BY <1>1, <1>2, <2>1 DEF Registry!RemoveAlarm, Registry!Ways, Ways, Direction, Has
<1>3. CASE ~(~Has(streams, s) \/ ways = Ways)
  <2>1. PICK w \in ways :
           /\ node' = [node EXCEPT ![s].alarmList[w] = Removed(@, a)]
           /\ IF ~Has(node[s].alarmList[w], a)
              THEN Returns("NOT_FOUND") /\ UNCHANGED <<alarms, streamList>>
              ELSE LET rest == Removed(streamList[w][a], s)
                   IN  IF ~Has(streamList[w][a], s)
                       THEN Returns("ERROR") /\ UNCHANGED <<alarms, streamList>>
                       ELSE IF rest # <<>>
                       THEN /\ streamList' = [streamList EXCEPT ![w][a] = rest]
                            /\ Returns("NOERR") /\ UNCHANGED alarms
                       ELSE /\ alarms' = [alarms EXCEPT ![w] = Removed(@, a)]
                            /\ streamList' = [streamList EXCEPT ![w] = Without(@, a)]
                            /\ Returns(IF Has(alarms[w], a) THEN "NOERR" ELSE "NOT_FOUND")
           /\ UNCHANGED <<streams, numStreams, ringing>>
    BY <1>3 DEF RemoveAlarm
  <2>2. ways = {w} /\ w \in Ways /\ s \in Range(streams)
    BY <1>1, <1>3 DEF Directions, Ways, Has
  <2> DEFINE old == node[s].alarmList[w]
             was == streamList[w][a]
             rest == Removed(was, s)
  <2>3. /\ node[s] \in Node /\ old \in ListOf(AlarmIds) /\ node \in [Range(streams) -> Node]
        /\ node[s].alarmList \in [Ways -> ListOf(AlarmIds)]
    BY <2>2, NodeOf DEF Inv, ListsOK, Node
  <2>4. node' = [t \in Range(streams) |->
                    IF t = s THEN [direction |-> node[s].direction,
                                   alarmList |-> [v \in Ways |-> IF v = w THEN Removed(old, a)
                                                                 ELSE node[s].alarmList[v]]]
                    ELSE node[t]]
    <3> DEFINE new == [node[s].alarmList EXCEPT ![w] = Removed(old, a)]
    <3>1. node' = [t \in Range(streams) |-> IF t = s THEN [node[s] EXCEPT !.alarmList = new] ELSE node[t]]
      BY <2>1, <2>2, <2>3
    <3>2. new = [v \in Ways |-> IF v = w THEN Removed(old, a) ELSE node[s].alarmList[v]]
      BY <2>3
    <3> HIDE DEF new
    <3>3. [node[s] EXCEPT !.alarmList = new] = [direction |-> node[s].direction, alarmList |-> new]
      BY <2>3 DEF Node
    <3> QED
      BY <3>1, <3>2, <3>3
  <2>5. /\ Removed(old, a) \in ListOf(AlarmIds) /\ Range(Removed(old, a)) = Range(old) \ {a}
        /\ a \notin Range(old) => Removed(old, a) = old
    BY <2>3, RemovedItem
  <2>6. CASE ~Has(old, a)
    <3>1. node' = node
      <4>1. Removed(old, a) = old
        BY <2>5, <2>6 DEF Has
      <4>2. [v \in Ways |-> IF v = w THEN Removed(old, a) ELSE node[s].alarmList[v]] = node[s].alarmList
        BY <2>3, <4>1
      <4>3. [direction |-> node[s].direction, alarmList |-> node[s].alarmList] = node[s]
        BY <2>3 DEF Node
      <4> QED
        BY <2>3, <2>4, <4>2, <4>3
    <3>2. UNCHANGED lists /\ ringing' = ringing /\ returned' = "NOT_FOUND"
      BY <2>1, <2>6, <3>1 DEF lists, Returns
    <3>3. Inv' /\ Links' = Links /\ Kept' = Kept /\ Direction' = Direction
      BY <3>2, ListsLeft DEF Inv, Codes
    <3>4. Links = {l \in Links : ~(l[1] = s /\ l[2] = a /\ l[3] \in ways)}
      <4>1. ASSUME NEW l \in Links, l[1] = s, l[2] = a, l[3] \in ways PROVE FALSE
        <5>1. <<s, a, w>> \in Links
          BY <2>2, <4>1, LinksMeans DEF LinksLaw
        <5> QED
          BY <2>6, <5>1, LinksMeans DEF LinksLaw
      <4> QED
        BY <4>1
    <3> QED
      BY <1>1, <1>3, <2>2, <3>2, <3>3, <3>4
         DEF Registry!RemoveAlarm, Registry!Returns, Registry!Ways, Ways, Direction, Kept
  <2>7. CASE Has(old, a)
    <3>1. /\ a \in Range(alarms[w]) /\ s \in Range(was) /\ was \in ListOf(StreamIds)
          /\ Range(was) \subseteq Range(streams)
      BY <2>2, <2>7, AlarmOf DEF Inv, Linked, Has
    <3>2. rest \in ListOf(StreamIds) /\ Range(rest) = Range(was) \ {s}
      BY <3>1, RemovedItem
    <3>3. /\ returned' = "NOERR" /\ UNCHANGED <<streams, numStreams, ringing>>
          /\ IF rest # <<>>
             THEN streamList' = [streamList EXCEPT ![w][a] = rest] /\ UNCHANGED alarms
             ELSE /\ alarms' = [alarms EXCEPT ![w] = Removed(@, a)]
                  /\ streamList' = [streamList EXCEPT ![w] = Without(@, a)]
      BY <2>1, <2>7, <3>1 DEF Has, Returns
    <3> HIDE DEF rest, was, old
    <3>4. /\ alarms \in [Ways -> ListOf(AlarmIds)] /\ DOMAIN streamList = Ways
          /\ \A v \in Ways : streamList[v] \in [Range(alarms[v]) -> ListOf(StreamIds)]
      BY DEF Inv, ListsOK
    <3>5. ASSUME NEW v \in Ways
          PROVE  /\ alarms'[v] \in ListOf(AlarmIds)
                 /\ Range(alarms'[v]) = IF v = w /\ rest = <<>> THEN Range(alarms[v]) \ {a}
                                        ELSE Range(alarms[v])
      <4>1. alarms'[v] = IF v = w /\ rest = <<>> THEN Removed(alarms[v], a) ELSE alarms[v]
        BY <3>3, <3>4
      <4>2. alarms[v] \in ListOf(AlarmIds)
        BY <3>4
      <4>3. /\ Removed(alarms[v], a) \in ListOf(AlarmIds)
            /\ Range(Removed(alarms[v], a)) = Range(alarms[v]) \ {a}
        BY <4>2, RemovedItem
      <4> QED
        BY <4>1, <4>2, <4>3
    <3>6. DOMAIN streamList' = Ways /\ alarms' \in [Ways -> ListOf(AlarmIds)]
      <4>1. DOMAIN alarms' = Ways /\ DOMAIN streamList' = Ways
        BY <3>3, <3>4
      <4>2. alarms' = [v \in Ways |-> alarms'[v]]
        BY <3>3, <3>4
      <4> QED
        BY <3>5, <4>1, <4>2
    <3>7. ASSUME NEW v \in Ways
          PROVE  streamList'[v] = [b \in Range(alarms'[v]) |->
                                      IF v = w /\ b = a THEN rest ELSE streamList[v][b]]
      <4>1. CASE v # w
        BY <3>3, <3>4, <3>5, <4>1
      <4>2. CASE v = w /\ rest # <<>>
        <5>1. streamList'[v] = [streamList[w] EXCEPT ![a] = rest]
          BY <2>2, <3>3, <3>4, <4>2
        <5> QED
          BY <2>2, <3>1, <3>4, <3>5, <4>2, <5>1
      <4>3. CASE v = w /\ rest = <<>>
        <5>1. streamList'[v] = Without(streamList[w], a)
          BY <2>2, <3>3, <3>4, <4>3
        <5> QED
          BY <2>2, <3>4, <3>5, <4>3, <5>1 DEF Without
      <4> QED
        BY <4>1, <4>2, <4>3
    <3>8. /\ node' \in [Range(streams) -> Node] /\ node'[s].direction = node[s].direction
          /\ \A t \in Range(streams) : t # s => node'[t] = node[t]
          /\ \A v \in Ways : Range(node'[s].alarmList[v]) =
                IF v = w THEN Range(old) \ {a} ELSE Range(node[s].alarmList[v])
      <4> DEFINE new == [v \in Ways |-> IF v = w THEN Removed(old, a) ELSE node[s].alarmList[v]]
      <4>1. new \in [Ways -> ListOf(AlarmIds)]
        BY <2>3, <2>5
      <4>2. \A v \in Ways : Range(new[v]) = IF v = w THEN Range(old) \ {a} ELSE Range(node[s].alarmList[v])
        BY <2>5
      <4>3. node' = [t \in Range(streams) |->
                        IF t = s THEN [direction |-> node[s].direction, alarmList |-> new] ELSE node[t]]
        BY <2>4 DEF old
      <4> HIDE DEF new
      <4> QED
        BY <2>2, <2>3, <4>1, <4>2, <4>3 DEF Node
    <3>9. ListsOK'
      <4>1. Range(streams') = Range(streams) /\ \A v \in Ways : Range(alarms[v])' = Range(alarms'[v])
        BY <3>3 DEF Ways
      <4>2. \A v \in Ways : streamList'[v] \in [Range(alarms'[v]) -> ListOf(StreamIds)]
        <5> SUFFICES ASSUME NEW v \in Ways PROVE streamList'[v] \in [Range(alarms'[v]) -> ListOf(StreamIds)]
          OBVIOUS
        <5>1. \A b \in Range(alarms'[v]) : streamList[v][b] \in ListOf(StreamIds)
          BY <3>4, <3>5
        <5>2. streamList'[v] = [b \in Range(alarms'[v]) |->
                                   IF v = w /\ b = a THEN rest ELSE streamList[v][b]]
          BY <3>7
        <5> QED
          BY <3>2, <5>1, <5>2
      <4> QED
        BY <3>3, <3>6, <3>8, <4>1, <4>2 DEF Inv, ListsOK, ListOf
    <3>10. \A t \in Range(streams), v \in Ways, b \in AlarmIds :
              Has(node'[t].alarmList[v], b) <=>
                 Has(node[t].alarmList[v], b) /\ ~(t = s /\ b = a /\ v = w)
      <4> SUFFICES ASSUME NEW t \in Range(streams), NEW v \in Ways, NEW b \in AlarmIds
                   PROVE  Has(node'[t].alarmList[v], b) <=>
                             Has(node[t].alarmList[v], b) /\ ~(t = s /\ b = a /\ v = w)
        OBVIOUS
      <4>1. CASE t = s
        BY <3>8, <4>1 DEF Has, old
      <4>2. CASE t # s
        BY <3>8, <4>2
      <4> QED
        BY <4>1, <4>2
    <3>11. Linked'
      <4> SUFFICES ASSUME NEW v \in Ways
                   PROVE  /\ \A b \in Range(alarms'[v]) : Range(streamList'[v][b]) \subseteq Range(streams)
                          /\ \A t \in Range(streams), b \in AlarmIds :
                                Has(node'[t].alarmList[v], b) <=> Has(alarms'[v], b) /\ Has(streamList'[v][b], t)
        <5>1. Range(streams)' = Range(streams) /\ \A x \in Ways : Range(alarms[x])' = Range(alarms'[x])
          BY <3>3 DEF Ways
        <5> QED
          BY <5>1 DEF Linked, Has, Ways
      <4>1. ASSUME NEW b \in Range(alarms'[v]) PROVE Range(streamList'[v][b]) \subseteq Range(streams)
        <5>1. b \in Range(alarms[v])
          BY <3>5, <4>1
        <5>2. streamList'[v][b] = IF v = w /\ b = a THEN rest ELSE streamList[v][b]
          BY <3>7, <4>1
        <5>3. Range(streamList[v][b]) \subseteq Range(streams)
          BY <5>1, AlarmOf
        <5> QED
          BY <3>1, <3>2, <5>2, <5>3
      <4>2. ASSUME NEW t \in Range(streams), NEW b \in AlarmIds
            PROVE  Has(node'[t].alarmList[v], b) <=> Has(alarms'[v], b) /\ Has(streamList'[v][b], t)
        <5>1. Has(node[t].alarmList[v], b) <=> Has(alarms[v], b) /\ Has(streamList[v][b], t)
          BY DEF Inv, Linked
        <5>2. b \in Range(alarms'[v]) =>
                 streamList'[v][b] = IF v = w /\ b = a THEN rest ELSE streamList[v][b]
          BY <3>7
        <5>3. CASE v = w /\ b = a
          <6>1. Has(node'[t].alarmList[v], b) <=> t \in Range(rest)
            BY <3>1, <3>2, <3>10, <5>1, <5>3 DEF Has, was
          <6>2. rest = <<>> => Range(rest) = {}
            BY NoItems
          <6>3. b \in Range(alarms'[v]) <=> rest # <<>>
            BY <3>1, <3>5, <5>3
          <6> QED
            BY <5>2, <5>3, <6>1, <6>2, <6>3 DEF Has
        <5>4. CASE ~(v = w /\ b = a)
          <6>1. b \in Range(alarms'[v]) <=> b \in Range(alarms[v])
            BY <3>5, <5>4
          <6>2. b \in Range(alarms'[v]) => streamList'[v][b] = streamList[v][b]
            BY <5>2, <5>4
          <6>3. Has(node'[t].alarmList[v], b) <=> Has(node[t].alarmList[v], b)
            BY <3>10, <5>4
          <6> QED
            BY <5>1, <6>1, <6>2, <6>3 DEF Has
        <5> QED
          BY <5>3, <5>4
      <4> QED
        BY <4>1, <4>2
    <3>12. Inv'
      BY <3>3, <3>9, <3>11 DEF Inv, Codes
    <3>13. Direction' = Direction
      <4>1. \A t \in Range(streams) : node'[t].direction = node[t].direction
        BY <3>8
      <4> QED
        BY <3>3, <4>1 DEF Direction
    <3>14. Links' = {l \in Links : ~(l[1] = s /\ l[2] = a /\ l[3] \in ways)}
      <4> DEFINE fewer == {l \in Links : ~(l[1] = s /\ l[2] = a /\ l[3] \in ways)}
      <4>1. \A l \in fewer : l = <<l[1], l[2], l[3]>>
        BY LinksMeans DEF LinksLaw
      <4>2. ASSUME NEW t, NEW b, NEW v
            PROVE <<t, b, v>> \in fewer <=> <<t, b, v>> \in Links /\ ~(t = s /\ b = a /\ v = w)
        BY <2>2
      <4> HIDE DEF fewer
      <4>3. ASSUME NEW t, NEW b, NEW v PROVE <<t, b, v>> \in Links' <=> <<t, b, v>> \in fewer
        <5>1. <<t, b, v>> \in Links' <=> /\ t \in Range(streams) /\ b \in AlarmIds /\ v \in Ways
                                         /\ Has(node'[t].alarmList[v], b)
          BY <3>3, LinksMeansNext DEF LinksLaw, Has, Ways
        <5> QED
          BY <3>10, <4>2, <5>1, LinksMeans DEF LinksLaw
      <4>4. Links' = fewer
        BY <4>1, <4>3, LinksMeansNext, SameTriples DEF LinksLaw
      <4> QED
        BY <4>4 DEF fewer
    <3>15. Kept' = Kept
      <4>1. ASSUME NEW b, NEW v PROVE <<b, v>> \in Kept' <=> <<b, v>> \in Kept
        <5>1. /\ <<b, v>> \in Kept' <=> /\ b \in AlarmIds /\ v \in Ways
                                        /\ b \in Range(alarms'[v]) /\ streamList'[v][b] = <<>>
              /\ <<b, v>> \in Kept <=> /\ b \in AlarmIds /\ v \in Ways
                                       /\ b \in Range(alarms[v]) /\ streamList[v][b] = <<>>
          BY LinksMeans, LinksMeansNext DEF LinksLaw, Has, Ways
        <5>2. CASE v = w /\ b = a
          <6>1. was # <<>>
            BY <3>1, NoItems
          <6>2. b \in Range(alarms'[v]) => rest # <<>> /\ streamList'[v][b] = rest
            <7>1. ASSUME b \in Range(alarms'[v]) PROVE rest # <<>>
              BY <2>2, <3>5, <5>2, <7>1
            <7>2. ASSUME b \in Range(alarms'[v]) PROVE streamList'[v][b] = rest
              BY <2>2, <3>7, <5>2, <7>2
            <7> QED
              BY <7>1, <7>2
          <6> QED
            BY <5>1, <5>2, <6>1, <6>2 DEF was
        <5>3. CASE ~(v = w /\ b = a) /\ v \in Ways
          <6>1. b \in Range(alarms'[v]) <=> b \in Range(alarms[v])
            BY <3>5, <5>3
          <6>2. b \in Range(alarms'[v]) => streamList'[v][b] = streamList[v][b]
            BY <3>7, <5>3
          <6> QED
            BY <5>1, <6>1, <6>2
        <5>4. CASE v \notin Ways
          BY <5>1, <5>4
        <5> QED
          BY <5>2, <5>3, <5>4
      <4> QED
        BY <4>1, LinksMeans, LinksMeansNext, SamePairs DEF LinksLaw
    <3>16. Links' # Links
      <4>1. <<s, a, w>> \in Links
        BY <2>2, <2>7, LinksMeans DEF LinksLaw, old
      <4> QED
        BY <2>2, <3>14, <4>1
    <3> QED
      BY <1>1, <1>3, <2>2, <3>3, <3>12, <3>13, <3>14, <3>15, <3>16
         DEF Registry!RemoveAlarm, Registry!Returns, Registry!Ways, Ways, Direction, Kept
  <2> QED
    BY <2>6, <2>7
<1> QED
  BY <1>2, <1>3

-----------------------------------------------------------------------------
(* Ringing *)

\* The alarms on the lists of streams are those the relation gives for them.
LEMMA HeardOf ==
    ASSUME Inv, NEW S, NEW ways \in SUBSET Ways
    PROVE  AlarmsOf(S \cap Range(streams), ways) = Registry!Heard(S, ways)
<1>1. Registry!Heard(S, ways) = {l[2] : l \in {k \in Links : k[1] \in S /\ k[3] \in ways}}
  BY DEF Registry!Heard
<1>2. ASSUME NEW a \in AlarmsOf(S \cap Range(streams), ways) PROVE a \in Registry!Heard(S, ways)
  <2>1. a \in AlarmIds /\ \E s \in S \cap Range(streams) : \E w \in ways : Has(node[s].alarmList[w], a)
    BY <1>2 DEF AlarmsOf
  <2>2. PICK s \in S \cap Range(streams) : \E w \in ways : Has(node[s].alarmList[w], a)
    BY <2>1
  <2>3. PICK w \in ways : Has(node[s].alarmList[w], a)
    BY <2>2
  <2>4. <<s, a, w>> \in Links
    BY <2>1, <2>2, <2>3, LinksMeans DEF LinksLaw
  <2> QED
    BY <1>1, <2>2, <2>3, <2>4
<1>3. ASSUME NEW a \in Registry!Heard(S, ways) PROVE a \in AlarmsOf(S \cap Range(streams), ways)
  <2>1. PICK k \in Links : k[1] \in S /\ k[3] \in ways /\ k[2] = a
    BY <1>1, <1>3
  <2>2. k = <<k[1], a, k[3]>>
    BY <2>1, LinksMeans DEF LinksLaw
  <2>3. k[1] \in Range(streams) /\ a \in AlarmIds /\ Has(node[k[1]].alarmList[k[3]], a)
    BY <2>1, <2>2, LinksMeans DEF LinksLaw
  <2> QED
    BY <2>1, <2>3 DEF AlarmsOf
<1> QED
  BY <1>2, <1>3

\* The alarms on the manager's lists are those of its streams and those it has kept.
LEMMA HeardAll ==
    ASSUME Inv, NEW ways \in SUBSET Ways
    PROVE  AllAlarms(ways) = Registry!HeardByAny(ways)
<1> DEFINE heard == {l[2] : l \in {k \in Links : k[1] \in Range(streams) /\ k[3] \in ways}}
           left == {k[1] : k \in {j \in Kept : j[2] \in ways}}
<1>1. Registry!HeardByAny(ways) = heard \cup left
  <2>1. DOMAIN Direction = Range(streams)
    BY DEF Direction
  <2> QED
    BY <2>1 DEF Registry!HeardByAny, Registry!Heard, Kept, Direction
<1>2. AllAlarms(ways) = {a \in AlarmIds : \E w \in ways : a \in Range(alarms[w])}
  <2>1. \A w \in ways : \A a \in Range(alarms[w]) : a \in AlarmIds
    BY AlarmOf
  <2> QED
    BY <2>1 DEF AllAlarms
<1>3. ASSUME NEW a \in AlarmIds, NEW w \in ways, a \in Range(alarms[w]) PROVE a \in heard \cup left
  <2>1. streamList[w][a] \in ListOf(StreamIds) /\ Range(streamList[w][a]) \subseteq Range(streams)
    BY <1>3, AlarmOf
  <2>2. CASE streamList[w][a] = <<>>
    <3>1. <<a, w>> \in Kept
      BY <1>3, <2>2, LinksMeans DEF LinksLaw, Has
    <3> QED
      BY <3>1
  <2>3. CASE streamList[w][a] # <<>>
    <3>1. PICK s : s \in Range(streamList[w][a])
      BY <2>1, <2>3, NoItems
    <3>2. s \in Range(streams) /\ Has(node[s].alarmList[w], a)
      BY <1>3, <2>1, <3>1 DEF Inv, Linked, Has
    <3>3. <<s, a, w>> \in Links
      BY <3>2, LinksMeans DEF LinksLaw
    <3> QED
      BY <3>2, <3>3
  <2> QED
    BY <2>2, <2>3
<1>4. ASSUME NEW a \in heard PROVE a \in AlarmIds /\ \E w \in ways : a \in Range(alarms[w])
  <2>1. PICK k \in Links : k[1] \in Range(streams) /\ k[3] \in ways /\ k[2] = a
    BY <1>4
  <2>2. k = <<k[1], a, k[3]>>
    BY <2>1, LinksMeans DEF LinksLaw
  <2>3. a \in AlarmIds /\ Has(node[k[1]].alarmList[k[3]], a)
    BY <2>1, <2>2, LinksMeans DEF LinksLaw
  <2> QED
    BY <2>1, <2>3 DEF Inv, Linked, Has
<1>5. ASSUME NEW a \in left PROVE a \in AlarmIds /\ \E w \in ways : a \in Range(alarms[w])
  <2>1. PICK k \in Kept : k[2] \in ways /\ k[1] = a
    BY <1>5
  <2>2. k = <<a, k[2]>>
    BY <2>1, LinksMeans DEF LinksLaw
  <2> QED
    BY <2>1, <2>2, LinksMeans DEF LinksLaw, Has
<1> QED
  BY <1>1, <1>2, <1>3, <1>4, <1>5

\* A pattern silences the alarms of the streams it matches, and no stream's, every alarm.
LEMMA ResetStep ==
    ASSUME Inv, NEW ways \in Directions \ {{}}
    PROVE  /\ \A S \in (SUBSET StreamIds) \ {{}} :
                 ResetAlarms(S, ways) => Inv' /\ Registry!ResetAlarms(S, ways)
           /\ ResetAllAlarms(ways) => Inv' /\ Registry!ResetAllAlarms(ways)
<1>1. ways \in SUBSET Ways /\ DOMAIN Direction = Range(streams)
  BY DEF Directions, Ways, Direction
<1>2. ASSUME NEW gone, ringing' = ringing \ gone, returned' = "NOERR", UNCHANGED lists
      PROVE  Inv' /\ Links' = Links /\ Kept' = Kept /\ Direction' = Direction
  BY <1>2, ListsLeft DEF Inv, Codes
<1>3. ASSUME NEW S \in (SUBSET StreamIds) \ {{}}, ResetAlarms(S, ways)
      PROVE  Inv' /\ Registry!ResetAlarms(S, ways)
  <2>1. CASE S \cap Range(streams) = {}
    <3>1. Inv' /\ Registry!Refused
      BY <1>3, <2>1, RefusedStep DEF ResetAlarms
    <3> QED
      BY <1>1, <2>1, <3>1 DEF Registry!ResetAlarms, Direction
  <2>2. CASE S \cap Range(streams) # {}
    <3>1. /\ ringing' = ringing \ AlarmsOf(S \cap Range(streams), ways)
          /\ returned' = "NOERR" /\ UNCHANGED lists
      BY <1>3, <2>2 DEF ResetAlarms, Returns
    <3>2. ringing' = ringing \ Registry!Heard(S, ways)
      BY <1>1, <3>1, HeardOf
    <3>3. Inv' /\ Links' = Links /\ Kept' = Kept /\ Direction' = Direction
      BY <1>2, <3>1
    <3> QED
      BY <1>1, <2>2, <3>1, <3>2, <3>3 DEF Registry!ResetAlarms, Registry!Returns, Direction, Kept
  <2> QED
    BY <2>1, <2>2
<1>4. ASSUME ResetAllAlarms(ways) PROVE Inv' /\ Registry!ResetAllAlarms(ways)
  <2>1. ringing' = ringing \ AllAlarms(ways) /\ returned' = "NOERR" /\ UNCHANGED lists
    BY <1>4 DEF ResetAllAlarms, Returns
  <2>2. ringing' = ringing \ Registry!HeardByAny(ways)
    BY <1>1, <2>1, HeardAll
  <2>3. Inv' /\ Links' = Links /\ Kept' = Kept /\ Direction' = Direction
    BY <1>2, <2>1
  <2> QED
    BY <2>1, <2>2, <2>3 DEF Registry!ResetAllAlarms, Registry!Returns, Direction, Kept
<1> QED
  BY <1>3, <1>4

\* The question whether an alarm rings has the answer the relation gives.
LEMMA AskStep ==
    ASSUME Inv, NEW ways \in Directions \ {{}}
    PROVE  /\ \A s \in StreamIds :
                 RingingAlarms(s, ways) => Inv' /\ Registry!RingingAlarms(s, ways)
           /\ AnyRingingAlarms(ways) => Inv' /\ Registry!AnyRingingAlarms(ways)
<1>1. ways \in SUBSET Ways /\ DOMAIN Direction = Range(streams)
  BY DEF Directions, Ways, Direction
<1>2. \A as : Answer(as) \in Codes /\ Answer(as) = Registry!Answer(as)
  BY DEF Answer, Registry!Answer, Codes
<1>3. ASSUME NEW as, returned' = Answer(as), UNCHANGED <<lists, ringing>>
      PROVE  /\ Inv' /\ Links' = Links /\ Kept' = Kept /\ Direction' = Direction
             /\ returned' = Registry!Answer(as) /\ ringing' = ringing
  BY <1>2, <1>3, ListsLeft DEF Inv
<1>4. ASSUME NEW s \in StreamIds, RingingAlarms(s, ways)
      PROVE  Inv' /\ Registry!RingingAlarms(s, ways)
  <2>1. CASE ~Has(streams, s)
    <3>1. Inv' /\ Registry!Refused
      BY <1>4, <2>1, RefusedStep DEF RingingAlarms
    <3> QED
      BY <1>1, <2>1, <3>1 DEF Registry!RingingAlarms, Direction, Has
  <2>2. CASE Has(streams, s)
    <3>1. {s} \cap Range(streams) = {s}
      BY <2>2 DEF Has
    <3>2. AlarmsOf({s}, ways) = Registry!Heard({s}, ways)
      BY <1>1, <3>1, HeardOf
    <3>3. returned' = Answer(Registry!Heard({s}, ways)) /\ UNCHANGED <<lists, ringing>>
      BY <1>4, <2>2, <3>2 DEF RingingAlarms, Returns
    <3>4. /\ Inv' /\ Links' = Links /\ Kept' = Kept /\ Direction' = Direction
          /\ returned' = Registry!Answer(Registry!Heard({s}, ways)) /\ ringing' = ringing
      BY <1>3, <3>3
    <3> QED
      BY <1>1, <2>2, <3>4 DEF Registry!RingingAlarms, Registry!Returns, Direction, Kept, Has
  <2> QED
    BY <2>1, <2>2
<1>5. ASSUME AnyRingingAlarms(ways) PROVE Inv' /\ Registry!AnyRingingAlarms(ways)
  <2>1. returned' = Answer(Registry!HeardByAny(ways)) /\ UNCHANGED <<lists, ringing>>
    BY <1>1, <1>5, HeardAll DEF AnyRingingAlarms, Returns
  <2>2. /\ Inv' /\ Links' = Links /\ Kept' = Kept /\ Direction' = Direction
        /\ returned' = Registry!Answer(Registry!HeardByAny(ways)) /\ ringing' = ringing
    BY <1>3, <2>1
  <2> QED
    BY <2>2 DEF Registry!AnyRingingAlarms, Registry!Returns, Direction, Kept
<1> QED
  BY <1>4, <1>5

LEMMA RingStep ==
    ASSUME Inv, NEW a \in ClockAlarms, Ring(a)
    PROVE  Inv' /\ Registry!Ring(a)
<1>1. ringing' = ringing \cup {a} /\ UNCHANGED <<lists, returned>>
  BY DEF Ring
<1>2. Inv' /\ Links' = Links /\ Kept' = Kept /\ Direction' = Direction
  BY <1>1, ListsLeft DEF Inv
<1> QED
  BY <1>1, <1>2 DEF Registry!Ring, Direction, Kept

-----------------------------------------------------------------------------
(* The theorems *)

\* Every step keeps the invariant, and is one of the relation's or leaves it alone.
LEMMA StepRefines == Inv /\ [ManagerNext]_managerVars => Inv' /\ [Registry!Next]_(Registry!vars)
<1> SUFFICES ASSUME Inv, [ManagerNext]_managerVars PROVE Inv' /\ [Registry!Next]_(Registry!vars)
  OBVIOUS
<1>1. ASSUME NEW s \in StreamIds, NEW d \in StreamDirections, CreateStream(s, d)
      PROVE  Inv' /\ Registry!Next
  BY <1>1, CreateStep DEF Registry!Next
<1>2. ASSUME NEW s \in StreamIds, DestroyStream(s)
      PROVE  Inv' /\ Registry!Next
  BY <1>2, DestroyStep DEF Registry!Next
<1> DEFINE Dirs == Directions \ {{}}
<1>3. Registry!Directions \ {{}} = Dirs
  BY DEF Registry!Directions, Registry!Ways, Directions, Ways
<1>4. ASSUME NEW s \in StreamIds, NEW a \in AlarmIds, NEW ways \in Dirs,
             AddAlarm(s, a, ways) \/ RemoveAlarm(s, a, ways)
      PROVE  Inv' /\ Registry!Next
  <2>1. Inv' /\ (Registry!AddAlarm(s, a, ways) \/ Registry!RemoveAlarm(s, a, ways))
    BY <1>4, AddStep, RemoveStep
  <2> QED
    BY <1>3, <2>1 DEF Registry!Next
<1>5. ASSUME NEW S \in (SUBSET StreamIds) \ {{}}, NEW ways \in Dirs, ResetAlarms(S, ways)
      PROVE  Inv' /\ Registry!Next
  <2>1. Inv' /\ Registry!ResetAlarms(S, ways)
    BY <1>5, ResetStep
  <2> QED
    BY <1>3, <2>1 DEF Registry!Next
<1>6. ASSUME NEW s \in StreamIds, NEW ways \in Dirs, RingingAlarms(s, ways)
      PROVE  Inv' /\ Registry!Next
  <2>1. Inv' /\ Registry!RingingAlarms(s, ways)
    BY <1>6, AskStep
  <2> QED
    BY <1>3, <2>1 DEF Registry!Next
<1>7. ASSUME NEW ways \in Dirs, ResetAllAlarms(ways) \/ AnyRingingAlarms(ways)
      PROVE  Inv' /\ Registry!Next
  <2>1. Inv' /\ (Registry!ResetAllAlarms(ways) \/ Registry!AnyRingingAlarms(ways))
    BY <1>7, ResetStep, AskStep
  <2> QED
    BY <1>3, <2>1 DEF Registry!Next
<1>8. ASSUME NEW a \in ClockAlarms, Ring(a)
      PROVE  Inv' /\ Registry!Next
  BY <1>8, RingStep DEF Registry!Next
<1>9. CASE UNCHANGED managerVars
  <2>1. Inv' /\ Links' = Links /\ Kept' = Kept /\ Direction' = Direction
    BY <1>9, ListsLeft DEF managerVars, Inv
  <2> QED
    BY <1>9, <2>1 DEF managerVars, Registry!vars, Kept, Direction
<1> QED
  BY <1>1, <1>2, <1>4, <1>5, <1>6, <1>7, <1>8, <1>9 DEF ManagerNext

LEMMA Invariance == ManagerSpec => []Inv
<1>1. Inv /\ [ManagerNext]_managerVars => Inv'
  BY StepRefines
<1> QED
  BY <1>1, InvInit, PTL DEF ManagerSpec

\* Every list has items of its kind, every stream on the manager's list is allocated,
\* and numStreams counts them, after any operations on the lists of
\* mpas_stream_manager.F.
THEOREM ManagerTypeCorrect == ManagerSpec => []ManagerTypeOK
<1>1. Inv => ManagerTypeOK
  <2> SUFFICES ASSUME Inv PROVE ManagerTypeOK
    OBVIOUS
  <2>1. /\ streams \in ListOf(StreamIds) /\ numStreams = Len(streams)
        /\ node \in [Range(streams) -> Node] /\ alarms \in [Ways -> ListOf(AlarmIds)]
        /\ DOMAIN streamList = Ways
        /\ \A w \in Ways : streamList[w] \in [Range(alarms[w]) -> ListOf(StreamIds)]
    BY DEF Inv, ListsOK
  <2>2. ListOf(StreamIds) \subseteq Seq(StreamIds) /\ ListOf(AlarmIds) \subseteq Seq(AlarmIds)
    BY DEF ListOf
  <2>3. alarms \in [Ways -> Seq(AlarmIds)]
    BY <2>1, <2>2
  <2>4. \A s \in DOMAIN node : node[s] \in [direction: Directions,
                                            alarmList: [Ways -> Seq(AlarmIds)]]
    <3> SUFFICES ASSUME NEW n \in Node
                 PROVE  n \in [direction: Directions, alarmList: [Ways -> Seq(AlarmIds)]]
      BY <2>1
    <3>1. [Ways -> ListOf(AlarmIds)] \subseteq [Ways -> Seq(AlarmIds)]
      BY <2>2
    <3> QED
      BY <3>1 DEF Node
  <2>5. \A w \in Ways : /\ DOMAIN streamList[w] = Range(alarms[w])
                        /\ \A a \in DOMAIN streamList[w] : streamList[w][a] \in Seq(StreamIds)
    BY <2>1, <2>2
  <2> QED
    BY <2>1, <2>2, <2>3, <2>4, <2>5 DEF ManagerTypeOK, Inv
<1> QED
  BY <1>1, Invariance, PTL

\* A stream has an alarm on its list exactly if the manager has the alarm with the stream
\* on its list, and no list has a name twice, whatever the streams, the alarms and the
\* operations of mpas_stream_manager.F on them.
THEOREM CrossReferencesKept == ManagerSpec => []CrossReferenced
<1>1. Inv => CrossReferenced
  <2> SUFFICES ASSUME Inv PROVE CrossReferenced
    OBVIOUS
  <2>1. IsInjective(streams)
    BY DEF Inv, ListsOK, ListOf
  <2>2. ASSUME NEW w \in Ways
        PROVE  /\ IsInjective(alarms[w])
               /\ \A s \in Range(streams) : IsInjective(node[s].alarmList[w])
               /\ \A a \in Range(alarms[w]) : /\ IsInjective(streamList[w][a])
                                              /\ Range(streamList[w][a]) \subseteq Range(streams)
    <3>1. alarms[w] \in ListOf(AlarmIds)
      BY DEF Inv, ListsOK
    <3> QED
      BY <3>1, NodeOf, AlarmOf DEF ListOf
  <2>3. ASSUME NEW w \in Ways, NEW s \in Range(streams), NEW a \in AlarmIds
        PROVE  a \in Range(node[s].alarmList[w]) <=> s \in Range(StreamsOf(a, w))
    BY ListOfAlarm DEF Has
  <2> QED
    BY <2>1, <2>2, <2>3 DEF CrossReferenced
<1> QED
  BY <1>1, Invariance, PTL

\* The lists of mpas_stream_manager.F, their references and their early returns do what
\* one relation between streams and alarms does, with the same return codes.
THEOREM RefinesRegistry == ManagerSpec => ImplementsRegistry
<1>1. ManagerInit => Inv /\ Registry!Init
  BY InvInit, InitRefines
<1>2. Inv /\ [ManagerNext]_managerVars => Inv' /\ [Registry!Next]_(Registry!vars)
  BY StepRefines
<1> QED
  BY <1>1, <1>2, PTL DEF ManagerSpec, ImplementsRegistry, Registry!Spec
=============================================================================
