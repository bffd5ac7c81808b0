----------------------------- MODULE StreamPath -----------------------------
(***************************************************************************)
(* The directories a stream writes into (build_stream_path of              *)
(* framework/xml_stream_parser.c).  Task 0 looks at the file system for    *)
(* all tasks.                                                              *)
(*                                                                         *)
(* A path is a sequence of names, the empty sequence the directory the     *)
(* program runs in.  A file system gives every path one of "absent",       *)
(* "writable", "readonly" (two kinds of directory) and "file".             *)
(***************************************************************************)
EXTENDS Integers, Sequences, SequencesExt

Directories == {"writable", "readonly"}

\* What is in a directory that is not there is not there either.
IsFileSystem(fs) ==
    /\ <<>> \in DOMAIN fs
    /\ \A path \in DOMAIN fs :
          /\ path \in Seq(Range(path)) /\ fs[path] \in Directories \cup {"absent", "file"}
          /\ path # <<>> => /\ Front(path) \in DOMAIN fs
                            /\ fs[path] # "absent" => fs[Front(path)] \in Directories

\* mkdir: what there is already comes before what may be written.
Mkdir(fs, path) ==
    IF Len(path) > 1 /\ fs[Front(path)] \in {"absent", "file"} THEN "no directory"
    ELSE IF fs[path] # "absent" THEN "exists"
    ELSE IF fs[Front(path)] # "writable" THEN "denied"
    ELSE "made"

Made(fs, path) == IF Mkdir(fs, path) = "made" THEN [fs EXCEPT ![path] = "writable"] ELSE fs
Writable(fs, path) == fs[path] \in {"writable", "file"}

\* One directory above the last.  Only what exists is asked whether it may be written.
BuildParent(b, path) ==
    LET answer == Mkdir(b.fs, path)
    IN  IF b.ret # 0 THEN b
        ELSE [fs |-> Made(b.fs, path),
              writable_parent |-> IF answer = "exists" THEN Writable(b.fs, path) ELSE b.writable_parent,
              ret |-> IF answer \in {"denied", "no directory"} /\ ~b.writable_parent THEN 1 ELSE 0]

\* Mutant: a directory that exists is taken without asking whether it may be written.
BuildLastUnasked(b, path) ==
    LET answer == Mkdir(b.fs, path)
    IN  IF b.ret # 0 THEN b
        ELSE [b EXCEPT !.fs = Made(b.fs, path),
                       !.ret = IF answer \in {"denied", "no directory"} /\ ~b.writable_parent THEN 1 ELSE 0]

\* The last directory.
BuildLast(b, path) ==
    LET answer == Mkdir(b.fs, path)
    IN  IF b.ret # 0 THEN b
        ELSE [b EXCEPT !.fs = Made(b.fs, path),
                       !.ret = CASE answer = "made"   -> 0
                                 [] answer = "exists" -> IF Writable(b.fs, path) THEN 0 ELSE 1
                                 [] OTHER             -> IF b.writable_parent THEN 0 ELSE 1]

\* The directories above the last, from the first on.
BuildParents(fs, path) ==
    LET above[n \in 0 .. Len(path) - 1] ==
          IF n = 0 THEN [fs |-> fs, writable_parent |-> TRUE, ret |-> 0]
          ELSE BuildParent(above[n - 1], SubSeq(path, 1, n))
    IN  above[Len(path) - 1]

\* All of them; a template without a directory needs none.
BuildPath(fs, path) ==
    IF path = <<>> THEN [fs |-> fs, writable_parent |-> TRUE, ret |-> 0]
    ELSE BuildLast(BuildParents(fs, path), path)

-----------------------------------------------------------------------------
(* When the verdict is the right one.                                      *)

Usable(fs, path) == fs[path] = "writable"

\* What the loop takes for granted: it starts in a directory it may write, and nothing
\* but directories has the names it needs.
PlainStart(fs, path) ==
    /\ fs[<<>>] = "writable"
    /\ \A n \in 1 .. Len(path) : fs[SubSeq(path, 1, n)] # "file"

\* Whether every directory could be made or is there.
Buildable(fs, path) ==
    \E n \in 0 .. Len(path) : /\ fs[SubSeq(path, 1, n)] = "writable"
                              /\ \A k \in n + 1 .. Len(path) : fs[SubSeq(path, 1, k)] = "absent"
=============================================================================
