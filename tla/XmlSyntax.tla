------------------------------ MODULE XmlSyntax ------------------------------
(***************************************************************************)
(* The checks a streams file goes through before the XML library sees it   *)
(* (parse_xml_tag and xml_syntax_check of framework/xml_stream_parser.c).  *)
(*                                                                         *)
(* A text is a sequence of marks.  "<!" opens a comment and "-->" closes   *)
(* one; <, >, /, =, the quote and the end of a line are themselves; any    *)
(* other mark is a word.                                                   *)
(***************************************************************************)
EXTENDS Naturals, FiniteSets, Sequences, SequencesExt

Quote == "'"
NewLine == "eol"
Signs == {"<!", "-->", "<", ">", "/", "=", Quote, NewLine}

-----------------------------------------------------------------------------
\* Angle brackets: at most one tag and at most one comment is open at a time.
OpenComment(b) == [b EXCEPT !.comments = @ + 1, !.ok = @ /\ b.comments = 0 /\ b.tags = 0]
CloseComment(b) == [b EXCEPT !.comments = @ - 1, !.ok = @ /\ b.comments = 1 /\ b.tags = 0]
OpenTag(b) == [b EXCEPT !.tags = @ + 1, !.ok = @ /\ b.tags = 0]
CloseTag(b) == [b EXCEPT !.tags = @ - 1, !.ok = @ /\ b.tags = 1]

Bracket(b, mark) ==
    IF ~b.ok THEN b
    ELSE CASE mark = "<!"  -> OpenComment(b)
           [] mark = "-->" -> CloseComment(b)
           [] mark = "<"   -> OpenTag(b)
           [] mark = ">"   -> CloseTag(b)
           [] OTHER        -> b

\* Nothing is asked of a comment that is still open at the end.
Brackets(text) == FoldLeft(Bracket, [tags |-> 0, comments |-> 0, ok |-> TRUE], text)
BracketsBalance(text) == Brackets(text).ok /\ Brackets(text).tags = 0

-----------------------------------------------------------------------------
\* Quotes are paired before every '=', at the end of every line and of the text.
QuotesIn(text, i) == Cardinality({j \in 1 .. i : text[j] = Quote})
QuotesBalance(text) ==
    \A i \in 1 .. Len(text) :
        (text[i] \in {"=", NewLine} \/ i = Len(text)) => QuotesIn(text, i) % 2 = 0

-----------------------------------------------------------------------------
\* Tags are read one after another and open ones are kept on a stack.
TagName(tag) == IF tag = <<>> \/ Head(tag) \in Signs THEN "" ELSE Head(tag)
Closing(tag) == Head(tag) = "/" /\ Last(tag) # "/"
Opening(tag) == Head(tag) # "/" /\ Last(tag) # "/"

PushTag(s, tag) == [s EXCEPT !.stack = <<TagName(tag)>> \o @]

\* Mutant: a closing tag takes the newest open tag off the stack whatever its name.
PopAnyTag(s, tag) ==
    IF s.stack = <<>> THEN [s EXCEPT !.result = "crash"] ELSE [s EXCEPT !.stack = Tail(@)]

\* The node a closing tag pops is used without a test that there was one.
PopTag(s, tag) ==
    IF s.stack = <<>> THEN [s EXCEPT !.result = "crash"]
    ELSE IF Head(s.stack) = TagName(Tail(tag)) THEN [s EXCEPT !.stack = Tail(@)]
    ELSE [s EXCEPT !.result = "error"]

\* A tag without a single character ends the check as the end of the text does.
EndTag(s) ==
    LET t == [s EXCEPT !.inside = FALSE, !.tag = <<>>]
    IN  IF s.tag = <<>> THEN [t EXCEPT !.result = "stop"]
        ELSE IF Opening(s.tag) THEN PushTag(t, s.tag)
        ELSE IF Closing(s.tag) THEN PopTag(t, s.tag)
        ELSE t

\* parse_xml_tag, one mark at a time.
ReadMark(s, mark) ==
    IF s.result # "none" THEN s
    ELSE IF s.inside
         THEN IF mark \in {">", "-->"} THEN EndTag(s) ELSE [s EXCEPT !.tag = Append(@, mark)]
    ELSE IF s.comment THEN [s EXCEPT !.comment = mark # "-->"]
    ELSE [s EXCEPT !.inside = mark = "<", !.comment = mark = "<!"]

Tags(text) ==
    FoldLeft(ReadMark, [stack |-> <<>>, tag |-> <<>>, inside |-> FALSE,
                        comment |-> FALSE, result |-> "none"], text)

TagsNest(text) ==
    LET s == Tags(text)
    IN  IF s.result \in {"error", "crash"} THEN s.result
        ELSE IF s.stack = <<>> THEN "ok" ELSE "error"

SyntaxCheck(text) ==
    IF Head(text) = ">" \/ ~BracketsBalance(text) \/ ~QuotesBalance(text) THEN "error"
    ELSE TagsNest(text)

-----------------------------------------------------------------------------
(* What the checks are for, said of the text as a whole.                   *)

Commented(text, i) == \E j \in 1 .. i : /\ text[j] = "<!"
                                        /\ \A k \in j .. i - 1 : text[k] # "-->"

\* Where a tag begins, and what it holds: every bracket outside comments is part of one.
TagStarts(text) == {i \in 1 .. Len(text) : text[i] = "<" /\ ~Commented(text, i)}
TagEnd(text, i) == CHOOSE j \in i + 1 .. Len(text) :
                      /\ text[j] = ">"
                      /\ \A k \in i + 1 .. j - 1 : text[k] # ">"
TagFrom(text, i) == SubSeq(text, i + 1, TagEnd(text, i) - 1)

TagsClosed(text) ==
    \A i \in TagStarts(text) :
        \E j \in i + 1 .. Len(text) : /\ text[j] = ">"
                                     /\ \A k \in i + 1 .. j - 1 : text[k] \notin {"<", "<!", "-->"}

EmptyTags(text) == {i \in TagStarts(text) : TagFrom(text, i) = <<>>}
OpeningTags(text) == {i \in TagStarts(text) \ EmptyTags(text) : Opening(TagFrom(text, i))}
ClosingTags(text) == {i \in TagStarts(text) \ EmptyTags(text) : Closing(TagFrom(text, i))}

\* Every opening tag has a closing tag of its own name, and what opens between the two
\* closes between them.
WellNested(text) ==
    \E mate \in [OpeningTags(text) -> ClosingTags(text)] :
        /\ {mate[i] : i \in OpeningTags(text)} = ClosingTags(text)
        /\ \A i \in OpeningTags(text) :
              /\ i < mate[i]
              /\ TagName(TagFrom(text, i)) = TagName(Tail(TagFrom(text, mate[i])))
              /\ \A j \in OpeningTags(text) \ {i} :
                    /\ mate[j] # mate[i]
                    /\ (i < j /\ j < mate[i]) => mate[j] < mate[i]

\* A closing tag before which as many tags were closed as opened.
StrayClosing(text) ==
    \E i \in ClosingTags(text) :
        Cardinality({j \in OpeningTags(text) : j < i}) = Cardinality({j \in ClosingTags(text) : j < i})
=============================================================================
