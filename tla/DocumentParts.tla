---------------------------- MODULE DocumentParts ----------------------------
(***************************************************************************)
(* What ingest_document finds in a page: one pass over its tags and texts, *)
(* which keeps a stack of the elements that are open, finds the outermost  *)
(* tables and lists and cuts the rest of the text into sections at the     *)
(* headings.  A text is the sequence of its words.  Of the attributes only *)
(* those of microdata change the course of the pass; what microdata, meta  *)
(* tags and JSON-LD themselves yield is left out, and so are lengths.      *)
(*                                                                         *)
(* A token is [kind |-> "start", tag, micro], [kind |-> "end", tag] or     *)
(* [kind |-> "text", word]; micro is "none", "item" (itemscope), "text"    *)
(* (an itemprop that is its element's text) or "value" (any other).        *)
(***************************************************************************)
EXTENDS Integers, Sequences

LOCAL INSTANCE SequencesExt

CONSTANT Cap    \* [tables, rows, lists, items, sections]: the _MAX_ limits

Headings == {"h1", "h2", "h3", "h4", "h5", "h6"}
SkipTags == {"script", "style", "noscript", "template", "title"}
Unlisted == 0 - 1   \* the index of a section beyond the limit

\* The table, row and list that are being built are sequences of at most one.
NothingRead ==
    [stack |-> <<>>, skip |-> 0, tableDepth |-> 0, listDepth |-> 0,
     table |-> <<>>, row |-> <<>>, isHeader |-> FALSE, inCaption |-> FALSE, caption |-> <<>>,
     list |-> <<>>, section |-> 0, buffer |-> <<>>,
     tables |-> <<>>, lists |-> <<>>, sections |-> <<>>]

\* An open element: what it builds, whether it collects text, and its microdata.
Frame(t, builds, collects) ==
    [tag |-> t.tag, micro |-> t.micro, builds |-> builds,
     collects |-> collects \/ t.micro = "text", words |-> <<>>]
Push(p, t, builds, collects) == [p EXCEPT !.stack = Append(@, Frame(t, builds, collects))]

\* The current section takes the text so far; text before any heading gets one of its own.
Section == [heading |-> <<>>, words |-> <<>>]

Flush(p) ==
    LET default == p.section = 0 /\ Len(p.sections) < Cap.sections
        sections == IF default THEN Append(p.sections, Section) ELSE p.sections
        current == IF default THEN Len(sections) ELSE p.section
    IN  IF p.buffer = <<>> THEN p
        ELSE [p EXCEPT !.buffer = <<>>, !.section = current,
                       !.sections = IF current \in DOMAIN sections
                                    THEN [sections EXCEPT ![current].words = @ \o p.buffer]
                                    ELSE sections]

-----------------------------------------------------------------------------
(* A tag opens                                                              *)

StartTable(p, t) ==
    LET outermost == p.tableDepth = 0 /\ Len(p.tables) < Cap.tables
        q == [p EXCEPT !.tableDepth = @ + 1,
                       !.table = IF outermost THEN <<[caption |-> <<>>, headers |-> <<>>, rows |-> <<>>]>>
                                 ELSE @]
    IN  Push(q, t, IF outermost THEN "table" ELSE "", FALSE)

StartInTable(p, t) ==
    LET outer == p.tableDepth = 1
        cell == outer /\ t.tag \in {"td", "th"}
        q == IF ~outer THEN p
             ELSE [p EXCEPT !.inCaption = @ \/ t.tag = "caption",
                            !.caption = IF t.tag = "caption" THEN <<>> ELSE @,
                            !.row = IF t.tag = "tr" THEN <<<<>>>> ELSE @,
                            !.isHeader = t.tag # "tr" /\ (@ \/ t.tag = "th")]
    IN  Push(q, t, IF cell THEN "cell" ELSE "", cell)

StartList(p, t) ==
    LET outermost == p.listDepth = 0 /\ Len(p.lists) < Cap.lists
        q == [p EXCEPT !.listDepth = @ + 1, !.list = IF outermost THEN <<<<>>>> ELSE @]
    IN  Push(q, t, IF outermost THEN "list" ELSE "", FALSE)

StartInList(p, t) ==
    LET item == t.tag = "li" /\ p.listDepth = 1
    IN  Push(p, t, IF item THEN "item" ELSE "", item)

StartHeading(p, t) ==
    LET q == Flush(p)
        listed == Len(q.sections) < Cap.sections
        r == [q EXCEPT !.section = IF listed THEN Len(q.sections) + 1 ELSE Unlisted,
                       !.sections = IF listed THEN Append(@, Section) ELSE @]
    IN  Push(r, t, "", TRUE)

Start(p, t) ==
    IF t.tag \in SkipTags THEN Push([p EXCEPT !.skip = @ + 1], t, "", FALSE)
    ELSE IF p.skip > 0 \/ t.tag = "meta" THEN Push(p, [t EXCEPT !.micro = "none"], "", FALSE)
    ELSE IF t.tag = "table" THEN StartTable(p, t)
    ELSE IF p.tableDepth >= 1 THEN StartInTable(p, t)
    ELSE IF t.tag \in {"ul", "ol"} THEN StartList(p, t)
    ELSE IF p.listDepth >= 1 THEN StartInList(p, t)
    ELSE IF t.tag \in Headings THEN StartHeading(p, t)
    ELSE Push(p, t, "", FALSE)

-----------------------------------------------------------------------------
(* A tag closes                                                             *)

EndRow(p) ==
    LET room == Len(p.table[1].rows) < Cap.rows
        asHeader == p.isHeader /\ p.table[1].headers = <<>>
        q == [p EXCEPT !.row = <<>>, !.isHeader = FALSE]
    IN  IF p.table = <<>> \/ ~room THEN q
        ELSE IF asHeader THEN [q EXCEPT !.table[1].headers = p.row[1]]
        ELSE [q EXCEPT !.table[1].rows = Append(@, p.row[1])]

\* Variant: the element that is popped is the innermost.
ClosedInnermost(stack, tag) ==
    IF \E i \in DOMAIN stack : stack[i].tag = tag THEN Len(stack) ELSE 0
\* The innermost open element of that name; what was left open in it goes with it.
Closed(stack, tag) == SelectLastInSeq(stack, LAMBDA f : f.tag = tag)

\* An element with microdata closes as that and nothing else.
End(p, tag) ==
    LET i == Closed(p.stack, tag)
        f == p.stack[i]
        q == [p EXCEPT !.stack = SubSeq(@, 1, i - 1)]
    IN  IF i = 0 THEN p
        ELSE IF tag \in SkipTags THEN [q EXCEPT !.skip = @ - 1]
        ELSE IF p.skip > 0 \/ f.micro # "none" THEN q
        ELSE IF tag = "table" THEN
             [q EXCEPT !.tableDepth = @ - 1,
                       !.tables = IF f.builds = "table" THEN @ \o p.table ELSE @,
                       !.table = IF f.builds = "table" THEN <<>> ELSE @]
        ELSE IF tag = "caption" /\ p.inCaption THEN
             [q EXCEPT !.inCaption = FALSE, !.caption = <<>>,
                       !.table = IF @ = <<>> THEN @ ELSE [@ EXCEPT ![1].caption = p.caption]]
        ELSE IF f.builds = "cell" THEN
             [q EXCEPT !.row = IF @ = <<>> THEN @ ELSE <<Append(@[1], f.words)>>]
        ELSE IF tag = "tr" /\ p.row # <<>> THEN EndRow(q)
        ELSE IF tag \in {"ul", "ol"} THEN
             [q EXCEPT !.listDepth = @ - 1,
                       !.lists = IF f.builds = "list" THEN @ \o p.list ELSE @,
                       !.list = IF f.builds = "list" THEN <<>> ELSE @]
        ELSE IF f.builds = "item" THEN
             [q EXCEPT !.list = IF @ = <<>> \/ f.words = <<>> \/ Len(@[1]) >= Cap.items THEN @
                                ELSE <<Append(@[1], f.words)>>]
        ELSE IF tag \in Headings /\ p.section \in DOMAIN p.sections THEN
             [q EXCEPT !.sections[p.section].heading = f.words]
        ELSE q

-----------------------------------------------------------------------------
(* Text, and the whole page                                                 *)

\* The text is for the elements up to the one it belongs to.
Owner(stack) ==
    SelectLastInSeq(stack, LAMBDA f : \/ f.builds \in {"table", "list"} \/ f.tag \in Headings
                                      \/ f.micro \in {"text", "value"})

Data(p, word) ==
    LET takers == {i \in DOMAIN p.stack : i >= Owner(p.stack) /\ p.stack[i].collects}
        q == [p EXCEPT !.stack = [i \in DOMAIN @ |-> IF i \in takers
                                       THEN [@[i] EXCEPT !.words = Append(@, word)] ELSE @[i]]]
    IN  IF p.inCaption /\ p.stack # <<>> THEN [q EXCEPT !.caption = Append(@, word)]
        ELSE IF p.stack = <<>> \/ (takers = {} /\ p.tableDepth = 0 /\ p.listDepth = 0)
             THEN [q EXCEPT !.buffer = Append(@, word)]
        ELSE q

Handle(p, t) ==
    IF p.skip > 0 /\ t.kind = "text" THEN p
    ELSE IF t.kind = "start" THEN Start(p, t)
    ELSE IF t.kind = "end" THEN End(p, t.tag)
    ELSE Data(p, t.word)

\* finalize drops the sections that are empty.
Parts(tokens) ==
    LET read[i \in 0..Len(tokens)] ==
            IF i = 0 THEN NothingRead ELSE Handle(read[i - 1], tokens[i])
        p == Flush(read[Len(tokens)])
    IN  [tables |-> p.tables, lists |-> p.lists,
         sections |-> SelectSeq(p.sections, LAMBDA s : s.heading # <<>> \/ s.words # <<>>)]

-----------------------------------------------------------------------------
(* What it should find: the reference, for a page that is a sequence of     *)
(* blocks, [is, words, rows] each, whose elements are all closed but void   *)
(* ones.  A table's first row is its header; a list's items are its rows;   *)
(* a template holds a list that is not to be read.                          *)

Tag(kind, tag) == [kind |-> kind, tag |-> tag, micro |-> "none"]
Element(tag, body) == <<Tag("start", tag)>> \o body \o <<Tag("end", tag)>>
Concat(seqs) == FoldLeft(LAMBDA s, t : s \o t, <<>>, seqs)
Each(tag, bodies) == Concat([i \in DOMAIN bodies |-> Element(tag, bodies[i])])

\* Each word has a line break after it.
Markup(words) ==
    Concat([i \in DOMAIN words |-> <<[kind |-> "text", word |-> words[i]], Tag("start", "br")>>])

Row(cell, words) == Element("tr", Each(cell, [i \in DOMAIN words |-> Markup(<<words[i]>>)]))
Items(b) == [i \in DOMAIN b.rows |-> Markup(b.rows[i])]

Tokens(b) ==
    CASE b.is = "text" -> Element("p", Markup(b.words))
      [] b.is = "heading" -> Element("h2", Markup(b.words))
      [] b.is = "table" -> Element("table", Element("caption", Markup(b.words))
             \o Row("th", Head(b.rows))
             \o Concat([i \in DOMAIN Tail(b.rows) |-> Row("td", Tail(b.rows)[i])]))
      [] b.is = "list" -> Element("ul", Each("li", Items(b)))
      [] b.is = "template" -> Element("template", Element("ul", Each("li", Items(b))))

Upto(n, s) == SubSeq(s, 1, IF n < Len(s) THEN n ELSE Len(s))
All(blocks, is) == SelectSeq(blocks, LAMBDA b : b.is = is)

TableOf(b) == [caption |-> b.words, headers |-> Head(b.rows), rows |-> Upto(Cap.rows, Tail(b.rows))]
ListOf(b) == Upto(Cap.items, SelectSeq(b.rows, LAMBDA words : words # <<>>))

\* One section per heading, and one before if there is text before the first.
SectionsOf(blocks) ==
    LET starts == {i \in DOMAIN blocks : blocks[i].is = "heading"}
        until(i) == {j \in DOMAIN blocks : i < j /\ ~\E k \in starts : i < k /\ k <= j}
        text(i) == Concat([j \in DOMAIN blocks |->
                       IF j \in until(i) /\ blocks[j].is = "text" THEN blocks[j].words ELSE <<>>])
        preamble == IF text(0) = <<>> THEN <<>> ELSE <<[heading |-> <<>>, words |-> text(0)]>>
        headed == Concat([i \in DOMAIN blocks |->
                      IF i \in starts THEN <<[heading |-> blocks[i].words, words |-> text(i)]>>
                      ELSE <<>>])
    IN  SelectSeq(Upto(Cap.sections, preamble \o headed),
                  LAMBDA s : s.heading # <<>> \/ s.words # <<>>)

PartsOf(blocks) ==
    LET tables == Upto(Cap.tables, All(blocks, "table"))
        lists == Upto(Cap.lists, All(blocks, "list"))
    IN  [tables |-> [i \in DOMAIN tables |-> TableOf(tables[i])],
         lists |-> [i \in DOMAIN lists |-> ListOf(lists[i])],
         sections |-> SectionsOf(blocks)]

ReadsAs(blocks) ==
    Parts(Element("body", Concat([i \in DOMAIN blocks |-> Tokens(blocks[i])]))) = PartsOf(blocks)
=============================================================================
