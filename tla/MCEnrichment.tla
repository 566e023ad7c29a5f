---------------------------- MODULE MCEnrichment ----------------------------
(* Two objects that one search finds the same sources for; one adapter has  *)
(* them all, the other an entry without a url; robots.txt closes the best   *)
(* to robots.  Of the other sources one has nothing of the query, and one   *)
(* is a page to log in.  The pages that are read have up to two blocks,     *)
(* or three of headings and texts.                                          *)
EXTENDS Enrichment, DocumentParts, TLC

CONSTANTS o1, o2, article, paper, off, login, none, wikipedia, arxiv, t1, t2, a1, a2

MCFinds == (wikipedia :> {article, paper, off, login}) @@ (arxiv :> {none})

MCPageOf(host, path, words) ==
    [scheme |-> "https", host |-> host, path |-> path, keys |-> {}, words |-> words]
MCPage ==
    (article :> MCPageOf(<<"org", "wikipedia", "de">>, <<"wiki", "logic">>, {"wiki", "logic"})) @@
    (paper :> MCPageOf(<<"org", "arxiv">>, <<"abs", "1">>, {"abs", "temporal", "logic"})) @@
    (off :> MCPageOf(<<"org", "python", "docs">>, <<"3">>, {"python"})) @@
    (login :> MCPageOf(<<"com", "github">>, <<"logic", "login">>, {"logic", "login"}))
MCQuery == (o1 :> {"logic"}) @@ (o2 :> {"temporal", "logic"})
MCPolicy == [allowDomains |-> {}, blockDomains |-> {<<"com", "example">>},
             allowPrefixes |-> {}, blockPrefixes |-> {}]
MCCap == [tables |-> 1, rows |-> 1, lists |-> 1, items |-> 2, sections |-> 2]

Block(is, words, rows) == [is |-> is, words |-> words, rows |-> rows]
Blocks == {
    Block("text", <<"some", "text">>, <<>>), Block("heading", <<"title">>, <<>>),
    Block("heading", <<>>, <<>>),
    Block("table", <<"caption">>, <<<<"k">>, <<"a", "b">>>>),
    Block("table", <<>>, <<<<"k">>, <<"a">>, <<"b">>>>),
    Block("list", <<>>, <<<<"one">>, <<>>, <<"two", "words">>, <<"three">>>>),
    Block("list", <<>>, <<<<"other">>>>), Block("template", <<>>, <<<<"hidden">>>>)}
Pages == UNION {[1..n -> Blocks] : n \in 0..2}
         \cup [1..3 -> {b \in Blocks : b.is \in {"text", "heading"}}]

(* A page of tables, lists, headings and texts one after the other is read as what it is: *)
(* each table with its caption, header and rows, each list with its items, each text in   *)
(* the section of its heading, up to the limits, whatever void elements it holds and      *)
(* whatever came before (evaluated in the initial state alone).                           *)
PagesAreRead ==
    (troubles = 0 /\ \A t \in Task : task[t].state = "none") => \A blocks \in Pages : ReadsAs(blocks)

MCAbout == [t \in {t1, t2} |-> IF t = t2 THEN o2 ELSE o1]
=============================================================================
