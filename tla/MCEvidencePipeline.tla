------------------------ MODULE MCEvidencePipeline ------------------------
(***************************************************************************)
(* A small instance of EvidencePipeline: three task DAGs over two pictures, *)
(* three traces of which two come from one source.                         *)
(***************************************************************************)
EXTENDS EvidencePipeline

CONSTANTS i1, i2, i3

Ask == [kind |-> "llm", request |-> "asked", word |-> "none", expected |-> "TRUE"]
Read(text) == [kind |-> "ocr", request |-> "screen", word |-> text, expected |-> "none"]
Tree == [kind |-> "xml", request |-> "none", word |-> "tree", expected |-> "none"]
Loaded == [kind |-> "visual_state", request |-> "none", word |-> "none", expected |-> "none"]

Frame(image, fields, shows, denies) ==
    [image |-> image, fields |-> fields, shows |-> shows, denies |-> denies]

Edge(parent, child, kind) == [parent |-> parent, child |-> child, kind |-> kind]

\* Open, then the result; the result needs the search or the tree; and so on.
Dags ==
    {[cond |-> [a |-> "ANY_OF", b |-> "ANY_OF"],
      checkers |-> [a |-> {Ask}, b |-> {Read("goal")}],
      edges |-> {Edge("a", "b", "DEPS_AND")}, success |-> {"b"}, operator |-> "ALL_OF"],
     [cond |-> [a |-> "ALL_OF", b |-> "ANY_OF", c |-> "ALL_OF"],
      checkers |-> [a |-> {Ask}, b |-> {Tree}, c |-> {Tree, Loaded}],
      edges |-> {Edge("a", "c", "NEXT_OR"), Edge("b", "c", "NEXT_OR")},
      success |-> {"c"}, operator |-> "ANY_OF"],
     [cond |-> [a |-> "ANY_OF", b |-> "ALL_OF", c |-> "ANY_OF"],
      checkers |-> [a |-> {Tree}, b |-> {Ask, Tree}, c |-> {Ask}],
      edges |-> {Edge("a", "b", "DEPS_AND"), Edge("a", "c", "DEPS_AND"), Edge("b", "c", "NEXT_OR")},
      success |-> {"b", "c"}, operator |-> "ALL_OF"]}

\* Frame 0 of a recorded run is a gap.
Gap == Frame(NoImage, {}, {}, {})

Traces ==
    [t1 |-> <<Gap, Frame(i1, {"xml"}, {"tree"}, {}), Frame(i2, {"xml"}, {"tree"}, {})>>,
     t2 |-> <<Gap, Frame(i1, {"xml"}, {"tree"}, {}), Frame(i1, {"xml"}, {}, {"tree"}),
              Frame(i2, {"xml"}, {"tree"}, {})>>,
     t3 |-> <<Gap, Frame(i3, {}, {}, {})>>]

Provenance ==
    [src |-> [current |-> "development", original |-> "development", parent |-> NoParent],
     t1 |-> [current |-> "development", original |-> "development", parent |-> "src"],
     t2 |-> [current |-> "development", original |-> "development", parent |-> "src"],
     t3 |-> [current |-> "development", original |-> "development", parent |-> NoParent]]

\* A batch with a visual-state detector also binds the model for c.
Loads(dag) == \E n \in Nodes(dag) : Loaded \in dag.checkers[n]

MCRepositories ==
    {[dag |-> dag, frames |-> Traces, actions |-> [t1 |-> <<"click", "input">>,
        t2 |-> <<"click", "input", "input">>, t3 |-> <<"click">>],
      provenance |-> Provenance, mapped |-> {"t1", "t2", "t3"},
      audits |-> [k \in {<<"t2", "a", "llm">>} |-> 4],
      rules |-> {[node |-> n, kind |-> "ocr", action |-> "input"] : n \in Nodes(dag)},
      batch |-> {"t1", "t2"},
      bound |-> {<<"a", "llm">>, <<"b", "llm">>, <<"b", "ocr">>, <<"c", "ocr">>}
                    \cup (IF Loads(dag) THEN {<<"c", "llm">>} ELSE {}),
      visual |-> [on |-> Loads(dag), decisions |-> [k \in {i2} |-> "LOADED_CONTENT"]],
      contract |-> [criteria |-> [macro |-> [dimension |-> "OUTCOME", required |-> TRUE,
                                             needs |-> {}]], mandatory |-> {"SCREENSHOT"}],
      profile |-> [integrity |-> "VALID", available |-> {"SCREENSHOT"}]] :
        dag \in Dags}

MCMayBeHeldOut == {"src", "t2"}

MCReplies(key) ==
    IF key.kind = "ocr" THEN {[decision |-> "TEXT", words |-> s] : s \in SUBSET {"goal"}}
    ELSE {[decision |-> d, words |-> {}] : d \in {"TRUE", "UNKNOWN"}}

=============================================================================
