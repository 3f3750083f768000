------------------------- MODULE MCTargetAlignment --------------------------
(***************************************************************************)
(* A 1080 x 2400 screen of a chat: two editors, a Send button next to one, *)
(* a wide row whose label is a child, an unlabelled red create button on   *)
(* the edge of an unlabelled card, a label shown twice, an icon beside it. *)
(***************************************************************************)
EXTENDS TargetAlignment

MCWidth == 1080
MCHeight == 2400

Node(bounds, label, role, clickable, parent) ==
    [bounds |-> bounds, label |-> label, role |-> role, clickable |-> clickable,
     parent |-> parent, enabled |-> TRUE, visible |-> TRUE, red |-> FALSE, foreign |-> FALSE]

MCPalette == <<
    Node(<<60, 2200, 800, 2300>>, "message", "editor", FALSE, 0),               \* 1
    Node(<<60, 2080, 1000, 2190>>, "title", "editor_by_id", TRUE, 0),           \* 2
    Node(<<820, 2200, 1040, 2300>>, "Send", "button", TRUE, 0),                 \* 3
    Node(<<0, 300, 1080, 500>>, "", "generic", TRUE, 0),                        \* 4 row
    Node(<<200, 340, 420, 460>>, "Alice", "text", TRUE, 4),                     \* 5 in the row
    Node(<<0, 900, 1080, 1660>>, "", "generic", TRUE, 0),                       \* 6 card
    [Node(<<900, 1500, 1060, 1660>>, "", "generic", TRUE, 0) EXCEPT !.red = TRUE],  \* 7 create
    Node(<<200, 1000, 400, 1100>>, "Alice", "text", FALSE, 6),                  \* 8 in the card
    [Node(<<60, 2200, 700, 2290>>, "message", "editor", FALSE, 0)
        EXCEPT !.foreign = TRUE],                                                \* 9 overlay
    [Node(<<40, 2350, 1040, 2390>>, "message", "editor", TRUE, 0)
        EXCEPT !.enabled = FALSE],                                               \* 10 disabled
    Node(<<390, 1010, 470, 1090>>, "", "generic", TRUE, 6)>>                    \* 11 icon

MCPages == {{}, {1}, {2}, {10}, {1, 2}, {1, 3}, {1, 2, 3}, {3, 10}, {4}, {4, 5}, {4, 5, 6, 8},
            {6}, {6, 7}, {7}, {6, 8}, {4, 6, 7}, {3, 6, 7}, {9}, {1, 9}, {8}, {6, 8, 11}}

Element(label, button, entry, create) ==
    [label |-> label, button |-> button, entry |-> entry, create |-> create, bottom |-> FALSE]
MCElements == {Element("message", FALSE, TRUE, FALSE), Element("title", FALSE, TRUE, FALSE),
               Element("Alice", FALSE, FALSE, FALSE), Element("Send", TRUE, FALSE, FALSE),
               Element("new note", TRUE, FALSE, TRUE)}

MCSteps == {[family |-> "INPUT", texts |-> {"message"}, identity |-> FALSE, button |-> FALSE],
            [family |-> "INPUT", texts |-> {"message"}, identity |-> TRUE, button |-> FALSE],
            [family |-> "CLICK", texts |-> {"Send"}, identity |-> FALSE, button |-> TRUE],
            [family |-> "CLICK", texts |-> {"Alice"}, identity |-> TRUE, button |-> FALSE]}

\* In half-size pixels: on each node, across the two editors, on the edge of the
\* create button, far from everything, collapsed, one whose y axis is native, on
\* the row beside its label, and across a label and the icon.
MCBoxes == {<<30, 1100, 400, 1150>>, <<30, 1060, 400, 1120>>, <<410, 1100, 520, 1150>>,
            <<100, 170, 210, 230>>, <<380, 760, 460, 800>>, <<450, 750, 530, 830>>,
            <<200, 600, 260, 640>>, <<600, 500, 700, 500>>, <<410, 2200, 520, 2300>>,
            <<380, 170, 460, 230>>, <<150, 505, 230, 545>>}
MCButtonLabels == {"Send"}
=============================================================================
