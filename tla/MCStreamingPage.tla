--------------------------- MODULE MCStreamingPage ---------------------------
(***************************************************************************)
(* Four small documents for StreamingPage.                                *)
(***************************************************************************)
EXTENDS StreamingPage

Bound(name, keys) == [op |-> "bound", keys |-> keys, full |-> FALSE, name |-> name]
Full(name) == [op |-> "bound", keys |-> {}, full |-> TRUE, name |-> name]
Open(host) == [op |-> "open", keys |-> {}, full |-> FALSE, name |-> host]
Close(host, keys) == [op |-> "close", keys |-> keys, full |-> FALSE, name |-> host]
End == [op |-> "end", keys |-> {}, full |-> FALSE, name |-> NoRoot]

(* Two boundaries: a panel with a card inside, and another panel that wants *)
(* the whole state.                                                         *)
Flat == <<Bound("first panel", {"a"}), Full("second panel"), End>>

(* One host around a boundary with a root inside a root; the host wants     *)
(* less than its boundary.                                                  *)
Span == <<Open("host"), Bound("list", {"a", "b"}), Close("host", {"b"}), End>>

(* Two hosts around a boundary with a root inside a root, after a boundary  *)
(* with a root of the outer host's component.                               *)
Nest == <<Bound("before", {"a"}), Open("outer"), Open("inner"),
          Bound("within", {"a", "b"}), Close("inner", {"b"}),
          Close("outer", {"a", "b"}), End>>

(* A component inside one of its own kind.                                  *)
Tree == <<Bound("tree", {"a"}), End>>

MCKeys == {"a", "b"}
MCGiven == {[a |-> 1, b |-> 1], [b |-> 2]}
MCPrograms == {Flat, Span, Nest, Tree}
MCFaults == [q \in MCPrograms |-> IF q \in {Nest, Tree} THEN 0 ELSE 1]

MCOrder == <<"panel1", "card", "panel2",
             "host", "item", "leaf",
             "early", "outer", "inner", "row", "cell",
             "node1", "node2">>
MCAround == [panel1 |-> <<>>, card |-> <<"panel1">>, panel2 |-> <<>>,
             host |-> <<>>, item |-> <<"host">>, leaf |-> <<"item", "host">>,
             early |-> <<>>, outer |-> <<>>, inner |-> <<"outer">>,
             row |-> <<"inner", "outer">>, cell |-> <<"row", "inner", "outer">>,
             node1 |-> <<>>, node2 |-> <<"node1">>]
MCTag == [panel1 |-> "panel", card |-> "card", panel2 |-> "panel",
          host |-> "host", item |-> "item", leaf |-> "leaf",
          early |-> "outer", outer |-> "outer", inner |-> "inner", row |-> "row",
          cell |-> "cell", node1 |-> "node", node2 |-> "node"]
MCRangeOf == [panel1 |-> "first panel", card |-> "first panel", panel2 |-> "second panel",
              host |-> "host", item |-> "list", leaf |-> "list",
              early |-> "before", outer |-> "outer", inner |-> "inner", row |-> "within",
              cell |-> "within", node1 |-> "tree", node2 |-> "tree"]
==============================================================================
