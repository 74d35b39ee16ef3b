---------------------------- MODULE MCGrounding ----------------------------
(* Values for the constants of Grounding. *)
EXTENDS Grounding

CONSTANTS f, g

Says(fact, cites) == [fact |-> fact, cites |-> cites]
Unit(kind, says)  == [kind |-> kind, says |-> says]

\* The figures of g are in the snippets of the second source only.
FiguresOfG == {<<f, 1>>, <<f, 2>>, <<g, 2>>}

\* Two passages and a conclusion on them, one passage of two claims and its
\* conclusion, a table, a heading over a quotation that cites outside the selection.
ThePassages ==
    <<Unit("prose", <<Says(g, {1, 2})>>), Unit("prose", <<Says(f, {2})>>),
      Unit("conclusion", <<Says(f, {1, 3})>>)>>

SomeDrafts ==
    {ThePassages,
     <<Unit("prose", <<Says(f, {1}), Says(g, {1, 2})>>), Unit("conclusion", <<Says(f, {1, 3})>>)>>,
     <<Unit("row", <<>>), Unit("row", <<Says(g, {2})>>), Unit("row", <<Says(f, {1})>>),
       Unit("prose", <<Says(f, {2, 3})>>)>>,
     <<Unit("heading", <<Says(f, {2})>>), Unit("quote", <<Says(g, {2, 3})>>)>>}

Passages == {<<Says(f, {1})>>, <<Says(g, {1, 2})>>, <<Says(g, {2}), Says(f, {3})>>}
=============================================================================
