--------------------------- MODULE ReasoningGraph ---------------------------
(***************************************************************************)
(* build_graph of reasoning_graph.py: the lineage graph rendered from a    *)
(* session's stores and results.  A store here is a record                 *)
(*   ledger       set of events [outcome, affected, evidence, from, to,    *)
(*                anomaly], 0 for none                                     *)
(*   evidence, hypotheses   sets of identifiers                            *)
(*   predictions  set of [id, from]   inquiries  set of [id, raisedBy]     *)
(* and the anomalies are those the interactions' results carry.            *)
(***************************************************************************)
EXTENDS Naturals, Sequences, SequencesExt

Start == <<"START", 0>>
Version(v) == IF v = 0 THEN Start ELSE <<"V", v>>

\* Mutant: the spine is drawn from the versions the store holds.
NodesOfStoredVersions(store, anomalies) ==
    {Start}
    \cup {<<"E", e>> : e \in store.evidence}
    \cup {<<"H", h>> : h \in store.hypotheses}
    \cup {<<"P", p.id>> : p \in store.predictions}
    \cup {<<"Q", q.id>> : q \in store.inquiries}
    \cup {<<"A", a.id>> : a \in anomalies}
    \cup {Version(v) : v \in store.versions}

\* The spine is read off the ledger; the rest is what the stores list.
GraphNodes(store, anomalies) ==
    {Start}
    \cup {Version(event.to) : event \in store.ledger}
    \cup {<<"E", e>> : e \in store.evidence}
    \cup {<<"H", h>> : h \in store.hypotheses}
    \cup {<<"P", p.id>> : p \in store.predictions}
    \cup {<<"Q", q.id>> : q \in store.inquiries}
    \cup {<<"A", a.id>> : a \in anomalies}

Supporting == {"strengthen", "hypothesize"}

\* The version an anomaly drove, if an event of the ledger names it.
Drove(store, a) ==
    {event.to : event \in {x \in store.ledger : x.anomaly = a.id}}

GraphEdges(store, anomalies) ==
    LET events == store.ledger
    IN  {<<Version(x.from), Version(x.to), "solid">> : x \in events}
        \cup (UNION {{<<<<"E", e>>, <<"H", x.affected>>,
                       IF x.outcome \in Supporting THEN "solid" ELSE "dashed">> :
                        e \in x.evidence} : x \in events})
        \cup {<<<<"H", p.from>>, <<"P", p.id>>, "solid">> : p \in store.predictions}
        \cup {<<Version(q.raisedBy), <<"Q", q.id>>, "solid">> :
                q \in {i \in store.inquiries : i.raisedBy # 0}}
        \cup {<<<<"A", a.id>>, <<"E", a.evidence>>, "dashed">> : a \in anomalies}
        \cup (UNION {{<<<<"A", a.id>>, Version(v), "solid">> : v \in Drove(store, a)} :
                       a \in anomalies})

\* No edge leads to or from a node that is not drawn.
Closed(store, anomalies) ==
    LET nodes == GraphNodes(store, anomalies)
    IN  \A edge \in GraphEdges(store, anomalies) : {edge[1], edge[2]} \subseteq nodes
=============================================================================
