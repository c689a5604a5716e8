----------------------------- MODULE MCFlowRuns -----------------------------
(***************************************************************************)
(* A small instance of FlowRuns for TLC: a definition with every node      *)
(* type, one that ends without an exit node, and one that goes round in    *)
(* circles until the contact is in the segment.                            *)
(***************************************************************************)
EXTENDS FlowRuns

CONSTANT r1

Edge(source, target, handle) == [source |-> source, target |-> target, handle |-> handle]

Welcome ==
    [type   |-> [trigger |-> "trigger", wait |-> "delay", ask |-> "branch", mail |-> "send", bye |-> "exit"],
     edges  |-> <<Edge("trigger", "wait", ""), Edge("wait", "ask", ""), Edge("ask", "bye", "no"),
                  Edge("ask", "mail", "yes"), Edge("mail", "bye", "")>>,
     filled |-> {"mail"}]

Reminder ==
    [type   |-> [trigger |-> "trigger", mail |-> "send", wait |-> "delay"],
     edges  |-> <<Edge("trigger", "mail", ""), Edge("mail", "wait", "")>>,
     filled |-> {"mail"}]

Circle ==
    [type   |-> [trigger |-> "trigger", mail |-> "send", ask |-> "branch", bye |-> "exit"],
     edges  |-> <<Edge("trigger", "mail", ""), Edge("mail", "ask", ""),
                  Edge("ask", "mail", "no"), Edge("ask", "bye", "yes")>>,
     filled |-> {"mail"}]

MCNode == {"trigger", "mail", "wait", "ask", "bye"}
MCDefinitions == {Welcome, Reminder, Circle}
=============================================================================
