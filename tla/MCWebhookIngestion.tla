------------------------- MODULE MCWebhookIngestion -------------------------
(***************************************************************************)
(* Small instances of WebhookIngestion for TLC: one contact with a         *)
(* campaign send and a flow send, and batches that repeat an event, carry  *)
(* two terminals of one send, arrive late, or name sends from elsewhere.   *)
(***************************************************************************)
EXTENDS WebhookIngestion

CONSTANTS s1, s2, c1

MCContactOf == [s \in {s1, s2} |-> c1]

Ev(name, type, s, d) ==
    [event |-> name, type |-> type, send |-> s, at |-> d, test |-> FALSE, hasId |-> TRUE]

MCBatches == {
    <<Ev("delivered", "", s1, 1), Ev("open", "", s1, 1), Ev("open", "", s1, 1),
      Ev("bounce", "blocked", s2, 1), Ev("deferred", "", s1, 1), Ev("delivered", "", s2, Null),
      Ev("open", "", "sibling", 1), Ev("open", "", "ghost", 1),
      [Ev("open", "", s2, 1) EXCEPT !.test = TRUE], [Ev("open", "", s2, 1) EXCEPT !.hasId = FALSE]>>,
    <<Ev("open", "", s1, 1), Ev("click", "", s1, 1), Ev("dropped", "Unsubscribed Address", s1, 1),
      Ev("spamreport", "", s1, 1), Ev("bounce", "blocked", s2, 1), Ev("group_unsubscribe", "", s2, 1)>>}

=============================================================================
