-------------------------- MODULE SendStateMachine --------------------------
(***************************************************************************)
(* What the ledger promises about one send intent, whoever runs and        *)
(* whatever crashes: SEND_STATUS_TRANSITIONS of send-state-machine.ts, the *)
(* executable mirror of the writer matrix in ARCHITECTURE.md section 9,    *)
(* with its two entry points (a claim, an exclusion) and the one way back  *)
(* (a claim released before SendGrid accepted anything).                   *)
(***************************************************************************)
CONSTANT Intent

VARIABLE status      \* [Intent -> the status of the intent's row, or "none"]

\* SEND_STATUS_TRANSITIONS: the statuses each status may be left for.
AllowedFrom(from) ==
    CASE from = "dispatching" -> {"sent", "failed", "reconciling"}
      [] from = "reconciling" -> {"sent", "unknown"}
      [] from = "unknown"     -> {"sent"}
      [] OTHER                -> {}

Init == status = [i \in Intent |-> "none"]

\* [*] -> dispatching and [*] -> excluded.
Enter(i) ==
    /\ status[i] = "none"
    /\ \E s \in {"dispatching", "excluded"} : status' = [status EXCEPT ![i] = s]

\* releaseDispatchClaim deletes a claim that is still dispatching.
Release(i) ==
    /\ status[i] = "dispatching"
    /\ status' = [status EXCEPT ![i] = "none"]

Transition(i) ==
    \E to \in AllowedFrom(status[i]) : status' = [status EXCEPT ![i] = to]

Next == \E i \in Intent : Enter(i) \/ Release(i) \/ Transition(i)

Spec == Init /\ [][Next]_status
=============================================================================
