---------------------------- MODULE AtomicScript ----------------------------
(***************************************************************************)
(* What --single-transaction promises of a script (README: "all-or-        *)
(* nothing"; run_source: "rollback on any error"): its writes become       *)
(* durable in one step or never, nothing is written after that step, and   *)
(* the run reports success only when they did.  A run that fails, or that  *)
(* is killed, may have taken that step or not.                             *)
(***************************************************************************)
EXTENDS Naturals

VARIABLES
    written,    \* writes the server accepted
    committed,  \* writes that are durable
    verdict     \* "running", then "ok", "error" or "gone"

Init == written = 0 /\ committed = 0 /\ verdict = "running"

Write ==
    /\ verdict = "running" /\ committed = 0
    /\ written' = written + 1
    /\ UNCHANGED <<committed, verdict>>

Commit ==
    /\ verdict = "running"
    /\ committed' = written
    /\ UNCHANGED <<written, verdict>>

Succeed ==
    /\ verdict = "running" /\ committed = written
    /\ verdict' = "ok"
    /\ UNCHANGED <<written, committed>>

Fail ==
    /\ verdict = "running"
    /\ verdict' \in {"error", "gone"}
    /\ UNCHANGED <<written, committed>>

Next == Write \/ Commit \/ Succeed \/ Fail

Spec == Init /\ [][Next]_<<written, committed, verdict>>
=============================================================================
