---------------------------- MODULE JobLifecycle ----------------------------
(***************************************************************************)
(* What the serve-engine's job runner promises the reader of a job row     *)
(* (the header of services/jobs.py): a job is queued, then running, then   *)
(* in one terminal state, and it stays in that state.  A job may end       *)
(* without running (cancelled while queued), and a restart of the process  *)
(* ends every unfinished job at once.  Module Jobs implements this         *)
(* specification.                                                          *)
(***************************************************************************)
CONSTANT Job        \* the job ids

VARIABLE status     \* status[j]: what GET /jobs/{j} answers, "none" if 404

Unfinished == {"queued", "running"}
Terminal == {"completed", "failed", "cancelled"}
Status == {"none"} \cup Unfinished \cup Terminal

Init == status = [j \in Job |-> "none"]

Accept(j) == /\ status[j] = "none"
             /\ status' = [status EXCEPT ![j] = "queued"]

Begin(j) == /\ status[j] = "queued"
            /\ status' = [status EXCEPT ![j] = "running"]

End(j) == /\ status[j] \in Unfinished
          /\ \E t \in Terminal : status' = [status EXCEPT ![j] = t]

\* The process restarted: no unfinished job has a runner any more.
Interrupt ==
  status' = [j \in Job |-> IF status[j] \in Unfinished THEN "failed" ELSE status[j]]

Next == Interrupt \/ \E j \in Job : Accept(j) \/ Begin(j) \/ End(j)

Safety == Init /\ [][Next]_status
Spec == Safety /\ \A j \in Job : WF_status(End(j))
=============================================================================
