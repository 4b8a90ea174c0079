------------------------------- MODULE MCJobs -------------------------------
(***************************************************************************)
(* Model-checking instance for what must eventually happen: the job queue, *)
(* and feed polling, which is one kind of job.  A behaviour is one of      *)
(* either; the fairness of a part is that of its actions while the         *)
(* behaviour is about it, and holds of the other by default.               *)
(***************************************************************************)
EXTENDS Outbox, FeedPolling

VARIABLE part  \* the component this behaviour is about

jobsVars == <<vars, pollVars, part>>

JobsInit ==
    /\ part \in {"outbox", "polling"}
    /\ Init /\ PollingInit

OfOutbox(A) == part = "outbox" /\ A /\ UNCHANGED <<pollVars, part>>
OfPolling(A) == part = "polling" /\ A /\ UNCHANGED <<vars, part>>

JobsNext == OfOutbox(Next) \/ OfPolling(PollingNext)

\* Fairness and PollingFair, each for the behaviours that are about the part.
JobsFair ==
    /\ \A w \in Workers : WF_jobsVars(OfOutbox(WorkerStep(w)))
    /\ WF_jobsVars(OfOutbox(Tick))
    /\ WF_jobsVars(OfPolling(NextInterval)) /\ WF_jobsVars(OfPolling(ScheduledEnqueue))
    /\ \A p \in Pollers : WF_jobsVars(OfPolling(RunStep(p)))

JobsSpec == JobsInit /\ [][JobsNext]_jobsVars /\ JobsFair
=============================================================================
