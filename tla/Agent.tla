------------------------------- MODULE Agent --------------------------------
(***************************************************************************)
(* The agent, cmd/agent/main.go: two goroutines collect metrics            *)
(* (internal/agent/collector.go, gopsutil_collector.go), a third builds a  *)
(* report (build_metrics.go) and submits it to the worker pool; on a signal*)
(* main waits for the three, submits a last report and stops the pool.     *)
(*                                                                         *)
(* The gauges of a collector are represented by the number of the          *)
(* collection they come from: every collection replaces them under the     *)
(* collector's lock. The gauges of the CPUs, which a failed collection of  *)
(* gopsutil leaves behind the memory gauges, are left out.                 *)
(***************************************************************************)
EXTENDS WorkerPool

CONSTANTS
    Reporter, \* the goroutine of the report ticker
    Main,     \* the main goroutine
    MaxPolls  \* bound: collections of each collector

ASSUME AgentAssumption ==
    Reporter # Main /\ Submitters = {Reporter, Main} /\ Stoppers = {Main}
ASSUME MaxPollsAssumption == MaxPolls \in Nat \ {0}

VARIABLES
    cancelled, \* ctx of signal.NotifyContext is done
    loops,     \* goroutines that have not left their loop
    polls,     \* pollCount, and the collection the runtime gauges come from
    sysPolls,  \* the collection gopsutil's memory gauges come from
    building,  \* what the reporter does: "none", or the argument it reads next
    draft,     \* the report it builds
    mainPc,    \* where main is
    contents   \* history: what was submitted

agentVars == <<cancelled, loops, polls, sysPolls, building, draft, mainPc, contents>>
poolVars == <<queue, lockVars, submitVars, workerVars, stopVars>>
allVars == <<poolVars, agentVars>>

Loops == {"runtime", "gopsutil", "reporter"}
Report == [runtime : 0..MaxPolls, system : 0..MaxPolls, pollCount : 0..MaxPolls]
NoReport == [runtime |-> 0, system |-> 0, pollCount |-> 0]

\* Main has collected once and started the pool and the three goroutines; the
\* first collection of gopsutil may have failed.
AgentInit ==
    /\ Init
    /\ cancelled = FALSE
    /\ loops = Loops
    /\ polls = 1 /\ sysPolls \in {0, 1}
    /\ building = "none" /\ draft = NoReport
    /\ mainPc = "running"
    /\ contents = [t \in Task |-> NoReport]

-----------------------------------------------------------------------------
(* The collectors *)

Collect ==
    /\ "runtime" \in loops
    /\ polls < MaxPolls
    /\ polls' = polls + 1
    /\ UNCHANGED <<poolVars, cancelled, loops, sysPolls, building, draft, mainPc, contents>>

\* An error before the first value changes nothing and is only logged.
CollectSystem ==
    /\ "gopsutil" \in loops
    /\ sysPolls < MaxPolls
    /\ sysPolls' = sysPolls + 1
    /\ UNCHANGED <<poolVars, cancelled, loops, polls, building, draft, mainPc, contents>>

\* The select of a loop picks ctx.Done; a tick that is ready may come first.
LeaveLoop(l) ==
    /\ cancelled
    /\ l \in loops
    /\ l = "reporter" => building = "none"
    /\ loops' = loops \ {l}
    /\ UNCHANGED <<poolVars, cancelled, polls, sysPolls, building, draft, mainPc, contents>>

-----------------------------------------------------------------------------
(* The reporter: three reads, each under a lock of its own, then Submit *)

ReportTick ==
    /\ "reporter" \in loops
    /\ building = "none"
    /\ calls[Reporter] < MaxTasks
    /\ building' = "runtime"
    /\ UNCHANGED <<poolVars, cancelled, loops, polls, sysPolls, draft, mainPc, contents>>

\* The count is read before the gauges.
Read_CountFirst ==
    \/ building = "runtime" /\ draft' = [draft EXCEPT !.pollCount = polls] /\ building' = "system"
    \/ building = "system" /\ draft' = [draft EXCEPT !.system = sysPolls] /\ building' = "pollCount"
    \/ building = "pollCount" /\ draft' = [draft EXCEPT !.runtime = polls] /\ building' = "submit"

Read ==
    \/ building = "runtime" /\ draft' = [draft EXCEPT !.runtime = polls] /\ building' = "system"
    \/ building = "system" /\ draft' = [draft EXCEPT !.system = sysPolls] /\ building' = "pollCount"
    \/ building = "pollCount" /\ draft' = [draft EXCEPT !.pollCount = polls] /\ building' = "submit"

ReadArgument ==
    /\ Read
    /\ UNCHANGED <<poolVars, cancelled, loops, polls, sysPolls, mainPc, contents>>

Submitted(s, r) ==
    /\ SubmitCall(s)
    /\ contents' = [contents EXCEPT ![<<s, calls'[s]>>] = r]

ReportSubmit ==
    /\ building = "submit"
    /\ Submitted(Reporter, draft)
    /\ building' = "submitting"
    /\ UNCHANGED <<cancelled, loops, polls, sysPolls, draft, mainPc>>

\* Submit has returned; the next select.
ReportDone ==
    /\ building = "submitting"
    /\ submitPc[Reporter] = "idle"
    /\ building' = "none"
    /\ draft' = NoReport
    /\ UNCHANGED <<poolVars, cancelled, loops, polls, sysPolls, mainPc, contents>>

-----------------------------------------------------------------------------
(* Shutdown *)

Signal ==
    /\ ~cancelled
    /\ cancelled' = TRUE
    /\ UNCHANGED <<poolVars, loops, polls, sysPolls, building, draft, mainPc, contents>>

\* Main does not wait for the goroutines, or only for the collectors.
LoopsLeft_NoWait == TRUE
LoopsLeft_NoCollectors == "reporter" \notin loops

LoopsLeft == loops = {}

\* wg.Wait has returned: nobody collects any more, so the three reads of the
\* last report are one step with its Submit.
FinalReport ==
    /\ mainPc = "running"
    /\ cancelled
    /\ LoopsLeft
    /\ Submitted(Main, [runtime |-> polls, system |-> sysPolls, pollCount |-> polls])
    /\ mainPc' = "submitting"
    /\ UNCHANGED <<cancelled, loops, polls, sysPolls, building, draft>>

StopPool ==
    /\ mainPc = "submitting"
    /\ submitPc[Main] = "idle"
    /\ StopCall(Main)
    /\ mainPc' = "stopping"
    /\ UNCHANGED <<cancelled, loops, polls, sysPolls, building, draft, contents>>

Exit ==
    /\ mainPc = "stopping"
    /\ stopPc[Main] = "returned"
    /\ mainPc' = "exited"
    /\ UNCHANGED <<poolVars, cancelled, loops, polls, sysPolls, building, draft, contents>>

-----------------------------------------------------------------------------
PoolStep ==
    /\ \/ \E s \in Submitters : SubmitStep(s)
       \/ \E w \in Workers : WorkerStep(w)
       \/ StopStep(Main)
    /\ UNCHANGED agentVars

ReporterStep == ReadArgument \/ ReportSubmit \/ ReportDone
MainStep == FinalReport \/ StopPool \/ Exit

AgentNext ==
    \/ Collect \/ CollectSystem \/ ReportTick
    \/ \E l \in Loops : LeaveLoop(l)
    \/ ReporterStep
    \/ Signal
    \/ MainStep
    \/ PoolStep

AgentSpec == AgentInit /\ [][AgentNext]_allVars

\* Goroutines that can run are run. A select that finds a tick and ctx.Done ready
\* again and again picks ctx.Done at some time: strong fairness. Ticks and the
\* signal come or not.
AgentFairness ==
    /\ WF_allVars(ReporterStep) /\ WF_allVars(MainStep)
    /\ \A l \in Loops : SF_allVars(LeaveLoop(l))
    /\ \A s \in Submitters : WF_allVars(SubmitStep(s) /\ UNCHANGED agentVars)
    /\ \A w \in Workers : WF_allVars(WorkerStep(w) /\ UNCHANGED agentVars)
    /\ WF_allVars(StopStep(Main) /\ UNCHANGED agentVars)

AgentFairSpec == AgentSpec /\ AgentFairness

-----------------------------------------------------------------------------
(* Properties *)

AgentTypeOK ==
    /\ TypeOK
    /\ cancelled \in BOOLEAN /\ loops \subseteq Loops
    /\ polls \in 1..MaxPolls /\ sysPolls \in 0..MaxPolls
    /\ building \in {"none", "runtime", "system", "pollCount", "submit", "submitting"}
    /\ draft \in Report
    /\ mainPc \in {"running", "submitting", "stopping", "exited"}
    /\ contents \in [Task -> Report]

\* When the agent has exited, no report was refused by the pool, and all have
\* been handled: also one whose Submit was blocked when the signal came.
NoReportDropped ==
    mainPc = "exited" =>
        \A s \in Submitters : \A n \in 1..calls[s] : <<s, n>> \in handled

\* The last report holds everything the collectors have collected.
LastReportComplete ==
    mainPc = "exited" =>
        contents[<<Main, 1>>] = [runtime |-> polls, system |-> sysPolls, pollCount |-> polls]

\* A report's count is never behind its gauges, and no report is older than the
\* one submitted before it.
ReportsGoForward ==
    /\ \A t \in accepted : contents[t].runtime <= contents[t].pollCount
    /\ \A n \in 2..calls[Reporter] :
         LET a == contents[<<Reporter, n - 1>>]
             b == contents[<<Reporter, n>>]
         IN  a.pollCount <= b.runtime /\ a.system <= b.system

\* After a signal the agent exits, full queue or not.
AgentExits == cancelled ~> mainPc = "exited"
=============================================================================
