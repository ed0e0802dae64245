---------------------------- MODULE ProjectSchedule ----------------------------
(***************************************************************************)
(* A project's tasks with their forecasts, the dependencies between them,  *)
(* its planning records, and the baseline candidates frozen from all of    *)
(* these for review.                                                       *)
(*                                                                         *)
(* A command is one step: it runs under the organisation's row lock and    *)
(* re-reads what it decides on (DurableProjectCommand).  Expected versions *)
(* other than the current ones are refused, which changes nothing.  Work   *)
(* packages are created active and nothing closes them, so that the checks *)
(* that a package is active always pass.                                   *)
(***************************************************************************)
EXTENDS Naturals, Sequences, FiniteSets, NoValue

CONSTANTS
  Tasks,            \* identifiers of task_instances
  Plans,            \* identifiers of calendars and milestones
  Planners,         \* clients that preview and capture
  MaxDependencies,  \* limit of active dependencies, 1000 in the code
  MaxChanges,       \* bound: commands that change the schedule
  MaxCandidates     \* bound: candidates captured

Rows == [version: Nat \ {0}, forecast: Nat, open: BOOLEAN]

ASSUME ScheduleAssumption ==
  MaxDependencies \in Nat /\ MaxChanges \in Nat /\ None \notin Rows

VARIABLES
  task,        \* task_instances: row and forecast version, whether open
  dependency,  \* dependency_edges, by number
  plan,        \* row_version of each planning record, 0 before its creation
  candidates,  \* baseline candidates: their source, and history of the capture
  preview,     \* the source each planner has loaded for review
  changes      \* number of commands that changed the schedule

scheduleVars == <<task, dependency, plan, candidates, preview, changes>>

-----------------------------------------------------------------------------
Existing == {t \in Tasks : task[t] # None}

Active == {i \in DOMAIN dependency : ~dependency[i].archived}

Edges == {<<dependency[i].from, dependency[i].to>> : i \in Active}

ClosedUnder(edges, S) == \A e \in edges : e[1] \in S => e[2] \in S

Reaches(edges, from, to) ==
  \A S \in SUBSET Tasks : from \in S /\ ClosedUnder(edges, S) => to \in S

\* Broken variant: only the opposite dependency is looked for.
OppositeExists(edges, predecessor, successor) == <<successor, predecessor>> \in edges

\* A traversal from the successor meets the predecessor.
WouldCreateScheduleCycle(edges, predecessor, successor) ==
  Reaches(edges, successor, predecessor)

\* Broken variant: planning records are left out.
SourceWithoutPlanning ==
  [tasks |-> [t \in Existing |-> task[t]],
   dependencies |-> {[id |-> i, edge |-> dependency[i]] : i \in Active}]

\* What a preview shows and a candidate freezes, whole or not at all.
CaptureSource ==
  [tasks |-> [t \in Existing |-> task[t]],
   dependencies |-> {[id |-> i, edge |-> dependency[i]] : i \in Active},
   planning |-> [p \in {q \in Plans : plan[q] > 0} |-> plan[p]]]

\* History: which versions and which dependencies there are.
Now == <<task, plan, Active>>

-----------------------------------------------------------------------------
Changed ==
  /\ changes < MaxChanges
  /\ changes' = changes + 1

CreateTask(t) ==
  /\ Changed
  /\ task[t] = None
  /\ task' = [task EXCEPT ![t] = [version |-> 1, forecast |-> 0, open |-> TRUE]]
  /\ UNCHANGED <<dependency, plan, candidates, preview>>

CompleteTask(t) ==
  /\ Changed
  /\ t \in Existing /\ task[t].open
  /\ task' = [task EXCEPT ![t] =
                [version |-> @.version + 1, forecast |-> @.forecast, open |-> FALSE]]
  /\ UNCHANGED <<dependency, plan, candidates, preview>>

Forecast(t) ==
  /\ Changed
  /\ t \in Existing /\ task[t].open
  /\ task' = [task EXCEPT ![t] =
                [version |-> @.version + 1, forecast |-> @.forecast + 1, open |-> TRUE]]
  /\ UNCHANGED <<dependency, plan, candidates, preview>>

\* Broken variant: the predecessor is not looked for.
AddAfterAny(a, b) ==
  /\ Changed
  /\ a # b /\ b \in Existing
  /\ task[b].open
  /\ Cardinality(Active) < MaxDependencies
  /\ <<a, b>> \notin Edges
  /\ ~WouldCreateScheduleCycle(Edges, a, b)
  /\ dependency' = Append(dependency, [from |-> a, to |-> b, archived |-> FALSE])
  /\ UNCHANGED <<task, plan, candidates, preview>>

\* The successor must be open; the predecessor may be completed.
AddDependency(a, b) ==
  /\ Changed
  /\ a # b /\ {a, b} \subseteq Existing
  /\ task[b].open
  /\ Cardinality(Active) < MaxDependencies
  /\ <<a, b>> \notin Edges
  /\ ~WouldCreateScheduleCycle(Edges, a, b)
  /\ dependency' = Append(dependency, [from |-> a, to |-> b, archived |-> FALSE])
  /\ UNCHANGED <<task, plan, candidates, preview>>

ArchiveDependency(i) ==
  /\ Changed
  /\ i \in Active
  /\ dependency' = [dependency EXCEPT ![i].archived = TRUE]
  /\ UNCHANGED <<task, plan, candidates, preview>>

CreatePlan(p) ==
  /\ Changed
  /\ plan[p] = 0
  /\ plan' = [plan EXCEPT ![p] = 1]
  /\ UNCHANGED <<task, dependency, candidates, preview>>

RevisePlan(p) ==
  /\ Changed
  /\ plan[p] > 0
  /\ plan' = [plan EXCEPT ![p] = @ + 1]
  /\ UNCHANGED <<task, dependency, candidates, preview>>

Preview(c) ==
  /\ preview' = [preview EXCEPT ![c] = [source |-> CaptureSource, at |-> Now]]
  /\ UNCHANGED <<task, dependency, plan, candidates, changes>>

\* Broken variant: what was reviewed is not compared.
CaptureUnreviewed(c) ==
  /\ preview[c] # None
  /\ Cardinality(candidates) < MaxCandidates
  /\ Existing # {}
  /\ candidates' = candidates \cup {[source |-> CaptureSource, reviewed |-> preview[c].at,
                                     at |-> Now, n |-> Cardinality(candidates)]}
  /\ UNCHANGED <<task, dependency, plan, preview, changes>>

\* The source must have the fingerprint of the one reviewed.
Capture(c) ==
  /\ preview[c] # None
  /\ Cardinality(candidates) < MaxCandidates
  /\ CaptureSource = preview[c].source
  /\ Existing # {}
  /\ candidates' = candidates \cup {[source |-> CaptureSource, reviewed |-> preview[c].at,
                                     at |-> Now, n |-> Cardinality(candidates)]}
  /\ UNCHANGED <<task, dependency, plan, preview, changes>>

\* The comparison shown of a candidate and the project today.
SourceChanged(k) == k.source # CaptureSource

ScheduleInit ==
  /\ task = [t \in Tasks |-> None]
  /\ dependency = <<>>
  /\ plan = [p \in Plans |-> 0]
  /\ candidates = {}
  /\ preview = [c \in Planners |-> None]
  /\ changes = 0

ScheduleNext ==
  \/ \E t \in Tasks : CreateTask(t) \/ CompleteTask(t) \/ Forecast(t)
  \/ \E a, b \in Tasks : AddDependency(a, b)
  \/ \E i \in DOMAIN dependency : ArchiveDependency(i)
  \/ \E p \in Plans : CreatePlan(p) \/ RevisePlan(p)
  \/ \E c \in Planners : Preview(c) \/ Capture(c)

ScheduleSpec == ScheduleInit /\ [][ScheduleNext]_scheduleVars

-----------------------------------------------------------------------------
(* Properties. *)

\* Tasks, dependencies between existing tasks, and planning records; no more
\* active dependencies than the register supports.
ScheduleTypeOK ==
  /\ task \in [Tasks -> Rows \cup {None}]
  /\ dependency \in Seq([from: Existing, to: Existing, archived: BOOLEAN])
  /\ Cardinality(Active) <= MaxDependencies
  /\ plan \in [Plans -> Nat]
  /\ changes \in 0..MaxChanges

\* The active dependencies have no cycle: some task of every set waits for none
\* of the set, whoever added or archived dependencies in whatever order.
Acyclic ==
  \A S \in (SUBSET Tasks) \ {{}} :
    \E t \in S : \A e \in Edges : e[2] = t => e[1] \notin S

\* A candidate is the schedule its author reviewed, whatever was changed between,
\* and its comparison reports a change exactly if a task, a planning record or the
\* set of active dependencies is another than at the capture.
CandidateAsReviewed ==
  \A k \in candidates :
    /\ k.at = k.reviewed
    /\ SourceChanged(k) <=> Now # k.at

=============================================================================
