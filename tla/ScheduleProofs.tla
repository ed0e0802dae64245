---------------------------- MODULE ScheduleProofs ----------------------------
(***************************************************************************)
(* The schedule keeps its type, its active dependencies never form a       *)
(* cycle, and a candidate is what its author reviewed, for any tasks and   *)
(* any limits.                                                             *)
(*                                                                         *)
(* Acyclic is inductive.  A dependency from a to b is added only if a      *)
(* traversal from b does not meet a: some set of tasks holds b, is closed  *)
(* under the dependencies and does not hold a.  Of a set of tasks, either  *)
(* a part lies outside that closed set, and the first task of that part    *)
(* waits for nothing in the whole set; or all lies within, and the new     *)
(* dependency starts outside of it.                                        *)
(***************************************************************************)
EXTENDS ProjectSchedule, FiniteSetTheorems, SequenceTheorems, WellFoundedInduction, TLAPS

-----------------------------------------------------------------------------
(* What actions do to the dependencies. *)

Dependency(S) == [from: S, to: S, archived: BOOLEAN]

\* The active dependencies are finitely many, being positions in a sequence.
LEMMA ActiveFinite ==
  ASSUME NEW S, dependency \in Seq(Dependency(S))
  PROVE  IsFiniteSet(Active) /\ Active \subseteq 1..Len(dependency)
<1>1. DOMAIN dependency = 1..Len(dependency) /\ Len(dependency) \in Nat
  BY DEF Dependency
<1>2. Active \subseteq 1..Len(dependency)
  BY <1>1 DEF Active
<1>3. IsFiniteSet(1..Len(dependency))
  BY <1>1, FS_Interval
<1> QED
  BY <1>2, <1>3, FS_Subset

\* Adding a dependency adds its position and its edge.
LEMMA AddedEdge ==
  ASSUME NEW S, dependency \in Seq(Dependency(S)), NEW a, NEW b,
         dependency' = Append(dependency, [from |-> a, to |-> b, archived |-> FALSE])
  PROVE  /\ Active' = Active \cup {Len(dependency) + 1}
         /\ Edges' = Edges \cup {<<a, b>>}
<1> DEFINE n == Len(dependency) + 1
           new == [from |-> a, to |-> b, archived |-> FALSE]
<1>1. Len(dependency) \in Nat /\ DOMAIN dependency = 1..Len(dependency)
  OBVIOUS
<1>2. DOMAIN dependency' = 1..n /\ dependency'[n] = new
      /\ \A i \in 1..Len(dependency) : dependency'[i] = dependency[i]
  BY <1>1
<1>3. 1..n = (1..Len(dependency)) \cup {n} /\ n \notin 1..Len(dependency)
  BY <1>1
<1>4. Active' = Active \cup {n}
  BY <1>1, <1>2, <1>3 DEF Active
<1>5. Active \subseteq 1..Len(dependency)
  BY <1>1 DEF Active
<1>6. Edges' = {<<dependency'[i].from, dependency'[i].to>> : i \in Active \cup {n}}
  BY <1>4 DEF Edges
<1>7. ASSUME NEW i \in Active PROVE dependency'[i] = dependency[i]
  BY <1>2, <1>5
<1>8. <<dependency'[n].from, dependency'[n].to>> = <<a, b>>
  BY <1>2
<1>9. Edges' = Edges \cup {<<a, b>>}
  BY <1>6, <1>7, <1>8 DEF Edges
<1> QED
  BY <1>4, <1>9

\* Archiving a dependency takes its position away, and adds no edge.
LEMMA ArchivedEdge ==
  ASSUME NEW S, dependency \in Seq(Dependency(S)), NEW i \in Active,
         dependency' = [dependency EXCEPT ![i].archived = TRUE]
  PROVE  /\ dependency' \in Seq(Dependency(S))
         /\ Active' = Active \ {i}
         /\ Edges' \subseteq Edges
<1>1. i \in 1..Len(dependency) /\ Len(dependency) \in Nat
  BY ActiveFinite
<1>2. dependency[i] \in Dependency(S)
  BY <1>1
<1> DEFINE e == [dependency[i] EXCEPT !.archived = TRUE]
<1>3. dependency' \in Seq(Dependency(S))
  <2>1. e \in Dependency(S)
    BY <1>2 DEF Dependency
  <2>2. dependency' = [dependency EXCEPT ![i] = e]
    OBVIOUS
  <2> QED
    BY <1>1, <2>1, <2>2, ExceptSeq
<1>4. DOMAIN dependency' = DOMAIN dependency
  OBVIOUS
<1>5. dependency'[i].archived = TRUE
  BY <1>1, <1>2 DEF Dependency
<1>6. \A j \in DOMAIN dependency : j # i => dependency'[j] = dependency[j]
  OBVIOUS
<1>7. Active' = Active \ {i}
  BY <1>4, <1>5, <1>6 DEF Active
<1>8. Edges' \subseteq Edges
  BY <1>6, <1>7 DEF Edges, Active
<1> QED
  BY <1>3, <1>7, <1>8

-----------------------------------------------------------------------------
(* Types. *)

\* Tasks that exist go on existing, so that dependencies keep their ends.
LEMMA EndsRemain ==
  ASSUME NEW S, NEW T, S \subseteq T, NEW s \in Seq(Dependency(S))
  PROVE  s \in Seq(Dependency(T))
<1>1. Dependency(S) \subseteq Dependency(T)
  BY DEF Dependency
<1>2. Len(s) \in Nat /\ s \in [1..Len(s) -> Dependency(T)]
  BY <1>1
<1> QED
  BY <1>2, SeqDef

LEMMA InitialTypes == ScheduleInit => ScheduleTypeOK
<1> SUFFICES ASSUME ScheduleInit PROVE ScheduleTypeOK
  OBVIOUS
<1>1. Active = {} /\ Cardinality(Active) = 0
  BY FS_EmptySet DEF ScheduleInit, Active
<1> QED
  BY <1>1, ScheduleAssumption DEF ScheduleInit, ScheduleTypeOK

\* A change is counted within its bound.
LEMMA ChangeCounted ==
  ASSUME changes \in 0..MaxChanges, Changed
  PROVE  changes' \in 0..MaxChanges
  BY ScheduleAssumption DEF Changed

\* A task that is written anew is a row, and no task is given up.
LEMMA TaskWritten ==
  ASSUME ScheduleTypeOK, NEW t \in Tasks, NEW row \in Rows, task' = [task EXCEPT ![t] = row]
  PROVE  task' \in [Tasks -> Rows \cup {None}] /\ Existing \subseteq Existing'
  BY ScheduleAssumption DEF ScheduleTypeOK, Existing

\* A step that leaves the dependencies alone and gives up no task keeps their type.
LEMMA DependenciesKept ==
  ASSUME ScheduleTypeOK, Existing \subseteq Existing', UNCHANGED dependency
  PROVE  /\ dependency' \in Seq([from: Existing', to: Existing', archived: BOOLEAN])
         /\ Cardinality(Active') <= MaxDependencies
<1>1. dependency \in Seq(Dependency(Existing'))
  BY EndsRemain DEF ScheduleTypeOK, Dependency
<1>2. Active' = Active
  BY DEF Active
<1> QED
  BY <1>1, <1>2 DEF ScheduleTypeOK, Dependency

LEMMA NextTypes ==
  ASSUME ScheduleTypeOK, [ScheduleNext]_scheduleVars
  PROVE  ScheduleTypeOK'
<1> USE ScheduleAssumption
<1>1. ASSUME NEW t \in Tasks, CreateTask(t) PROVE ScheduleTypeOK'
  <2>1. [version |-> 1, forecast |-> 0, open |-> TRUE] \in Rows
    BY DEF Rows
  <2>2. task' \in [Tasks -> Rows \cup {None}] /\ Existing \subseteq Existing'
    BY <1>1, <2>1, TaskWritten DEF CreateTask
  <2> QED
    BY <1>1, <2>2, DependenciesKept, ChangeCounted DEF CreateTask, ScheduleTypeOK
<1>2. ASSUME NEW t \in Tasks, CompleteTask(t) PROVE ScheduleTypeOK'
  <2> DEFINE row == [version |-> task[t].version + 1, forecast |-> task[t].forecast, open |-> FALSE]
  <2>1. task[t] \in Rows
    BY <1>2 DEF CompleteTask, ScheduleTypeOK, Existing
  <2>2. row \in Rows
    BY <2>1 DEF Rows
  <2>3. task' = [task EXCEPT ![t] = row]
    BY <1>2 DEF CompleteTask
  <2>4. task' \in [Tasks -> Rows \cup {None}] /\ Existing \subseteq Existing'
    BY <2>2, <2>3, TaskWritten
  <2> QED
    BY <1>2, <2>4, DependenciesKept, ChangeCounted DEF CompleteTask, ScheduleTypeOK
<1>3. ASSUME NEW t \in Tasks, Forecast(t) PROVE ScheduleTypeOK'
  <2> DEFINE row == [version |-> task[t].version + 1, forecast |-> task[t].forecast + 1, open |-> TRUE]
  <2>1. task[t] \in Rows
    BY <1>3 DEF Forecast, ScheduleTypeOK, Existing
  <2>2. row \in Rows
    BY <2>1 DEF Rows
  <2>3. task' = [task EXCEPT ![t] = row]
    BY <1>3 DEF Forecast
  <2>4. task' \in [Tasks -> Rows \cup {None}] /\ Existing \subseteq Existing'
    BY <2>2, <2>3, TaskWritten
  <2> QED
    BY <1>3, <2>4, DependenciesKept, ChangeCounted DEF Forecast, ScheduleTypeOK
<1>4. ASSUME NEW a \in Tasks, NEW b \in Tasks, AddDependency(a, b) PROVE ScheduleTypeOK'
  <2>1. Existing' = Existing /\ {a, b} \subseteq Existing
    BY <1>4 DEF AddDependency, Existing
  <2>2. dependency' \in Seq([from: Existing', to: Existing', archived: BOOLEAN])
    BY <1>4, <2>1 DEF AddDependency, ScheduleTypeOK
  <2>3. Active' = Active \cup {Len(dependency) + 1}
    BY <1>4, AddedEdge DEF AddDependency, ScheduleTypeOK, Dependency
  <2>4. IsFiniteSet(Active) /\ Active \subseteq 1..Len(dependency)
    BY ActiveFinite DEF ScheduleTypeOK, Dependency
  <2>5. Len(dependency) + 1 \notin Active
    BY <2>4 DEF ScheduleTypeOK
  <2>6. Cardinality(Active') = Cardinality(Active) + 1 /\ Cardinality(Active) \in Nat
    BY <2>3, <2>4, <2>5, FS_AddElement, FS_CardinalityType
  <2>7. Cardinality(Active') <= MaxDependencies
    BY <1>4, <2>6 DEF AddDependency
  <2> QED
    BY <1>4, <2>2, <2>7, ChangeCounted DEF AddDependency, ScheduleTypeOK
<1>5. ASSUME NEW i \in DOMAIN dependency, ArchiveDependency(i) PROVE ScheduleTypeOK'
  <2>1. Existing' = Existing /\ i \in Active
    BY <1>5 DEF ArchiveDependency, Existing
  <2>2. dependency' \in Seq(Dependency(Existing)) /\ Active' = Active \ {i}
    BY <1>5, <2>1, ArchivedEdge DEF ArchiveDependency, ScheduleTypeOK, Dependency
  <2>3. IsFiniteSet(Active)
    BY ActiveFinite DEF ScheduleTypeOK, Dependency
  <2>4. Cardinality(Active') <= Cardinality(Active)
        /\ Cardinality(Active) \in Nat /\ Cardinality(Active') \in Nat
    BY <2>2, <2>3, FS_Subset, FS_CardinalityType
  <2>5. Cardinality(Active') <= MaxDependencies
    BY <2>4 DEF ScheduleTypeOK
  <2> QED
    BY <1>5, <2>1, <2>2, <2>5, ChangeCounted DEF ArchiveDependency, ScheduleTypeOK, Dependency
<1>6. ASSUME NEW p \in Plans, CreatePlan(p) \/ RevisePlan(p) PROVE ScheduleTypeOK'
  <2>1. Existing' = Existing /\ plan' \in [Plans -> Nat]
    BY <1>6 DEF CreatePlan, RevisePlan, Existing, ScheduleTypeOK
  <2> QED
    BY <1>6, <2>1, DependenciesKept, ChangeCounted DEF CreatePlan, RevisePlan, ScheduleTypeOK
<1>7. ASSUME UNCHANGED <<task, dependency, plan, changes>> PROVE ScheduleTypeOK'
  <2>1. Existing' = Existing
    BY <1>7 DEF Existing
  <2> QED
    BY <1>7, <2>1, DependenciesKept DEF ScheduleTypeOK
<1> QED
  BY <1>1, <1>2, <1>3, <1>4, <1>5, <1>6, <1>7
  DEF ScheduleNext, scheduleVars, Preview, Capture

\* Tasks, dependencies and planning records keep their form, dependencies their
\* ends, and their number its limit.
THEOREM ScheduleTyped == ScheduleSpec => []ScheduleTypeOK
  BY InitialTypes, NextTypes, PTL DEF ScheduleSpec

-----------------------------------------------------------------------------
(* No cycles. *)

\* A dependency may be added where a traversal from its end does not meet its start.
LEMMA AddedKeepsAcyclic ==
  ASSUME Acyclic, NEW a \in Tasks, NEW b \in Tasks,
         ~WouldCreateScheduleCycle(Edges, a, b), Edges' = Edges \cup {<<a, b>>}
  PROVE  Acyclic'
<1>1. PICK closed \in SUBSET Tasks : b \in closed /\ ClosedUnder(Edges, closed) /\ a \notin closed
  BY DEF WouldCreateScheduleCycle, Reaches
<1> SUFFICES ASSUME NEW S \in (SUBSET Tasks) \ {{}}
             PROVE  \E t \in S : \A e \in Edges \cup {<<a, b>>} : e[2] = t => e[1] \notin S
  BY DEF Acyclic
<1>2. CASE S \subseteq closed
  <2>1. PICK t \in S : \A e \in Edges : e[2] = t => e[1] \notin S
    BY DEF Acyclic
  <2>2. a \notin S
    BY <1>1, <1>2
  <2> QED
    BY <2>1, <2>2
<1>3. CASE ~(S \subseteq closed)
  <2> DEFINE outside == S \ closed
  <2>1. outside \in (SUBSET Tasks) \ {{}}
    BY <1>3
  <2>2. PICK t \in outside : \A e \in Edges : e[2] = t => e[1] \notin outside
    BY <2>1 DEF Acyclic
  <2>3. \A e \in Edges : e[2] = t => e[1] \notin closed
    BY <1>1, <2>2 DEF ClosedUnder
  <2>4. t # b
    BY <1>1, <2>2
  <2> QED
    BY <2>2, <2>3, <2>4
<1> QED
  BY <1>2, <1>3

\* Fewer dependencies have no more cycles.
LEMMA FewerKeepsAcyclic ==
  ASSUME Acyclic, Edges' \subseteq Edges
  PROVE  Acyclic'
  BY DEF Acyclic

LEMMA NextAcyclic ==
  ASSUME ScheduleTypeOK, Acyclic, [ScheduleNext]_scheduleVars
  PROVE  Acyclic'
<1>1. ASSUME NEW a \in Tasks, NEW b \in Tasks, AddDependency(a, b) PROVE Acyclic'
  <2>1. Edges' = Edges \cup {<<a, b>>}
    BY <1>1, AddedEdge DEF AddDependency, ScheduleTypeOK, Dependency
  <2> QED
    BY <1>1, <2>1, AddedKeepsAcyclic DEF AddDependency
<1>2. ASSUME NEW i \in DOMAIN dependency, ArchiveDependency(i) PROVE Acyclic'
  <2>1. Edges' \subseteq Edges
    BY <1>2, ArchivedEdge DEF ArchiveDependency, ScheduleTypeOK, Dependency
  <2> QED
    BY <2>1, FewerKeepsAcyclic
<1>3. ASSUME UNCHANGED dependency PROVE Acyclic'
  <2>1. Edges' = Edges
    BY <1>3 DEF Edges, Active
  <2> QED
    BY <2>1, FewerKeepsAcyclic
<1> QED
  BY <1>1, <1>2, <1>3
  DEF ScheduleNext, scheduleVars, CreateTask, CompleteTask, Forecast, CreatePlan, RevisePlan, Preview, Capture

\* Whatever is added and archived in whatever order, the active dependencies of a
\* project have no cycle, for any number of tasks and any limit.
THEOREM ScheduleAcyclic == ScheduleSpec => []Acyclic
<1>1. ScheduleInit => Acyclic
  BY DEF ScheduleInit, Acyclic, Edges, Active
<1> QED
  BY <1>1, InitialTypes, NextTypes, NextAcyclic, PTL DEF ScheduleSpec

-----------------------------------------------------------------------------
(* Paths.  A traversal meets what dependencies lead to, one after the other. *)

IsPath(edges, path, n) == \A i \in 0..n : i # n => <<path[i], path[i + 1]>> \in edges

\* If something becomes true on the way from 0, there is where it does first.
LEMMA FirstOnTheWay ==
  ASSUME NEW S \in SUBSET Nat, S # {}
  PROVE  \E n \in S : n = 0 \/ n - 1 \notin S
<1> DEFINE T == {0..n : n \in S}
<1>1. T \subseteq FiniteSubsetsOf(Nat) /\ T # {}
  <2>1. \A n \in Nat : IsFiniteSet(0..n) /\ 0..n \in SUBSET Nat
    BY FS_Interval
  <2> QED
    BY <2>1 DEF FiniteSubsetsOf
<1>2. PICK x \in T : \A y \in T : <<y, x>> \notin StrictSubsetOrdering(Nat)
  BY <1>1, FS_StrictSubsetOrderingWellFounded, WFMin
<1>3. PICK n \in S : x = 0..n
  BY <1>2
<1>4. ASSUME n # 0, n - 1 \in S PROVE FALSE
  <2>1. 0..(n - 1) \in T
    BY <1>4
  <2>2. 0..(n - 1) \subseteq 0..n /\ n \in 0..n /\ n \notin 0..(n - 1) /\ 0..n \in SUBSET Nat
    BY <1>4
  <2>3. <<0..(n - 1), 0..n>> \in StrictSubsetOrdering(Nat)
    BY <2>2 DEF StrictSubsetOrdering
  <2> QED
    BY <1>2, <1>3, <2>1, <2>3
<1> QED
  BY <1>4

\* A path does not leave a set that is closed under the edges.
LEMMA PathStaysInside ==
  ASSUME NEW edges, NEW S, ClosedUnder(edges, S), NEW n \in Nat, NEW path,
         IsPath(edges, path, n), path[0] \in S
  PROVE  \A i \in 0..n : path[i] \in S
<1> DEFINE left == {i \in 0..n : path[i] \notin S}
<1> SUFFICES ASSUME left # {} PROVE FALSE
  OBVIOUS
<1>1. left \in SUBSET Nat
  OBVIOUS
<1>2. PICK i \in left : i = 0 \/ i - 1 \notin left
  BY <1>1, FirstOnTheWay
<1>3. i \in 1..n /\ path[i] \notin S
  BY <1>2
<1>4. PICK j \in 0..n : j = i - 1 /\ j # n /\ j + 1 = i
  BY <1>3
<1>5. path[j] \in S
  BY <1>2, <1>3, <1>4
<1>6. <<path[j], path[i]>> \in edges
  BY <1>4 DEF IsPath
<1> QED
  BY <1>3, <1>5, <1>6 DEF ClosedUnder

\* One edge more makes a path longer.
LEMMA PathGoesOn ==
  ASSUME NEW edges, NEW n \in Nat, NEW path \in [0..n -> Tasks], IsPath(edges, path, n),
         NEW t \in Tasks, <<path[n], t>> \in edges
  PROVE  \E longer \in [0..(n + 1) -> Tasks] :
           longer[0] = path[0] /\ longer[n + 1] = t /\ IsPath(edges, longer, n + 1)
<1> DEFINE longer == [i \in 0..(n + 1) |-> IF i = n + 1 THEN t ELSE path[i]]
<1>1. longer \in [0..(n + 1) -> Tasks]
  OBVIOUS
<1>2. longer[n + 1] = t /\ \A i \in 0..n : longer[i] = path[i]
  OBVIOUS
<1> HIDE DEF longer
<1>3. ASSUME NEW i \in 0..(n + 1), i # n + 1
      PROVE  <<longer[i], longer[i + 1]>> \in edges
  <2>1. CASE i = n
    BY <1>2, <2>1
  <2>2. CASE i # n
    <3>1. i \in 0..n /\ i + 1 \in 0..n
      BY <1>3, <2>2
    <3>2. <<path[i], path[i + 1]>> \in edges
      BY <2>2, <3>1 DEF IsPath
    <3> QED
      BY <1>2, <3>1, <3>2
  <2> QED
    BY <2>1, <2>2
<1>4. longer[0] = path[0]
  BY <1>2
<1> QED
  BY <1>1, <1>2, <1>3, <1>4 DEF IsPath

\* What wouldCreateScheduleCycle asks, by way of closed sets, is whether dependencies
\* lead from the successor to the predecessor, one after the other.
THEOREM ReachesByPath ==
  ASSUME NEW edges \in SUBSET (Tasks \X Tasks), NEW from \in Tasks, NEW to \in Tasks
  PROVE  Reaches(edges, from, to) <=>
           \E n \in Nat : \E path \in [0..n -> Tasks] :
             path[0] = from /\ path[n] = to /\ IsPath(edges, path, n)
<1> DEFINE Met(t) == \E n \in Nat : \E path \in [0..n -> Tasks] :
                       path[0] = from /\ path[n] = t /\ IsPath(edges, path, n)
           met == {t \in Tasks : Met(t)}
<1>1. ASSUME Met(to) PROVE Reaches(edges, from, to)
  <2> SUFFICES ASSUME NEW S \in SUBSET Tasks, from \in S, ClosedUnder(edges, S)
               PROVE  to \in S
    BY DEF Reaches
  <2>1. PICK n \in Nat : \E path \in [0..n -> Tasks] :
          path[0] = from /\ path[n] = to /\ IsPath(edges, path, n)
    BY <1>1
  <2>2. PICK path \in [0..n -> Tasks] : path[0] = from /\ path[n] = to /\ IsPath(edges, path, n)
    BY <2>1
  <2>3. n \in 0..n
    OBVIOUS
  <2> QED
    BY <2>2, <2>3, PathStaysInside
<1>2. ASSUME Reaches(edges, from, to) PROVE Met(to)
  <2>1. Met(from)
    <3>1. PICK alone : alone = [i \in 0..0 |-> from]
      OBVIOUS
    <3>2. alone \in [0..0 -> Tasks] /\ alone[0] = from /\ IsPath(edges, alone, 0)
      BY <3>1 DEF IsPath
    <3> QED
      BY <3>2
  <2>2. ASSUME NEW e \in edges, e[1] \in met PROVE e[2] \in met
    <3>1. e[1] \in Tasks /\ e[2] \in Tasks /\ e = <<e[1], e[2]>>
      OBVIOUS
    <3>2. PICK n \in Nat : \E path \in [0..n -> Tasks] :
            path[0] = from /\ path[n] = e[1] /\ IsPath(edges, path, n)
      BY <2>2
    <3>3. PICK path \in [0..n -> Tasks] : path[0] = from /\ path[n] = e[1] /\ IsPath(edges, path, n)
      BY <3>2
    <3>4. PICK longer \in [0..(n + 1) -> Tasks] :
            longer[0] = from /\ longer[n + 1] = e[2] /\ IsPath(edges, longer, n + 1)
      BY <3>1, <3>3, PathGoesOn
    <3>5. n + 1 \in Nat
      OBVIOUS
    <3>6. Met(e[2])
      BY <3>4, <3>5
    <3> QED
      BY <3>1, <3>6
  <2>3. met \in SUBSET Tasks /\ from \in met /\ ClosedUnder(edges, met)
    BY <2>1, <2>2 DEF ClosedUnder
  <2>4. to \in met
    BY <1>2, <2>3 DEF Reaches
  <2> QED
    BY <2>4
<1> QED
  BY <1>1, <1>2

\* No path of one dependency or more comes back to where it began.
NoWayBack ==
  \A n \in Nat \ {0} : \A path \in [0..n -> Tasks] :
    IsPath(Edges, path, n) => path[0] # path[n]

\* No task waits for itself, however many dependencies lie between: what Acyclic says
\* of sets of tasks, said of paths.
THEOREM NoTaskWaitsForItself == ScheduleSpec => []NoWayBack
<1>1. Acyclic => NoWayBack
  <2> SUFFICES ASSUME Acyclic, NEW n \in Nat \ {0}, NEW path \in [0..n -> Tasks],
                      IsPath(Edges, path, n), path[0] = path[n]
               PROVE  FALSE
    BY DEF NoWayBack
  <2> DEFINE S == {path[i] : i \in 0..n}
  <2>1. S \in (SUBSET Tasks) \ {{}}
    <3>1. path[0] \in S
      OBVIOUS
    <3> QED
      BY <3>1
  <2>2. PICK t \in S : \A e \in Edges : e[2] = t => e[1] \notin S
    BY <2>1 DEF Acyclic
  <2>3. PICK i \in 0..n : t = path[i]
    BY <2>2
  <2>4. PICK j \in 0..n : j # n /\ path[j + 1] = t
    <3>1. CASE i = 0
      <4>1. n - 1 \in 0..n /\ n - 1 # n /\ (n - 1) + 1 = n
        OBVIOUS
      <4> QED
        BY <2>3, <3>1, <4>1
    <3>2. CASE i # 0
      <4>1. i - 1 \in 0..n /\ i - 1 # n /\ (i - 1) + 1 = i
        BY <3>2
      <4> QED
        BY <2>3, <4>1
    <3> QED
      BY <3>1, <3>2
  <2>5. <<path[j], t>> \in Edges
    BY <2>4 DEF IsPath
  <2>6. path[j] \in S
    OBVIOUS
  <2> HIDE DEF S
  <2>7. PICK e \in Edges : e = <<path[j], t>>
    BY <2>5
  <2> QED
    BY <2>2, <2>6, <2>7
<1> QED
  BY <1>1, ScheduleAcyclic, PTL

-----------------------------------------------------------------------------
(* Candidates.  A source is the picture of a moment: it shows the versions *)
(* and the dependencies that there were, and nothing else.                 *)

Edge(i) == [from |-> dependency[i].from, to |-> dependency[i].to, archived |-> FALSE]

Moment(at) ==
  /\ at = <<at[1], at[2], at[3]>>
  /\ at[1] \in [Tasks -> Rows \cup {None}] /\ at[2] \in [Plans -> Nat]
  /\ at[3] \subseteq DOMAIN dependency

Shows(source, at) ==
  /\ Moment(at)
  /\ source = [tasks |-> [t \in {u \in Tasks : at[1][u] # None} |-> at[1][t]],
               dependencies |-> {[id |-> i, edge |-> Edge(i)] : i \in at[3]},
               planning |-> [p \in {q \in Plans : at[2][q] > 0} |-> at[2][p]]]

\* What is loaded for review and what is frozen shows the moment it was taken at.
Pictures ==
  /\ preview = [c \in Planners |-> preview[c]]
  /\ \A c \in Planners : preview[c] # None => Shows(preview[c].source, preview[c].at)
  /\ \A k \in candidates : Shows(k.source, k.at) /\ k.at = k.reviewed

LEMMA PresentShown ==
  ASSUME ScheduleTypeOK
  PROVE  Shows(CaptureSource, Now)
<1>1. Now[1] = task /\ Now[2] = plan /\ Now[3] = Active /\ Moment(Now)
  BY DEF Now, Moment, Active, ScheduleTypeOK
<1>2. \A i \in Active : dependency[i] = Edge(i)
  <2> SUFFICES ASSUME NEW i \in Active PROVE dependency[i] = Edge(i)
    OBVIOUS
  <2>1. dependency \in Seq(Dependency(Existing))
    BY DEF ScheduleTypeOK, Dependency
  <2>2. i \in DOMAIN dependency /\ dependency[i].archived = FALSE
    BY <2>1 DEF Active, Dependency
  <2>3. dependency[i] \in Dependency(Existing)
    BY <2>1, <2>2
  <2> QED
    BY <2>2, <2>3 DEF Dependency, Edge
<1>3. {[id |-> i, edge |-> dependency[i]] : i \in Active} = {[id |-> i, edge |-> Edge(i)] : i \in Active}
  BY <1>2
<1> QED
  BY <1>1, <1>3 DEF Shows, CaptureSource, Existing

\* Pictures differ exactly if their moments do.
LEMMA PictureTellsMoment ==
  ASSUME NEW s, NEW r, NEW v, NEW w, Shows(s, v), Shows(r, w)
  PROVE  s = r <=> v = w
<1>1. v = w => s = r
  BY DEF Shows
<1>2. ASSUME s = r PROVE v = w
  <2>1. v[1] = w[1]
    <3>1. v[1] \in [Tasks -> Rows \cup {None}] /\ w[1] \in [Tasks -> Rows \cup {None}]
      BY DEF Shows, Moment
    <3>2. [t \in {u \in Tasks : v[1][u] # None} |-> v[1][t]] = [t \in {u \in Tasks : w[1][u] # None} |-> w[1][t]]
      BY <1>2 DEF Shows
    <3>3. {u \in Tasks : v[1][u] # None} = {u \in Tasks : w[1][u] # None}
      BY <3>2
    <3>4. \A t \in Tasks : v[1][t] = w[1][t]
      BY <3>2, <3>3
    <3> QED
      BY <3>1, <3>4
  <2>2. v[2] = w[2]
    <3>1. v[2] \in [Plans -> Nat] /\ w[2] \in [Plans -> Nat]
      BY DEF Shows, Moment
    <3>2. [p \in {q \in Plans : v[2][q] > 0} |-> v[2][p]] = [p \in {q \in Plans : w[2][q] > 0} |-> w[2][p]]
      BY <1>2 DEF Shows
    <3>3. {q \in Plans : v[2][q] > 0} = {q \in Plans : w[2][q] > 0}
      BY <3>2
    <3>4. \A p \in Plans : v[2][p] = w[2][p]
      BY <3>1, <3>2, <3>3
    <3> QED
      BY <3>1, <3>4
  <2>3. v[3] = w[3]
    <3>1. {[id |-> i, edge |-> Edge(i)] : i \in v[3]} = {[id |-> i, edge |-> Edge(i)] : i \in w[3]}
      BY <1>2 DEF Shows
    <3> DEFINE At(i) == [id |-> i, edge |-> Edge(i)]
    <3>2. \A i : At(i).id = i
      OBVIOUS
    <3>3. \A i \in v[3] : \E j \in w[3] : At(i) = At(j)
      BY <3>1
    <3>4. \A j \in w[3] : \E i \in v[3] : At(i) = At(j)
      BY <3>1
    <3> HIDE DEF At
    <3>5. \A i, j : At(i) = At(j) => i = j
      BY <3>2
    <3> QED
      BY <3>3, <3>4, <3>5
  <2>4. v = <<v[1], v[2], v[3]>> /\ w = <<w[1], w[2], w[3]>>
    BY DEF Shows, Moment
  <2> QED
    BY <2>1, <2>2, <2>3, <2>4
<1> QED
  BY <1>1, <1>2

\* A picture does not fade: dependencies are archived, and keep their ends.
LEMMA PicturesStay ==
  ASSUME ScheduleTypeOK, [ScheduleNext]_scheduleVars
  PROVE  \A source, at : Shows(source, at) => Shows(source, at)'
<1>1. /\ DOMAIN dependency \subseteq DOMAIN dependency'
      /\ \A i \in DOMAIN dependency :
           dependency'[i].from = dependency[i].from /\ dependency'[i].to = dependency[i].to
  <2>0. dependency \in Seq(Dependency(Existing))
    BY DEF ScheduleTypeOK, Dependency
  <2>1. ASSUME NEW a \in Tasks, NEW b \in Tasks, AddDependency(a, b) PROVE <1>1
    <3> DEFINE e == [from |-> a, to |-> b, archived |-> FALSE]
    <3>1. dependency' = Append(dependency, e)
      BY <2>1 DEF AddDependency
    <3> HIDE DEF e
    <3> QED
      BY <2>0, <3>1
  <2>2. ASSUME NEW j \in DOMAIN dependency, ArchiveDependency(j) PROVE <1>1
    <3>1. dependency' = [dependency EXCEPT ![j].archived = TRUE]
      BY <2>2 DEF ArchiveDependency
    <3> QED
      BY <2>0, <3>1 DEF Dependency
  <2>3. CASE UNCHANGED dependency
    BY <2>3
  <2> QED
    BY <2>1, <2>2, <2>3
    DEF ScheduleNext, scheduleVars, CreateTask, CompleteTask, Forecast, CreatePlan, RevisePlan, Preview, Capture
<1>2. \A i \in DOMAIN dependency : Edge(i)' = Edge(i)
  BY <1>1 DEF Edge
<1> SUFFICES ASSUME NEW CONSTANT source, NEW CONSTANT at, Shows(source, at)
             PROVE  Shows(source, at)'
  OBVIOUS
<1>3. Moment(at)'
  BY <1>1 DEF Shows, Moment
<1>4. {[id |-> i, edge |-> Edge(i)] : i \in at[3]}' = {[id |-> i, edge |-> Edge(i)] : i \in at[3]}
  BY <1>2 DEF Shows, Moment
<1> QED
  BY <1>3, <1>4 DEF Shows

LEMMA NextPictures ==
  ASSUME ScheduleTypeOK, Pictures, [ScheduleNext]_scheduleVars
  PROVE  Pictures'
<1>1. \A source, at : Shows(source, at) => Shows(source, at)'
  BY PicturesStay
<1>2. Shows(CaptureSource, Now)
  BY PresentShown
<1>3. ASSUME NEW c \in Planners, Preview(c) PROVE Pictures'
  <2>1. preview' = [preview EXCEPT ![c] = [source |-> CaptureSource, at |-> Now]] /\ UNCHANGED candidates
    BY <1>3 DEF Preview
  <2>2. PICK s, v : s = CaptureSource /\ v = Now
    OBVIOUS
  <2>3. preview' = [preview EXCEPT ![c] = [source |-> s, at |-> v]] /\ Shows(s, v)'
    BY <1>1, <1>2, <2>1, <2>2
  <2>4. preview' = [d \in Planners |-> preview'[d]]
    BY <2>3 DEF Pictures
  <2>5. ASSUME NEW d \in Planners, preview'[d] # None
        PROVE  \E r, w : preview'[d].source = r /\ preview'[d].at = w /\ Shows(r, w)'
    <3>1. CASE d = c
      BY <2>3, <3>1 DEF Pictures
    <3>2. CASE d # c
      <4>1. preview'[d] = preview[d]
        BY <2>3, <3>2 DEF Pictures
      <4>2. PICK r, w : r = preview[d].source /\ w = preview[d].at
        OBVIOUS
      <4>3. Shows(r, w)
        BY <2>5, <4>1, <4>2 DEF Pictures
      <4>4. Shows(r, w)'
        BY <1>1, <4>3
      <4> QED
        BY <4>1, <4>2, <4>4
    <3> QED
      BY <3>1, <3>2
  <2> QED
    BY <1>1, <2>1, <2>4, <2>5 DEF Pictures
<1>4. ASSUME NEW c \in Planners, Capture(c) PROVE Pictures'
  <2>1. PICK s, v, size : s = CaptureSource /\ v = Now /\ size = Cardinality(candidates)
    OBVIOUS
  <2>2. preview[c].at = v
    <3>1. Shows(preview[c].source, preview[c].at) /\ CaptureSource = preview[c].source
      BY <1>4 DEF Capture, Pictures
    <3> QED
      BY <1>2, <2>1, <3>1, PictureTellsMoment
  <2>3. /\ candidates' = candidates \cup {[source |-> s, reviewed |-> v, at |-> v, n |-> size]}
        /\ UNCHANGED preview
    BY <1>4, <2>1, <2>2 DEF Capture
  <2>4. Shows(s, v)'
    BY <1>1, <1>2, <2>1
  <2>5. \A k \in candidates' : Shows(k.source, k.at)' /\ k.at = k.reviewed
    BY <1>1, <2>3, <2>4 DEF Pictures
  <2> QED
    BY <1>1, <2>3, <2>5 DEF Pictures
<1>5. CASE UNCHANGED <<preview, candidates>>
  BY <1>1, <1>5 DEF Pictures
<1> QED
  BY <1>3, <1>4, <1>5
  DEF ScheduleNext, scheduleVars, CreateTask, CompleteTask, Forecast, AddDependency, ArchiveDependency,
      CreatePlan, RevisePlan

\* A candidate is the schedule that its author reviewed, and the comparison shown of
\* it reports a change exactly if the schedule is another than at its capture.
THEOREM CandidatesAreReviewed == ScheduleSpec => []CandidateAsReviewed
<1>1. ScheduleInit => Pictures
  BY DEF ScheduleInit, Pictures
<1>2. ScheduleTypeOK /\ Pictures => CandidateAsReviewed
  BY PresentShown, PictureTellsMoment DEF Pictures, CandidateAsReviewed, SourceChanged
<1> QED
  BY <1>1, <1>2, InitialTypes, NextTypes, NextPictures, PTL DEF ScheduleSpec
=============================================================================
