--------------------------- MODULE RunCalls_proofs ---------------------------
(***************************************************************************)
(* What a run is left with for any length of the chain, any limit of       *)
(* visits, any number of exceptions and deaths, and a deletion at any      *)
(* moment.                                                                 *)
(***************************************************************************)
EXTENDS RunCalls, TLAPS

(* Where an exception goes, place by place.                                *)
LEMMA RaiseTargets ==
    /\ Place = {"workspace", "start", "mark", "topology", "done", "return", "visit", "begin",
                "hook", "render", "complete", "parsed", "fail", "memory", "failing", "failed",
                "leave", "broken", "broke", "edit", "reset", "restart"}
    /\ \A p \in {"workspace", "start", "mark", "failing", "failed", "leave", "broken", "broke",
                  "edit", "reset", "restart"} : OnRaise[p] = "idle"
    /\ \A p \in {"topology", "done", "return"} : OnRaise[p] = "broken"
    /\ \A p \in {"visit", "begin", "hook", "fail"} : OnRaise[p] = "failing"
    /\ \A p \in {"render", "complete", "parsed"} : OnRaise[p] = "fail"
    /\ OnRaise["memory"] = "topology"
  <1>1. Place = {"workspace", "start", "mark", "topology", "done", "return", "visit", "begin",
                "hook", "render", "complete", "parsed", "fail", "memory", "failing", "failed",
                "leave", "broken", "broke", "edit", "reset", "restart"}
    BY DEF Place, OnRaise
  <1> QED  BY <1>1 DEF OnRaise

(* What a fault marks.                                                     *)
LEMMA FaultMarks ==
    ASSUME TypeOK, NEW kind \in {"raise", "death"}, NEW place \in Place \cup {"rendering", "exec", "create"},
           Fault(kind, place)
    PROVE  /\ count' \in 0 .. MaxFaults
           /\ marks \subseteq marks' /\ marks' \subseteq DOMAIN Marking
           /\ \A m \in DOMAIN Marking : place \in Marking[m][kind] => m \in marks'
  BY CallsAssumption DEF TypeOK, Fault

(* The table of the faults, place by place.                                *)
LEMMA MarkingIs ==
    /\ DOMAIN Marking = {"stranding", "unparsed", "unrepaired"}
    /\ Marking["stranding"]["raise"] =
         {"create", "workspace", "start", "topology", "visit", "begin", "hook", "fail",
          "done", "return", "reset", "restart"}
    /\ Marking["stranding"]["death"] = {"workspace", "start", "reset", "restart"}
    /\ Marking["unparsed"]["raise"] = {"complete", "parsed"}
    /\ Marking["unparsed"]["death"] = {"parsed"}
    /\ Marking["unrepaired"]["raise"] = {"fail"}
    /\ Marking["unrepaired"]["death"] = {"parsed", "fail"}
  BY DEF Marking

(* A call changes the run as it says or not at all, and the process goes   *)
(* on where it says or where the handlers send it.                         *)
LEMMA CallOutcomes ==
    ASSUME TypeOK, NEW place \in Place, NEW next, NEW after, Calls(place, next, after)
    PROVE  /\ pc = place /\ stored' = stored
           /\ \/ /\ stored = "stored" /\ pc' = next /\ run' = after
                 /\ count' = count /\ marks' = marks
              \/ /\ stored = "stored" /\ pc' = OnRaise[place] /\ run' \in {run, after}
                 /\ Fault("raise", place)
              \/ /\ stored = "deleted" /\ pc' = OnRaise[place] /\ run' = run
                 /\ count' = count /\ marks' = marks
  BY DEF Calls, Raises, faults

(* Work on a step: up to its end, and up to the end of its layer.          *)
Underway == {"visit", "begin", "hook", "render", "rendering", "exec", "complete"}
InLayer == Underway \cup {"parsed", "memory", "fail", "failing", "failed"}

(* The agents that a number of visits may start.                            *)
Budget(visits) == visits * (Retry + 1)

(* It grows with the visits, by the attempts of one of them.               *)
LEMMA BudgetGrows ==
    /\ \A v \in Nat : Budget(v) \in Nat /\ Budget(v + 1) = Budget(v) + (Retry + 1)
    /\ \A v \in Nat : v <= MaxVisits => Budget(v) <= Budget(MaxVisits)
    /\ Budget(0) = 0
  <1> USE CallsAssumption
  <1>1. \A v \in Nat : Budget(v) \in Nat /\ Budget(v + 1) = Budget(v) + (Retry + 1)
    BY DEF Budget
  <1>2. ASSUME NEW v \in Nat, v <= MaxVisits PROVE Budget(v) <= Budget(MaxVisits)
    <2>1. PICK d \in Nat : MaxVisits = v + d
      <3>1. MaxVisits - v \in Nat /\ MaxVisits = v + (MaxVisits - v)  BY <1>2
      <3> QED  BY <3>1
    <2>2. (v + d) * (Retry + 1) = v * (Retry + 1) + d * (Retry + 1)  OBVIOUS
    <2>3. d * (Retry + 1) \in Nat /\ v * (Retry + 1) \in Nat  OBVIOUS
    <2> QED  BY <2>1, <2>2, <2>3 DEF Budget
  <1>3. Budget(0) = 0  BY DEF Budget
  <1> QED  BY <1>1, <1>2, <1>3

(* The agents that were started are within the budget of the visits that   *)
(* were counted, with room for the attempts the current visit has left; a  *)
(* visit is counted below the limit only, and before its agents start.     *)
StartInv ==
    /\ stored = "none" => run = NoRun /\ started = None /\ pc = "idle"
    /\ stored = "stored" =>
         \A s \in Step : started[s] <= Budget(run.visits[s]) /\ run.visits[s] <= MaxVisits
    /\ stored = "stored" /\ pc = "begin" => run.visits[at] < MaxVisits
    /\ stored = "stored" /\ pc \in {"hook", "render", "rendering"} =>
         started[at] + (Retry + 1) <= Budget(run.visits[at])
    /\ stored = "stored" /\ pc = "exec" =>
         started[at] + (Retry + 1 - attempt) <= Budget(run.visits[at])
    /\ pc = "rendering" => started[at] + (Retry + 1) <= Budget(MaxVisits)
    /\ pc = "exec" => started[at] + (Retry + 1 - attempt) <= Budget(MaxVisits)
    /\ \A s \in Step : started[s] <= Budget(MaxVisits)

(* No agent starts late before the run is deleted, and after that only the *)
(* attempts of one visit do.                                               *)
LateInv ==
    /\ late > 0 => stored = "deleted"
    /\ pc = "rendering" => late = 0
    /\ pc = "exec" => late <= attempt
    /\ LateStartsBounded

(* A way on, without the condition that nobody is at work.                 *)
Stranded == "stranding" \in marks
AtFailedStep ==
    run.flow = "failed" /\ run.current # NoStep /\ run.status[run.current] = "failed"
WayOn ==
    \/ run.flow = "completed" /\ AllDone
    \/ run.flow = "running"
    \/ AtFailedStep
    \/ Stranded

(* What each call finds: the layers before that of the driver are done, a  *)
(* failure has its step stored, an error that has none is marked.          *)
GoInv ==
    stored = "stored" =>
        /\ pc \in {"idle", "edit"} => WayOn
        /\ pc \in InLayer \cup {"mark", "topology", "done"} => run.flow = "running"
        /\ pc \in InLayer \cup {"topology"} => \A s \in Step : s < at => Done(s)
        /\ pc \in {"workspace", "start", "mark"} => at = 1
        /\ pc \in {"parsed", "memory"} => Done(at)
        /\ pc = "done" => AllDone
        /\ pc = "return" => run.flow = "completed" /\ AllDone
        /\ pc \in {"failing", "failed"} => run.status[at] = "failed" \/ Stranded
        /\ pc = "leave" => AtFailedStep \/ Stranded
        /\ pc \in {"broken", "broke"} => Stranded

(* A step that is at work is not done yet, and one that is done has its    *)
(* parsed value, but between the two calls and where a fault came between. *)
ParsedOf(s) == run.parsed[s] = run.output[s]
ParsedInv ==
    stored = "stored" =>
        /\ pc \in Underway => ~Done(at)
        /\ pc = "complete" /\ at \in AlwaysParsed => parsed
        /\ pc = "parsed" => run.output[at] = run.visits[at]
        /\ pc = "fail" /\ at \in AlwaysParsed /\ Done(at) => "unparsed" \in marks
        /\ \A s \in AlwaysParsed :
             Done(s) /\ ~(at = s /\ pc \in {"parsed", "fail"}) /\ ~Torn => ParsedOf(s)

Pc == Place \cup {"idle", "rendering", "exec"}
NotAtStep == {"idle", "topology", "done", "return", "broken", "broke"}

(* What a call makes of the variables it has to do with.                   *)
LEMMA CallTyped ==
    ASSUME TypeOK, NEW place \in Place, NEW next \in Pc, NEW after \in Run,
           Calls(place, next, after)
    PROVE  /\ pc = place /\ stored' \in {"none", "stored", "deleted"} /\ run' \in Run
           /\ pc' \in Pc /\ pc' \in {next, OnRaise[place]}
           /\ count' \in 0 .. MaxFaults /\ marks' \subseteq DOMAIN Marking
  <1>1. OnRaise[place] \in Pc
    BY RaiseTargets DEF Pc
  <1>2. stored' = stored /\ run' \in {run, after} /\ pc = place /\ pc' \in {next, OnRaise[place]}
    BY CallOutcomes
  <1>3. \/ count' = count /\ marks' = marks
        \/ Fault("raise", place)
    BY CallOutcomes
  <1>4. count' \in 0 .. MaxFaults /\ marks' \subseteq DOMAIN Marking
    <2>1. CASE count' = count /\ marks' = marks  BY <2>1 DEF TypeOK
    <2>2. CASE Fault("raise", place)  BY <2>2, FaultMarks
    <2> QED  BY <1>3, <2>1, <2>2
  <1>5. stored \in {"none", "stored", "deleted"} /\ run \in Run
    BY DEF TypeOK
  <1> QED  BY <1>1, <1>2, <1>4, <1>5

(* A call that only has to leave the process at a step, or at no step.     *)
LEMMA LocalTyped ==
    ASSUME TypeOK, NEW place \in Place, NEW next \in Pc, NEW after \in Run,
           Calls(place, next, after), Local,
           place \in NotAtStep => next \in NotAtStep
    PROVE  TypeOK'
  <1>1. pc = place /\ stored' \in {"none", "stored", "deleted"} /\ run' \in Run
        /\ pc' \in Pc /\ pc' \in {next, OnRaise[place]}
        /\ count' \in 0 .. MaxFaults /\ marks' \subseteq DOMAIN Marking
    BY CallTyped
  <1>2. /\ attempt' \in 0 .. (Retry + 1) /\ started' \in [Step -> Nat] /\ late' \in Nat
        /\ parsed' \in BOOLEAN /\ at' \in 1 .. (Last + 1)
    BY CallsAssumption DEF Local, Kept, agents, TypeOK
  <1>3. pc' \notin NotAtStep => at' \in Step
    <2>1. place \in NotAtStep => OnRaise[place] \in NotAtStep
      BY RaiseTargets DEF NotAtStep
    <2>2. pc \notin NotAtStep => at \in Step
      BY DEF TypeOK, NotAtStep
    <2>3. pc' # "idle" => at' = at
      BY DEF Local, Kept
    <2> QED  BY <1>1, <2>1, <2>2, <2>3 DEF NotAtStep
  <1>4. pc' = "idle" => at' = 1
    BY DEF Local, Kept
  <1> QED  BY <1>1, <1>2, <1>3, <1>4 DEF TypeOK, Pc, NotAtStep

(* What the calls store is a run.                                          *)
LEMMA StoredRuns ==
    ASSUME TypeOK
    PROVE  /\ NoRun \in Run /\ run \in Run
           /\ \A flow \in FlowStatus, step \in Step \cup {NoStep} : SetFlow(flow, step) \in Run
           /\ at \in Step =>
                /\ \A status \in StepStatus :
                     [run EXCEPT !.status[at] = status, !.output[at] = 0] \in Run
                /\ [run EXCEPT !.status[at] = "running", !.output[at] = 0,
                               !.visits[at] = @ + 1] \in Run
                /\ [run EXCEPT !.status[at] = "completed", !.output[at] = run.visits[at]] \in Run
                /\ [run EXCEPT !.parsed[at] = run.visits[at]] \in Run
  <1> USE DEF Run, StepStatus, FlowStatus
  <1>1. run \in Run  BY DEF TypeOK
  <1>2. NoRun \in Run  BY DEF NoRun, None, NoStep
  <1>3. \A flow \in FlowStatus, step \in Step \cup {NoStep} : SetFlow(flow, step) \in Run
    BY <1>1 DEF SetFlow
  <1>4. ASSUME at \in Step, NEW status \in StepStatus
        PROVE  [run EXCEPT !.status[at] = status, !.output[at] = 0] \in Run
    BY <1>1, <1>4
  <1>5. ASSUME at \in Step
        PROVE  /\ [run EXCEPT !.status[at] = "running", !.output[at] = 0,
                              !.visits[at] = @ + 1] \in Run
               /\ [run EXCEPT !.status[at] = "completed", !.output[at] = run.visits[at]] \in Run
               /\ [run EXCEPT !.parsed[at] = run.visits[at]] \in Run
    <2>1. run.visits[at] \in Nat /\ run.visits[at] + 1 \in Nat  BY <1>1, <1>5
    <2>2. [run.visits EXCEPT ![at] = @ + 1] \in [Step -> Nat]  BY <1>1, <1>5, <2>1
    <2>3. [run.output EXCEPT ![at] = 0] \in [Step -> Nat]  BY <1>1
    <2> QED  BY <1>1, <2>1, <2>2, <2>3
  <1> QED  BY <1>1, <1>2, <1>3, <1>4, <1>5

(* Every call preserves the types.                                          *)
LEMMA NextTyped == ASSUME TypeOK, [Next]_vars PROVE TypeOK'
  <1>a. /\ Pc = Place \cup {"idle", "rendering", "exec"}
        /\ pc \notin NotAtStep => at \in Step
        /\ run \in Run /\ run.current \in Step \cup {NoStep}
    BY DEF TypeOK, Pc, NotAtStep, Run
  <1>b. ASSUME pc' \in Pc, pc' = "idle" => at' = 1, pc' \notin NotAtStep => at' \in Step,
               at' \in 1 .. (Last + 1),
               stored' \in {"none", "stored", "deleted"}, run' \in Run, parsed' \in BOOLEAN,
               attempt' \in 0 .. (Retry + 1), started' \in [Step -> Nat], late' \in Nat,
               count' \in 0 .. MaxFaults, marks' \subseteq DOMAIN Marking
        PROVE  TypeOK'
    BY <1>b DEF TypeOK, Pc, NotAtStep
  <1>c. /\ 1 \in Step /\ Step \subseteq 1 .. (Last + 1)
        /\ \A s \in Step : s + 1 \in 1 .. (Last + 1) /\ (s # Last => s + 1 \in Step)
        /\ at \in 1 .. (Last + 1) /\ (pc = "idle" => at = 1) /\ (at <= Last => at \in Step)
        /\ parsed \in BOOLEAN
    BY CallsAssumption DEF Step, TypeOK
  <1>e. /\ UNCHANGED agents => /\ attempt' \in 0 .. (Retry + 1) /\ started' \in [Step -> Nat]
                               /\ late' \in Nat
        /\ \A number \in 1 .. (Retry + 1) : at \in Step /\ StartAgent(number) =>
             attempt' \in 0 .. (Retry + 1) /\ started' \in [Step -> Nat] /\ late' \in Nat
    BY CallsAssumption DEF agents, StartAgent, TypeOK
  <1>d. {"mark", "workspace", "reset", "edit", "complete", "fail"} \subseteq Place
    BY RaiseTargets
  <1> USE DEF Pc, NotAtStep, Reads, FlowStatus, StepStatus
  <1>1. CASE CreateRun
    <2>1. count' \in 0 .. MaxFaults /\ marks' \subseteq DOMAIN Marking
      <3>1. CASE UNCHANGED faults  BY <3>1 DEF faults, TypeOK
      <3>2. CASE Fault("raise", "create")  BY <3>2, CallsAssumption DEF Fault, TypeOK
      <3> QED  BY <1>1, <3>1, <3>2 DEF CreateRun
    <2>2. pc' \in {"idle", "workspace"} /\ at' \in 1 .. (Last + 1) /\ parsed' \in BOOLEAN
          /\ at' = 1 /\ at' \in Step
      BY <1>1, <1>c DEF CreateRun, Local, Kept
    <2>3. stored' = "stored" /\ run' = run /\ UNCHANGED agents
      BY <1>1 DEF CreateRun, Local
    <2> QED  BY <1>a, <1>b, <1>d, <1>e, <2>1, <2>2, <2>3 DEF TypeOK
  <1>2. CASE Resume
    <2>1. pc' = "mark" /\ at' = at /\ at \in Step /\ parsed' \in BOOLEAN
      BY <1>2, <1>c DEF Resume, Local, Kept, TypeOK
    <2> QED  BY <1>a, <1>b, <1>d, <1>e, <1>2, <2>1 DEF Resume, Local, TypeOK, faults
  <1>3. CASE SetWorkspace  BY <1>3, LocalTyped, StoredRuns, RaiseTargets DEF SetWorkspace
  <1>4. CASE StartRun  BY <1>4, LocalTyped, StoredRuns, RaiseTargets DEF StartRun
  <1>5. CASE MarkRunning  BY <1>5, LocalTyped, StoredRuns, RaiseTargets, <1>a DEF MarkRunning
  <1>6. CASE EnterLayer
    <2>1. ASSUME NEW next \in {"topology", "failing", "visit"}, Calls("topology", next, run)
          PROVE  /\ pc' \in {next, "broken"} /\ stored' \in {"none", "stored", "deleted"}
                 /\ run' \in Run /\ count' \in 0 .. MaxFaults /\ marks' \subseteq DOMAIN Marking
      BY <2>1, <1>a, CallTyped, RaiseTargets
    <2>2. at \in Step /\ at' \in 1 .. (Last + 1) /\ at' \in {at, at + 1}
      BY <1>6, <1>c DEF EnterLayer
    <2>3. \/ Calls("topology", "topology", run)
          \/ (Calls("topology", "failing", run) \/ Calls("topology", "visit", run)) /\ at' = at
      BY <1>6 DEF EnterLayer
    <2> QED  BY <1>b, <1>e, <1>6, <2>1, <2>2, <2>3, RaiseTargets DEF EnterLayer, TypeOK
  <1>7. CASE PassLast
    BY <1>a, <1>b, <1>c, <1>e, <1>7, RaiseTargets DEF PassLast, TypeOK, Local, Kept, faults
  <1>8. CASE FinishRun  BY <1>8, LocalTyped, StoredRuns, RaiseTargets DEF FinishRun
  <1>9. CASE ReturnRun  BY <1>9, LocalTyped, StoredRuns, RaiseTargets DEF ReturnRun
  <1>10. CASE StoreFailure  BY <1>10, LocalTyped, StoredRuns, RaiseTargets DEF StoreFailure
  <1>11. CASE FailRun  BY <1>11, LocalTyped, StoredRuns, RaiseTargets, <1>a DEF FailRun, Calls
  <1>12. CASE LeaveFailed  BY <1>12, LocalTyped, StoredRuns, RaiseTargets DEF LeaveFailed
  <1>13. CASE StoreError  BY <1>13, LocalTyped, StoredRuns, RaiseTargets DEF StoreError
  <1>14. CASE BreakRun  BY <1>14, LocalTyped, StoredRuns, RaiseTargets DEF BreakRun
  <1>15. CASE CheckVisits  BY <1>15, LocalTyped, StoredRuns, RaiseTargets DEF CheckVisits
  <1>16. CASE BeginStep  BY <1>16, LocalTyped, StoredRuns, RaiseTargets, <1>a DEF BeginStep, Calls
  <1>17. CASE LoadForHook  BY <1>17, LocalTyped, StoredRuns, RaiseTargets DEF LoadForHook
  <1>18. CASE RenderPrompt  BY <1>18, LocalTyped, StoredRuns, RaiseTargets DEF RenderPrompt
  <1>19. CASE Rendered \/ AttemptEnds
    <2>1. at \in Step /\ pc' \in {"exec", "fail", "complete"} /\ parsed' \in BOOLEAN
      BY <1>19, <1>a, RaiseTargets DEF Rendered, AttemptEnds, TypeOK
    <2>2. attempt' \in 0 .. (Retry + 1) /\ started' \in [Step -> Nat] /\ late' \in Nat
      <3>1. attempt \in 0 .. (Retry + 1) /\ started \in [Step -> Nat] /\ late \in Nat
            /\ 1 \in 1 .. (Retry + 1) /\ 0 \in 0 .. (Retry + 1)
            /\ (attempt <= Retry => attempt + 1 \in 1 .. (Retry + 1))
        BY CallsAssumption DEF TypeOK
      <3> QED  BY <1>19, <1>e, <2>1, <3>1 DEF Rendered, AttemptEnds
    <2>3. UNCHANGED <<stored, run, at, faults>>  BY <1>19 DEF Rendered, AttemptEnds
    <2> QED  BY <1>a, <1>b, <1>d, <2>1, <2>2, <2>3 DEF TypeOK, faults
  <1>20. CASE CompleteStep
    BY <1>20, LocalTyped, StoredRuns, RaiseTargets, <1>a DEF CompleteStep, Calls
  <1>21. CASE StoreParsed
    BY <1>21, LocalTyped, StoredRuns, RaiseTargets, <1>a DEF StoreParsed, Calls
  <1>22. CASE WriteMemory
    <2>1. at' \in 1 .. (Last + 1) /\ parsed' \in BOOLEAN /\ UNCHANGED agents /\ pc = "memory"
      BY <1>22, <1>a, <1>c DEF WriteMemory, Calls
    <2>2. CASE Calls("memory", "topology", run)
      BY <1>b, <1>e, <2>1, <2>2, <1>a, CallTyped, RaiseTargets DEF TypeOK
    <2>3. CASE ~Calls("memory", "topology", run)
      BY <1>b, <1>e, <2>1, <2>3, <1>22, RaiseTargets DEF WriteMemory, TypeOK, faults
    <2> QED  BY <2>2, <2>3
  <1>23. CASE MarkFailed  BY <1>23, LocalTyped, StoredRuns, RaiseTargets, <1>a DEF MarkFailed, Calls
  <1>24. CASE StoreEdit  BY <1>24, LocalTyped, StoredRuns, RaiseTargets DEF StoreEdit
  <1>25. CASE ResetStep
    <2>1. /\ pc = "reset" /\ at \in Step /\ parsed' = parsed /\ UNCHANGED agents
          /\ at' = IF pc' = "reset" THEN at + 1 ELSE 1
      BY <1>25, <1>a DEF ResetStep, Calls
    <2> DEFINE after == [run EXCEPT !.status[at] = "pending", !.output[at] = 0]
    <2>2. after \in Run  BY <2>1, StoredRuns
    <2> HIDE DEF after
    <2>3. ASSUME NEW next \in {"reset", "restart"}, Calls("reset", next, after)
          PROVE  /\ pc' \in {next, "idle"} /\ stored' \in {"none", "stored", "deleted"}
                 /\ run' \in Run /\ count' \in 0 .. MaxFaults /\ marks' \subseteq DOMAIN Marking
      BY <2>2, <2>3, <1>a, CallTyped, RaiseTargets
    <2>4. \/ Calls("reset", "reset", after) /\ at # Last
          \/ Calls("reset", "restart", after)
      BY <1>25 DEF ResetStep, after
    <2>5. at' \in Step /\ at' \in 1 .. (Last + 1) /\ (pc' = "idle" => at' = 1)
      BY <2>1, <2>3, <2>4, <1>c
    <2> QED  BY <1>b, <1>e, <2>1, <2>3, <2>4, <2>5, RaiseTargets DEF TypeOK
  <1>26. CASE Restart  BY <1>26, LocalTyped, StoredRuns, RaiseTargets DEF Restart
  <1>27. ASSUME NEW s \in Step, AskRetry(s) PROVE TypeOK'
    BY <1>a, <1>b, <1>c, <1>d, <1>e, <1>27 DEF AskRetry, TypeOK, faults
  <1>28. ASSUME NEW s \in Step, AskEdit(s) PROVE TypeOK'
    BY <1>a, <1>b, <1>c, <1>d, <1>e, <1>28 DEF AskEdit, TypeOK, faults
  <1>29. CASE Delete  BY <1>a, <1>b, <1>e, <1>29, StoredRuns DEF Delete, TypeOK, faults
  <1>30. CASE Dies
    <2>1. pc \in Place \cup {"rendering", "exec"} /\ Fault("death", pc) /\ pc' = "idle"
      BY <1>30 DEF Dies, TypeOK
    <2>2. count' \in 0 .. MaxFaults /\ marks' \subseteq DOMAIN Marking
      BY <2>1, FaultMarks
    <2>3. /\ stored' = stored /\ run' = run /\ at' = 1 /\ parsed' = FALSE
          /\ attempt' = 0 /\ started' = started /\ late' = late
      BY <1>30 DEF Dies, Kept
    <2>4. 0 \in 0 .. (Retry + 1)  BY CallsAssumption
    <2> QED  BY <1>b, <2>1, <2>2, <2>3, <2>4, <1>c DEF TypeOK
  <1>31. CASE UNCHANGED vars  BY <1>31 DEF vars, TypeOK, faults, agents
  <1> QED  BY <1>1, <1>2, <1>3, <1>4, <1>5, <1>6, <1>7, <1>8, <1>9, <1>10, <1>11, <1>12, <1>13,
             <1>14, <1>15, <1>16, <1>17, <1>18, <1>19, <1>20, <1>21, <1>22, <1>23, <1>24, <1>25,
             <1>26, <1>27, <1>28, <1>29, <1>30, <1>31
           DEF Next, ProcessStep

(* The outcomes of a call with the marks of a fault spelled out.           *)
StrandingCall == {"workspace", "start", "topology", "visit", "begin", "hook", "fail", "done",
                  "return", "reset", "restart"}

LEMMA CallEffects ==
    ASSUME TypeOK, NEW place \in Place, NEW next, NEW after, Calls(place, next, after)
    PROVE  /\ pc = place /\ stored' = stored /\ marks \subseteq marks'
           /\ stored # "stored" => stored = "deleted" /\ pc' = OnRaise[place] /\ run' = run
           /\ stored = "stored" =>
                \/ pc' = next /\ run' = after /\ marks' = marks
                \/ /\ pc' = OnRaise[place] /\ run' \in {run, after}
                   /\ place \in StrandingCall => "stranding" \in marks'
                   /\ place \in {"complete", "parsed"} => "unparsed" \in marks'
                   /\ place = "fail" => "unrepaired" \in marks'
  <1>1. ASSUME Fault("raise", place)
        PROVE  /\ marks \subseteq marks'
               /\ place \in StrandingCall => "stranding" \in marks'
               /\ place \in {"complete", "parsed"} => "unparsed" \in marks'
               /\ place = "fail" => "unrepaired" \in marks'
    BY <1>1, FaultMarks, MarkingIs DEF StrandingCall
  <1> QED  BY <1>1, CallOutcomes

(* What a death marks.                                                     *)
LEMMA DeathMarks ==
    ASSUME TypeOK, Dies
    PROVE  /\ marks \subseteq marks' /\ stored' = stored /\ run' = run /\ pc' = "idle"
           /\ pc \in {"workspace", "start", "reset", "restart"} => "stranding" \in marks'
           /\ pc = "parsed" => "unparsed" \in marks' /\ "unrepaired" \in marks'
           /\ pc = "fail" => "unrepaired" \in marks'
  <1>1. pc \in Place \cup {"rendering", "exec"} /\ Fault("death", pc)
    BY DEF Dies, TypeOK
  <1> QED  BY <1>1, FaultMarks, MarkingIs DEF Dies

(* The fields of the run, and those of what the calls store.               *)
LEMMA RunFields ==
    ASSUME TypeOK
    PROVE  /\ run.flow \in FlowStatus /\ run.current \in Step \cup {NoStep}
           /\ run.status \in [Step -> StepStatus]
           /\ run.visits \in [Step -> Nat] /\ run.output \in [Step -> Nat]
           /\ run.parsed \in [Step -> Nat]
           /\ attempt \in 0 .. (Retry + 1) /\ started \in [Step -> Nat] /\ late \in Nat
           /\ Retry \in Nat /\ at \in 1 .. (Last + 1) /\ Last \in Nat \ {0}
           /\ AlwaysParsed \subseteq Step
           /\ pc \in Place \cup {"idle", "rendering", "exec"}
           /\ pc \notin NotAtStep => at \in Step
           /\ pc = "idle" => at = 1
  BY CallsAssumption DEF TypeOK, Run, NotAtStep, Step

(* A new status of the run leaves the rest of it.                          *)
LEMMA FlowFields ==
    ASSUME TypeOK, NEW flow, NEW step
    PROVE  LET after == SetFlow(flow, step)
           IN  /\ after.flow = flow /\ after.current = step /\ after.status = run.status
               /\ after.visits = run.visits /\ after.output = run.output
               /\ after.parsed = run.parsed
  <1>1. run \in Run  BY DEF TypeOK
  <1> QED  BY <1>1 DEF SetFlow, Run

(* A new status of a step leaves the other steps.                          *)
LEMMA StatusFields ==
    ASSUME TypeOK, at \in Step, NEW status, NEW output
    PROVE  LET after == [run EXCEPT !.status[at] = status, !.output[at] = output]
           IN  /\ after.flow = run.flow /\ after.current = run.current
               /\ after.visits = run.visits /\ after.parsed = run.parsed
               /\ after.status = [run.status EXCEPT ![at] = status]
               /\ after.output = [run.output EXCEPT ![at] = output]
  <1>1. run \in Run  BY DEF TypeOK
  <1> QED  BY <1>1 DEF Run

(* So does the begin of a visit.                                           *)
LEMMA BegunFields ==
    ASSUME TypeOK, at \in Step
    PROVE  LET after == [run EXCEPT !.status[at] = "running", !.output[at] = 0,
                                    !.visits[at] = @ + 1]
           IN  /\ after.flow = run.flow /\ after.current = run.current
               /\ after.parsed = run.parsed
               /\ after.status = [run.status EXCEPT ![at] = "running"]
               /\ after.output = [run.output EXCEPT ![at] = 0]
               /\ after.visits = [run.visits EXCEPT ![at] = @ + 1]
  <1>1. run \in Run  BY DEF TypeOK
  <1> QED  BY <1>1 DEF Run

(* So does a parsed value.                                                 *)
LEMMA ParsedFields ==
    ASSUME TypeOK, at \in Step
    PROVE  LET after == [run EXCEPT !.parsed[at] = run.visits[at]]
           IN  /\ after.flow = run.flow /\ after.current = run.current
               /\ after.visits = run.visits /\ after.output = run.output
               /\ after.status = run.status
               /\ after.parsed = [run.parsed EXCEPT ![at] = run.visits[at]]
  <1>1. run \in Run  BY DEF TypeOK
  <1> QED  BY <1>1 DEF Run

(* What each call finds, the call before it left.                          *)
LEMMA NextGoes == ASSUME TypeOK, GoInv, [Next]_vars PROVE GoInv'
  <1> USE DEF GoInv, WayOn, AtFailedStep, Stranded, AllDone, Done, InLayer, Underway, StrandingCall,
            NotAtStep, Reads, Local, Kept, NoStep, faults, agents, StartAgent
  <1>1. CASE CreateRun
    <2>1. CASE pc' = "workspace"  BY <1>1, <2>1, RunFields DEF CreateRun
    <2>2. CASE Fault("raise", "create")
      <3>1. "stranding" \in marks'  BY <2>2, FaultMarks, MarkingIs
      <3> QED  BY <1>1, <3>1, RunFields DEF CreateRun
    <2> QED  BY <1>1, <2>1, <2>2 DEF CreateRun
  <1>2. CASE Resume  BY <1>2, RunFields DEF Resume
  <1>3. ASSUME NEW s \in Step, AskRetry(s) PROVE GoInv'  BY <1>3 DEF AskRetry
  <1>4. ASSUME NEW s \in Step, AskEdit(s) PROVE GoInv'  BY <1>4 DEF AskEdit
  <1>5. CASE SetWorkspace  BY <1>5, CallEffects, RaiseTargets, RunFields DEF SetWorkspace
  <1>6. CASE StartRun
    <2> DEFINE after == SetFlow("running", NoStep)
    <2>1. /\ after.flow = "running" /\ after.current = NoStep /\ after.status = run.status
          /\ after.visits = run.visits /\ after.output = run.output /\ after.parsed = run.parsed
      BY FlowFields
    <2>2. Calls("start", "topology", after) /\ Local  BY <1>6 DEF StartRun
    <2>3. \A s \in Step : ~(s < 1)  BY DEF Step
    <2> HIDE DEF after
    <2> QED  BY <2>1, <2>2, <2>3, CallEffects, RaiseTargets, RunFields
  <1>7. CASE MarkRunning
    <2> DEFINE after == SetFlow("running", run.current)
    <2>1. /\ after.flow = "running" /\ after.current = run.current /\ after.status = run.status
          /\ after.visits = run.visits /\ after.output = run.output /\ after.parsed = run.parsed
      BY FlowFields
    <2>2. Calls("mark", "topology", after) /\ Local  BY <1>7 DEF MarkRunning
    <2>3. \A s \in Step : ~(s < 1)  BY DEF Step
    <2> HIDE DEF after
    <2> QED  BY <2>1, <2>2, <2>3, CallEffects, RaiseTargets, RunFields
  <1>8. CASE EnterLayer
    <2>1. pc = "topology" /\ at \in Step  BY <1>8, RunFields DEF EnterLayer, Calls, Step
    <2>2. \A s \in Step : s < at + 1 => s < at \/ s = at  BY <2>1 DEF Step
    <2>3. stored = "stored" /\ at > 1 => Done(at - 1)
      BY <2>1, RunFields DEF Step
    <2>4. CASE Done(at)
      BY <1>8, <2>1, <2>2, <2>4, CallEffects, RaiseTargets DEF EnterLayer
    <2>5. CASE ~Done(at)
      BY <1>8, <2>1, <2>3, <2>5, CallEffects, RaiseTargets DEF EnterLayer, Blocked
    <2> QED  BY <2>4, <2>5
  <1>9. CASE PassLast
    <2>1. \A s \in Step : s < at  BY <1>9, RunFields DEF PassLast, Step
    <2> QED  BY <1>9, <2>1 DEF PassLast
  <1>10. CASE FinishRun
    <2> DEFINE after == SetFlow("completed", NoStep)
    <2>1. /\ after.flow = "completed" /\ after.current = NoStep /\ after.status = run.status
          /\ after.visits = run.visits /\ after.output = run.output /\ after.parsed = run.parsed
      BY FlowFields
    <2>2. Calls("done", "return", after) /\ Local  BY <1>10 DEF FinishRun
    <2> HIDE DEF after
    <2> QED  BY <2>1, <2>2, CallEffects, RaiseTargets, RunFields
  <1>11. CASE ReturnRun  BY <1>11, CallEffects, RaiseTargets, RunFields DEF ReturnRun
  <1>12. CASE StoreFailure  BY <1>12, CallEffects, RaiseTargets, RunFields DEF StoreFailure
  <1>13. CASE FailRun
    <2> DEFINE after == SetFlow("failed", at)
    <2>1. /\ after.flow = "failed" /\ after.current = at /\ after.status = run.status
          /\ after.visits = run.visits /\ after.output = run.output /\ after.parsed = run.parsed
      BY FlowFields
    <2>2. Calls("failed", "leave", after) /\ Local  BY <1>13 DEF FailRun
    <2> HIDE DEF after
    <2> QED  BY <2>1, <2>2, CallEffects, RaiseTargets, RunFields
  <1>14. CASE LeaveFailed  BY <1>14, CallEffects, RaiseTargets, RunFields DEF LeaveFailed
  <1>15. CASE StoreError  BY <1>15, CallEffects, RaiseTargets, RunFields DEF StoreError
  <1>16. CASE BreakRun
    <2> DEFINE after == SetFlow("failed", NoStep)
    <2>1. /\ after.flow = "failed" /\ after.current = NoStep /\ after.status = run.status
          /\ after.visits = run.visits /\ after.output = run.output /\ after.parsed = run.parsed
      BY FlowFields
    <2>2. Calls("broke", "idle", after) /\ Local  BY <1>16 DEF BreakRun
    <2> HIDE DEF after
    <2> QED  BY <2>1, <2>2, CallEffects, RaiseTargets, RunFields
  <1>17. CASE CheckVisits  BY <1>17, CallEffects, RaiseTargets, RunFields DEF CheckVisits
  <1>18. CASE BeginStep
    <2> DEFINE after == [run EXCEPT !.status[at] = "running", !.output[at] = 0,
                                   !.visits[at] = @ + 1]
    <2>1. pc = "begin" /\ at \in Step  BY <1>18, RunFields DEF BeginStep, Calls
    <2>2. /\ after.flow = run.flow /\ after.current = run.current
          /\ after.parsed = run.parsed
          /\ after.status = [run.status EXCEPT ![at] = "running"]
          /\ after.output = [run.output EXCEPT ![at] = 0]
          /\ after.visits = [run.visits EXCEPT ![at] = @ + 1]
      BY <2>1, BegunFields
    <2>3. Calls("begin", "hook", after) /\ Local
      BY <1>18 DEF BeginStep
    <2> HIDE DEF after
    <2> QED  BY <2>1, <2>2, <2>3, CallEffects, RaiseTargets, RunFields
  <1>19. CASE LoadForHook  BY <1>19, CallEffects, RaiseTargets, RunFields DEF LoadForHook
  <1>20. CASE RenderPrompt  BY <1>20, CallEffects, RaiseTargets, RunFields DEF RenderPrompt
  <1>21. CASE Rendered \/ AttemptEnds  BY <1>21, RunFields DEF Rendered, AttemptEnds
  <1>22. CASE CompleteStep
    <2> DEFINE after == [run EXCEPT !.status[at] = "completed", !.output[at] = run.visits[at]]
    <2>1. pc = "complete" /\ at \in Step  BY <1>22, RunFields DEF CompleteStep, Calls
    <2>2. /\ after.flow = run.flow /\ after.current = run.current
          /\ after.visits = run.visits /\ after.parsed = run.parsed
          /\ after.status = [run.status EXCEPT ![at] = "completed"]
          /\ after.output = [run.output EXCEPT ![at] = run.visits[at]]
      BY <2>1, StatusFields
    <2>3. /\ \/ Calls("complete", "parsed", after) /\ parsed
             \/ Calls("complete", "memory", after) /\ ~parsed
          /\ Local
      <3>1. CASE parsed
        <4>1. (IF parsed THEN "parsed" ELSE "memory") = "parsed"  BY <3>1
        <4>2. Calls("complete", IF parsed THEN "parsed" ELSE "memory", after) /\ Local
          BY <1>22 DEF CompleteStep
        <4>3. Calls("complete", "parsed", after)  BY <4>1, <4>2
        <4> QED  BY <3>1, <4>2, <4>3
      <3>2. CASE ~parsed  BY <1>22, <3>2 DEF CompleteStep
      <3> QED  BY <3>1, <3>2
    <2> HIDE DEF after
    <2> QED  BY <2>1, <2>2, <2>3, CallEffects, RaiseTargets, RunFields
  <1>23. CASE StoreParsed
    <2> DEFINE after == [run EXCEPT !.parsed[at] = run.visits[at]]
    <2>1. pc = "parsed" /\ at \in Step  BY <1>23, RunFields DEF StoreParsed, Calls
    <2>2. /\ after.flow = run.flow /\ after.current = run.current
          /\ after.visits = run.visits /\ after.output = run.output
          /\ after.status = run.status
          /\ after.parsed = [run.parsed EXCEPT ![at] = run.visits[at]]
      BY <2>1, ParsedFields
    <2>3. Calls("parsed", "memory", after) /\ Local
      BY <1>23 DEF StoreParsed
    <2> HIDE DEF after
    <2> QED  BY <2>1, <2>2, <2>3, CallEffects, RaiseTargets, RunFields
  <1>24. CASE WriteMemory
    <2>1. pc = "memory" /\ at \in Step /\ at' = at + 1 /\ run' = run /\ pc' = "topology"
          /\ stored' = stored
      <3>1. CASE Calls("memory", "topology", run)
        <4>1. at' = at + 1  BY <1>24 DEF WriteMemory
        <4>2. "memory" \in Place /\ OnRaise["memory"] = "topology"  BY RaiseTargets
        <4>3. pc = "memory" /\ stored' = stored /\ run' = run /\ pc' = "topology"
          BY <3>1, <4>2, CallOutcomes
        <4> QED  BY <4>1, <4>3, RunFields
      <3>2. CASE ~Calls("memory", "topology", run)
        BY <1>24, <3>2, RunFields DEF WriteMemory
      <3> QED  BY <3>1, <3>2
    <2>2. \A s \in Step : s < at + 1 => s < at \/ s = at
      BY <2>1 DEF Step
    <2> QED  BY <2>1, <2>2, RunFields
  <1>25. CASE MarkFailed
    <2> DEFINE after == [run EXCEPT !.status[at] = "failed", !.output[at] = 0]
    <2>1. pc = "fail" /\ at \in Step  BY <1>25, RunFields DEF MarkFailed, Calls
    <2>2. /\ after.flow = run.flow /\ after.current = run.current
          /\ after.visits = run.visits /\ after.parsed = run.parsed
          /\ after.status = [run.status EXCEPT ![at] = "failed"]
          /\ after.output = [run.output EXCEPT ![at] = 0]
      BY <2>1, StatusFields
    <2>3. Calls("fail", "failing", after) /\ Local
      BY <1>25 DEF MarkFailed
    <2> HIDE DEF after
    <2> QED  BY <2>1, <2>2, <2>3, CallEffects, RaiseTargets, RunFields
  <1>26. CASE StoreEdit  BY <1>26, CallEffects, RaiseTargets, RunFields DEF StoreEdit
  <1>27. CASE ResetStep
    <2> DEFINE after == [run EXCEPT !.status[at] = "pending", !.output[at] = 0]
    <2>1. pc = "reset" /\ at \in Step  BY <1>27, RunFields DEF ResetStep, Calls
    <2>2. /\ after.flow = run.flow /\ after.current = run.current
          /\ after.visits = run.visits /\ after.parsed = run.parsed
          /\ after.status = [run.status EXCEPT ![at] = "pending"]
          /\ after.output = [run.output EXCEPT ![at] = 0]
      BY <2>1, StatusFields
    <2>3. /\ \/ Calls("reset", "reset", after) /\ at # Last
             \/ Calls("reset", "restart", after)
          /\ at' = (IF pc' = "reset" THEN at + 1 ELSE 1)
          /\ started' = started
      BY <1>27 DEF ResetStep
    <2> HIDE DEF after
    <2> QED  BY <2>1, <2>2, <2>3, CallEffects, RaiseTargets, RunFields
  <1>28. CASE Restart
    <2> DEFINE after == SetFlow("running", NoStep)
    <2>1. /\ after.flow = "running" /\ after.current = NoStep /\ after.status = run.status
          /\ after.visits = run.visits /\ after.output = run.output /\ after.parsed = run.parsed
      BY FlowFields
    <2>2. Calls("restart", "idle", after) /\ Local  BY <1>28 DEF Restart
    <2> HIDE DEF after
    <2> QED  BY <2>1, <2>2, CallEffects, RaiseTargets, RunFields
  <1>29. CASE Delete  BY <1>29 DEF Delete
  <1>30. CASE Dies
    BY <1>30, DeathMarks, RunFields, RaiseTargets DEF Dies
  <1>31. CASE UNCHANGED vars  BY <1>31 DEF vars
  <1> QED  BY <1>1, <1>2, <1>3, <1>4, <1>5, <1>6, <1>7, <1>8, <1>9, <1>10, <1>11, <1>12,
             <1>13, <1>14, <1>15, <1>16, <1>17, <1>18, <1>19, <1>20, <1>21, <1>22,
             <1>23, <1>24, <1>25, <1>26, <1>27, <1>28, <1>29, <1>30, <1>31
           DEF Next, ProcessStep

(* Agents are started behind the count of visits, and that one grows below *)
(* its limit only.                                                         *)
LEMMA NextStarts == ASSUME TypeOK, StartInv, [Next]_vars PROVE StartInv'
  <1> USE DEF StartInv, NotAtStep, Reads, Local, Kept, faults, agents
  <1>1. CASE CreateRun
    <2>1. run' = run /\ started' = started /\ pc' \in {"workspace", "idle"}
          /\ stored = "none" /\ stored' = "stored"
      BY <1>1 DEF CreateRun
    <2>2. \A s \in Step : run.visits[s] = 0 /\ started[s] = 0
      BY <2>1 DEF NoRun, None
    <2>3. Budget(0) = 0  BY BudgetGrows
    <2> QED  BY <2>1, <2>2, <2>3, CallsAssumption
  <1>2. CASE Resume  BY <1>2, RunFields DEF Resume
  <1>3. ASSUME NEW s \in Step, AskRetry(s) PROVE StartInv'  BY <1>3 DEF AskRetry
  <1>4. ASSUME NEW s \in Step, AskEdit(s) PROVE StartInv'  BY <1>4 DEF AskEdit
  <1>5. CASE SetWorkspace  BY <1>5, CallEffects, RaiseTargets, RunFields DEF SetWorkspace
  <1>6. CASE StartRun
    <2> DEFINE after == SetFlow("running", NoStep)
    <2>1. /\ after.flow = "running" /\ after.current = NoStep /\ after.status = run.status
          /\ after.visits = run.visits /\ after.output = run.output /\ after.parsed = run.parsed
      BY FlowFields
    <2>2. Calls("start", "topology", after) /\ Local  BY <1>6 DEF StartRun
    <2> HIDE DEF after
    <2> QED  BY <2>1, <2>2, CallEffects, RaiseTargets, RunFields
  <1>7. CASE MarkRunning
    <2> DEFINE after == SetFlow("running", run.current)
    <2>1. /\ after.flow = "running" /\ after.current = run.current /\ after.status = run.status
          /\ after.visits = run.visits /\ after.output = run.output /\ after.parsed = run.parsed
      BY FlowFields
    <2>2. Calls("mark", "topology", after) /\ Local  BY <1>7 DEF MarkRunning
    <2> HIDE DEF after
    <2> QED  BY <2>1, <2>2, CallEffects, RaiseTargets, RunFields
  <1>8. CASE EnterLayer  BY <1>8, CallEffects, RaiseTargets, RunFields DEF EnterLayer
  <1>9. CASE PassLast  BY <1>9, CallEffects, RaiseTargets, RunFields DEF PassLast
  <1>10. CASE FinishRun
    <2> DEFINE after == SetFlow("completed", NoStep)
    <2>1. /\ after.flow = "completed" /\ after.current = NoStep /\ after.status = run.status
          /\ after.visits = run.visits /\ after.output = run.output /\ after.parsed = run.parsed
      BY FlowFields
    <2>2. Calls("done", "return", after) /\ Local  BY <1>10 DEF FinishRun
    <2> HIDE DEF after
    <2> QED  BY <2>1, <2>2, CallEffects, RaiseTargets, RunFields
  <1>11. CASE ReturnRun  BY <1>11, CallEffects, RaiseTargets, RunFields DEF ReturnRun
  <1>12. CASE StoreFailure  BY <1>12, CallEffects, RaiseTargets, RunFields DEF StoreFailure
  <1>13. CASE FailRun
    <2> DEFINE after == SetFlow("failed", at)
    <2>1. /\ after.flow = "failed" /\ after.current = at /\ after.status = run.status
          /\ after.visits = run.visits /\ after.output = run.output /\ after.parsed = run.parsed
      BY FlowFields
    <2>2. Calls("failed", "leave", after) /\ Local  BY <1>13 DEF FailRun
    <2> HIDE DEF after
    <2> QED  BY <2>1, <2>2, CallEffects, RaiseTargets, RunFields
  <1>14. CASE LeaveFailed  BY <1>14, CallEffects, RaiseTargets, RunFields DEF LeaveFailed
  <1>15. CASE StoreError  BY <1>15, CallEffects, RaiseTargets, RunFields DEF StoreError
  <1>16. CASE BreakRun
    <2> DEFINE after == SetFlow("failed", NoStep)
    <2>1. /\ after.flow = "failed" /\ after.current = NoStep /\ after.status = run.status
          /\ after.visits = run.visits /\ after.output = run.output /\ after.parsed = run.parsed
      BY FlowFields
    <2>2. Calls("broke", "idle", after) /\ Local  BY <1>16 DEF BreakRun
    <2> HIDE DEF after
    <2> QED  BY <2>1, <2>2, CallEffects, RaiseTargets, RunFields
  <1>17. CASE CheckVisits
    <2>1. pc = "visit" /\ at \in Step /\ run' = run /\ stored' = stored /\ started' = started
      <3>1. PICK next \in {"fail", "begin"} : Calls("visit", next, run)
        BY <1>17 DEF CheckVisits
      <3>2. "visit" \in Place  BY RaiseTargets
      <3>3. pc = "visit" /\ run' = run /\ stored' = stored  BY <3>1, <3>2, CallOutcomes
      <3> QED  BY <1>17, <3>3, RunFields DEF CheckVisits
    <2>2. CASE VisitLimitReached  BY <1>17, <2>1, <2>2, CallEffects, RaiseTargets DEF CheckVisits
    <2>3. CASE ~VisitLimitReached
      <3>1. run.visits[at] < MaxVisits
        BY <2>1, <2>3, RunFields, CallsAssumption DEF VisitLimitReached
      <3>2. at' = at \/ pc' # "begin"  BY <1>17 DEF CheckVisits
      <3>3. pc' \notin {"hook", "render", "rendering", "exec"}
        BY <1>17, <2>3, CallEffects, RaiseTargets DEF CheckVisits
      <3> QED  BY <2>1, <3>1, <3>2, <3>3, RunFields
    <2> QED  BY <2>2, <2>3
  <1>18. CASE BeginStep
    <2> DEFINE after == [run EXCEPT !.status[at] = "running", !.output[at] = 0,
                                   !.visits[at] = @ + 1]
    <2>1. pc = "begin" /\ at \in Step  BY <1>18, RunFields DEF BeginStep, Calls
    <2>2. /\ after.flow = run.flow /\ after.current = run.current
          /\ after.parsed = run.parsed
          /\ after.status = [run.status EXCEPT ![at] = "running"]
          /\ after.output = [run.output EXCEPT ![at] = 0]
          /\ after.visits = [run.visits EXCEPT ![at] = @ + 1]
      BY <2>1, BegunFields
    <2>3. Calls("begin", "hook", after) /\ Local
      BY <1>18 DEF BeginStep
    <2>4. stored = "stored" =>
            /\ run.visits[at] + 1 <= MaxVisits
            /\ started[at] + (Retry + 1) <= Budget(run.visits[at] + 1)
            /\ started[at] <= Budget(run.visits[at] + 1)
      <3>1. \A v \in Nat : Budget(v) \in Nat /\ Budget(v + 1) = Budget(v) + (Retry + 1)
        BY BudgetGrows
      <3> QED  BY <2>1, <3>1, RunFields, CallsAssumption
    <2> HIDE DEF after
    <2> QED  BY <2>1, <2>2, <2>3, <2>4, CallEffects, RaiseTargets, RunFields
  <1>19. CASE LoadForHook  BY <1>19, CallEffects, RaiseTargets, RunFields DEF LoadForHook
  <1>20. CASE RenderPrompt
    <2>1. stored = "stored" /\ at \in Step /\ pc = "render" =>
            started[at] + (Retry + 1) <= Budget(MaxVisits)
      <3>1. \A v \in Nat : v <= MaxVisits => Budget(v) <= Budget(MaxVisits)  BY BudgetGrows
      <3>2. Budget(MaxVisits) \in Nat /\ \A v \in Nat : Budget(v) \in Nat
        BY BudgetGrows, CallsAssumption
      <3> QED  BY <3>1, <3>2, RunFields
    <2> QED  BY <1>20, <2>1, CallEffects, RaiseTargets, RunFields DEF RenderPrompt
  <1>21. CASE Rendered \/ AttemptEnds
    <2>1. /\ pc \in {"rendering", "exec"} /\ at \in Step
          /\ pc' \in {"exec", "fail", "complete"}
          /\ stored' = stored /\ run' = run /\ at' = at
      BY <1>21, RunFields DEF Rendered, AttemptEnds
    <2>2. Budget(MaxVisits) \in Nat /\ \A s \in Step : Budget(run.visits[s]) \in Nat
      BY BudgetGrows, RunFields, CallsAssumption
    <2>3. CASE pc = "rendering" /\ StartAgent(1) /\ pc' = "exec"
      BY <2>1, <2>2, <2>3, RunFields DEF StartAgent
    <2>4. CASE pc = "exec" /\ attempt <= Retry /\ StartAgent(attempt + 1) /\ pc' = "exec"
      BY <2>1, <2>2, <2>4, RunFields DEF StartAgent
    <2>5. CASE started' = started /\ pc' # "exec"
      BY <2>1, <2>5, RunFields
    <2> QED  BY <1>21, <2>3, <2>4, <2>5 DEF Rendered, AttemptEnds
  <1>22. CASE CompleteStep
    <2> DEFINE after == [run EXCEPT !.status[at] = "completed", !.output[at] = run.visits[at]]
    <2>1. pc = "complete" /\ at \in Step  BY <1>22, RunFields DEF CompleteStep, Calls
    <2>2. /\ after.flow = run.flow /\ after.current = run.current
          /\ after.visits = run.visits /\ after.parsed = run.parsed
          /\ after.status = [run.status EXCEPT ![at] = "completed"]
          /\ after.output = [run.output EXCEPT ![at] = run.visits[at]]
      BY <2>1, StatusFields
    <2>3. /\ \/ Calls("complete", "parsed", after) /\ parsed
             \/ Calls("complete", "memory", after) /\ ~parsed
          /\ Local
      <3>1. CASE parsed
        <4>1. (IF parsed THEN "parsed" ELSE "memory") = "parsed"  BY <3>1
        <4>2. Calls("complete", IF parsed THEN "parsed" ELSE "memory", after) /\ Local
          BY <1>22 DEF CompleteStep
        <4>3. Calls("complete", "parsed", after)  BY <4>1, <4>2
        <4> QED  BY <3>1, <4>2, <4>3
      <3>2. CASE ~parsed  BY <1>22, <3>2 DEF CompleteStep
      <3> QED  BY <3>1, <3>2
    <2> HIDE DEF after
    <2> QED  BY <2>1, <2>2, <2>3, CallEffects, RaiseTargets, RunFields
  <1>23. CASE StoreParsed
    <2> DEFINE after == [run EXCEPT !.parsed[at] = run.visits[at]]
    <2>1. pc = "parsed" /\ at \in Step  BY <1>23, RunFields DEF StoreParsed, Calls
    <2>2. /\ after.flow = run.flow /\ after.current = run.current
          /\ after.visits = run.visits /\ after.output = run.output
          /\ after.status = run.status
          /\ after.parsed = [run.parsed EXCEPT ![at] = run.visits[at]]
      BY <2>1, ParsedFields
    <2>3. Calls("parsed", "memory", after) /\ Local
      BY <1>23 DEF StoreParsed
    <2> HIDE DEF after
    <2> QED  BY <2>1, <2>2, <2>3, CallEffects, RaiseTargets, RunFields
  <1>24. CASE WriteMemory  BY <1>24, CallEffects, RaiseTargets, RunFields DEF WriteMemory
  <1>25. CASE MarkFailed
    <2> DEFINE after == [run EXCEPT !.status[at] = "failed", !.output[at] = 0]
    <2>1. pc = "fail" /\ at \in Step  BY <1>25, RunFields DEF MarkFailed, Calls
    <2>2. /\ after.flow = run.flow /\ after.current = run.current
          /\ after.visits = run.visits /\ after.parsed = run.parsed
          /\ after.status = [run.status EXCEPT ![at] = "failed"]
          /\ after.output = [run.output EXCEPT ![at] = 0]
      BY <2>1, StatusFields
    <2>3. Calls("fail", "failing", after) /\ Local
      BY <1>25 DEF MarkFailed
    <2> HIDE DEF after
    <2> QED  BY <2>1, <2>2, <2>3, CallEffects, RaiseTargets, RunFields
  <1>26. CASE StoreEdit  BY <1>26, CallEffects, RaiseTargets, RunFields DEF StoreEdit
  <1>27. CASE ResetStep
    <2> DEFINE after == [run EXCEPT !.status[at] = "pending", !.output[at] = 0]
    <2>1. pc = "reset" /\ at \in Step  BY <1>27, RunFields DEF ResetStep, Calls
    <2>2. /\ after.flow = run.flow /\ after.current = run.current
          /\ after.visits = run.visits /\ after.parsed = run.parsed
          /\ after.status = [run.status EXCEPT ![at] = "pending"]
          /\ after.output = [run.output EXCEPT ![at] = 0]
      BY <2>1, StatusFields
    <2>3. /\ \/ Calls("reset", "reset", after) /\ at # Last
             \/ Calls("reset", "restart", after)
          /\ at' = (IF pc' = "reset" THEN at + 1 ELSE 1)
          /\ started' = started
      BY <1>27 DEF ResetStep
    <2> HIDE DEF after
    <2> QED  BY <2>1, <2>2, <2>3, CallEffects, RaiseTargets, RunFields
  <1>28. CASE Restart
    <2> DEFINE after == SetFlow("running", NoStep)
    <2>1. /\ after.flow = "running" /\ after.current = NoStep /\ after.status = run.status
          /\ after.visits = run.visits /\ after.output = run.output /\ after.parsed = run.parsed
      BY FlowFields
    <2>2. Calls("restart", "idle", after) /\ Local  BY <1>28 DEF Restart
    <2> HIDE DEF after
    <2> QED  BY <2>1, <2>2, CallEffects, RaiseTargets, RunFields
  <1>29. CASE Delete  BY <1>29 DEF Delete
  <1>30. CASE Dies
    BY <1>30, DeathMarks, RunFields, RaiseTargets DEF Dies
  <1>31. CASE UNCHANGED vars  BY <1>31 DEF vars
  <1> QED  BY <1>1, <1>2, <1>3, <1>4, <1>5, <1>6, <1>7, <1>8, <1>9, <1>10, <1>11, <1>12,
             <1>13, <1>14, <1>15, <1>16, <1>17, <1>18, <1>19, <1>20, <1>21, <1>22,
             <1>23, <1>24, <1>25, <1>26, <1>27, <1>28, <1>29, <1>30, <1>31
           DEF Next, ProcessStep
(* The step that is at work is the only one without its parsed value.      *)
LEMMA NextParsed == ASSUME TypeOK, StartInv, ParsedInv, [Next]_vars PROVE ParsedInv'
  <1> USE DEF ParsedInv, ParsedOf, Torn, Done, Underway, NotAtStep, Reads, Local, Kept, faults,
            agents
  <1>1. CASE CreateRun
    <2>1. run' = run /\ pc' \in {"workspace", "idle"} /\ run = NoRun
      BY <1>1 DEF CreateRun, StartInv
    <2>2. \A s \in Step : run.status[s] = "pending"  BY <2>1 DEF NoRun
    <2> QED  BY <2>1, <2>2, RunFields
  <1>2. CASE Resume  BY <1>2, RunFields DEF Resume
  <1>3. ASSUME NEW s \in Step, AskRetry(s) PROVE ParsedInv'  BY <1>3 DEF AskRetry
  <1>4. ASSUME NEW s \in Step, AskEdit(s) PROVE ParsedInv'  BY <1>4 DEF AskEdit
  <1>5. CASE SetWorkspace  BY <1>5, CallEffects, RaiseTargets, RunFields DEF SetWorkspace
  <1>6. CASE StartRun
    <2> DEFINE after == SetFlow("running", NoStep)
    <2>1. /\ after.flow = "running" /\ after.current = NoStep /\ after.status = run.status
          /\ after.visits = run.visits /\ after.output = run.output /\ after.parsed = run.parsed
      BY FlowFields
    <2>2. Calls("start", "topology", after) /\ Local  BY <1>6 DEF StartRun
    <2> HIDE DEF after
    <2> QED  BY <2>1, <2>2, CallEffects, RaiseTargets, RunFields
  <1>7. CASE MarkRunning
    <2> DEFINE after == SetFlow("running", run.current)
    <2>1. /\ after.flow = "running" /\ after.current = run.current /\ after.status = run.status
          /\ after.visits = run.visits /\ after.output = run.output /\ after.parsed = run.parsed
      BY FlowFields
    <2>2. Calls("mark", "topology", after) /\ Local  BY <1>7 DEF MarkRunning
    <2> HIDE DEF after
    <2> QED  BY <2>1, <2>2, CallEffects, RaiseTargets, RunFields
  <1>8. CASE EnterLayer
    <2>1. "topology" \in Place /\ OnRaise["topology"] = "broken"  BY RaiseTargets
    <2>2. ASSUME NEW next, Calls("topology", next, run)
          PROVE  /\ pc = "topology" /\ run' = run /\ stored' = stored /\ pc' \in {next, "broken"}
                 /\ marks \subseteq marks'
      BY <2>1, <2>2, CallEffects
    <2>3. CASE Done(at)  BY <1>8, <2>2, <2>3 DEF EnterLayer
    <2>4. CASE ~Done(at)  BY <1>8, <2>2, <2>4 DEF EnterLayer
    <2> QED  BY <2>3, <2>4
  <1>9. CASE PassLast  BY <1>9, CallEffects, RaiseTargets, RunFields DEF PassLast
  <1>10. CASE FinishRun
    <2> DEFINE after == SetFlow("completed", NoStep)
    <2>1. /\ after.flow = "completed" /\ after.current = NoStep /\ after.status = run.status
          /\ after.visits = run.visits /\ after.output = run.output /\ after.parsed = run.parsed
      BY FlowFields
    <2>2. Calls("done", "return", after) /\ Local  BY <1>10 DEF FinishRun
    <2> HIDE DEF after
    <2> QED  BY <2>1, <2>2, CallEffects, RaiseTargets, RunFields
  <1>11. CASE ReturnRun  BY <1>11, CallEffects, RaiseTargets, RunFields DEF ReturnRun
  <1>12. CASE StoreFailure  BY <1>12, CallEffects, RaiseTargets, RunFields DEF StoreFailure
  <1>13. CASE FailRun
    <2> DEFINE after == SetFlow("failed", at)
    <2>1. /\ after.flow = "failed" /\ after.current = at /\ after.status = run.status
          /\ after.visits = run.visits /\ after.output = run.output /\ after.parsed = run.parsed
      BY FlowFields
    <2>2. Calls("failed", "leave", after) /\ Local  BY <1>13 DEF FailRun
    <2> HIDE DEF after
    <2> QED  BY <2>1, <2>2, CallEffects, RaiseTargets, RunFields
  <1>14. CASE LeaveFailed  BY <1>14, CallEffects, RaiseTargets, RunFields DEF LeaveFailed
  <1>15. CASE StoreError  BY <1>15, CallEffects, RaiseTargets, RunFields DEF StoreError
  <1>16. CASE BreakRun
    <2> DEFINE after == SetFlow("failed", NoStep)
    <2>1. /\ after.flow = "failed" /\ after.current = NoStep /\ after.status = run.status
          /\ after.visits = run.visits /\ after.output = run.output /\ after.parsed = run.parsed
      BY FlowFields
    <2>2. Calls("broke", "idle", after) /\ Local  BY <1>16 DEF BreakRun
    <2> HIDE DEF after
    <2> QED  BY <2>1, <2>2, CallEffects, RaiseTargets, RunFields
  <1>17. CASE CheckVisits
    <2>1. PICK next \in {"fail", "begin"} : Calls("visit", next, run)
      BY <1>17 DEF CheckVisits
    <2>2. "visit" \in Place /\ OnRaise["visit"] = "failing"  BY RaiseTargets
    <2>3. /\ pc = "visit" /\ run' = run /\ stored' = stored /\ pc' \in {next, "failing"}
          /\ marks \subseteq marks'
      BY <2>1, <2>2, CallEffects
    <2> QED  BY <1>17, <2>3, RunFields DEF CheckVisits
  <1>18. CASE BeginStep
    <2> DEFINE after == [run EXCEPT !.status[at] = "running", !.output[at] = 0,
                                   !.visits[at] = @ + 1]
    <2>1. pc = "begin" /\ at \in Step  BY <1>18, RunFields DEF BeginStep, Calls
    <2>2. /\ after.flow = run.flow /\ after.current = run.current
          /\ after.parsed = run.parsed
          /\ after.status = [run.status EXCEPT ![at] = "running"]
          /\ after.output = [run.output EXCEPT ![at] = 0]
          /\ after.visits = [run.visits EXCEPT ![at] = @ + 1]
      BY <2>1, BegunFields
    <2>3. Calls("begin", "hook", after) /\ Local
      BY <1>18 DEF BeginStep
    <2> HIDE DEF after
    <2> QED  BY <2>1, <2>2, <2>3, CallEffects, RaiseTargets, RunFields
  <1>19. CASE LoadForHook  BY <1>19, CallEffects, RaiseTargets, RunFields DEF LoadForHook
  <1>20. CASE RenderPrompt  BY <1>20, CallEffects, RaiseTargets, RunFields DEF RenderPrompt
  <1>21. CASE Rendered \/ AttemptEnds  BY <1>21, RunFields DEF Rendered, AttemptEnds
  <1>22. CASE CompleteStep
    <2> DEFINE after == [run EXCEPT !.status[at] = "completed", !.output[at] = run.visits[at]]
    <2>1. pc = "complete" /\ at \in Step  BY <1>22, RunFields DEF CompleteStep, Calls
    <2>2. /\ after.flow = run.flow /\ after.current = run.current
          /\ after.visits = run.visits /\ after.parsed = run.parsed
          /\ after.status = [run.status EXCEPT ![at] = "completed"]
          /\ after.output = [run.output EXCEPT ![at] = run.visits[at]]
      BY <2>1, StatusFields
    <2>3. /\ \/ Calls("complete", "parsed", after) /\ parsed
             \/ Calls("complete", "memory", after) /\ ~parsed
          /\ Local
      <3>1. CASE parsed
        <4>1. (IF parsed THEN "parsed" ELSE "memory") = "parsed"  BY <3>1
        <4>2. Calls("complete", IF parsed THEN "parsed" ELSE "memory", after) /\ Local
          BY <1>22 DEF CompleteStep
        <4>3. Calls("complete", "parsed", after)  BY <4>1, <4>2
        <4> QED  BY <3>1, <4>2, <4>3
      <3>2. CASE ~parsed  BY <1>22, <3>2 DEF CompleteStep
      <3> QED  BY <3>1, <3>2
    <2> HIDE DEF after
    <2> QED  BY <2>1, <2>2, <2>3, CallEffects, RaiseTargets, RunFields
  <1>23. CASE StoreParsed
    <2> DEFINE after == [run EXCEPT !.parsed[at] = run.visits[at]]
    <2>1. pc = "parsed" /\ at \in Step  BY <1>23, RunFields DEF StoreParsed, Calls
    <2>2. /\ after.flow = run.flow /\ after.current = run.current
          /\ after.visits = run.visits /\ after.output = run.output
          /\ after.status = run.status
          /\ after.parsed = [run.parsed EXCEPT ![at] = run.visits[at]]
      BY <2>1, ParsedFields
    <2>3. Calls("parsed", "memory", after) /\ Local
      BY <1>23 DEF StoreParsed
    <2> HIDE DEF after
    <2> QED  BY <2>1, <2>2, <2>3, CallEffects, RaiseTargets, RunFields
  <1>24. CASE WriteMemory
    <2>1. pc = "memory" /\ run' = run /\ stored' = stored /\ pc' = "topology" /\ marks \subseteq marks'
      <3>1. CASE Calls("memory", "topology", run)
        <4>1. "memory" \in Place /\ OnRaise["memory"] = "topology"  BY RaiseTargets
        <4> QED  BY <3>1, <4>1, CallEffects
      <3>2. CASE ~Calls("memory", "topology", run)
        BY <1>24, <3>2 DEF WriteMemory
      <3> QED  BY <3>1, <3>2
    <2> QED  BY <2>1
  <1>25. CASE MarkFailed
    <2> DEFINE after == [run EXCEPT !.status[at] = "failed", !.output[at] = 0]
    <2>1. pc = "fail" /\ at \in Step  BY <1>25, RunFields DEF MarkFailed, Calls
    <2>2. /\ after.flow = run.flow /\ after.current = run.current
          /\ after.visits = run.visits /\ after.parsed = run.parsed
          /\ after.status = [run.status EXCEPT ![at] = "failed"]
          /\ after.output = [run.output EXCEPT ![at] = 0]
      BY <2>1, StatusFields
    <2>3. Calls("fail", "failing", after) /\ Local
      BY <1>25 DEF MarkFailed
    <2> HIDE DEF after
    <2> QED  BY <2>1, <2>2, <2>3, CallEffects, RaiseTargets, RunFields
  <1>26. CASE StoreEdit  BY <1>26, CallEffects, RaiseTargets, RunFields DEF StoreEdit
  <1>27. CASE ResetStep
    <2> DEFINE after == [run EXCEPT !.status[at] = "pending", !.output[at] = 0]
    <2>1. pc = "reset" /\ at \in Step  BY <1>27, RunFields DEF ResetStep, Calls
    <2>2. /\ after.flow = run.flow /\ after.current = run.current
          /\ after.visits = run.visits /\ after.parsed = run.parsed
          /\ after.status = [run.status EXCEPT ![at] = "pending"]
          /\ after.output = [run.output EXCEPT ![at] = 0]
      BY <2>1, StatusFields
    <2>3. /\ \/ Calls("reset", "reset", after) /\ at # Last
             \/ Calls("reset", "restart", after)
          /\ at' = (IF pc' = "reset" THEN at + 1 ELSE 1)
          /\ started' = started
      BY <1>27 DEF ResetStep
    <2> HIDE DEF after
    <2> QED  BY <2>1, <2>2, <2>3, CallEffects, RaiseTargets, RunFields
  <1>28. CASE Restart
    <2> DEFINE after == SetFlow("running", NoStep)
    <2>1. /\ after.flow = "running" /\ after.current = NoStep /\ after.status = run.status
          /\ after.visits = run.visits /\ after.output = run.output /\ after.parsed = run.parsed
      BY FlowFields
    <2>2. Calls("restart", "idle", after) /\ Local  BY <1>28 DEF Restart
    <2> HIDE DEF after
    <2> QED  BY <2>1, <2>2, CallEffects, RaiseTargets, RunFields
  <1>29. CASE Delete  BY <1>29 DEF Delete
  <1>30. CASE Dies
    BY <1>30, DeathMarks, RunFields, RaiseTargets DEF Dies
  <1>31. CASE UNCHANGED vars  BY <1>31 DEF vars
  <1> QED  BY <1>1, <1>2, <1>3, <1>4, <1>5, <1>6, <1>7, <1>8, <1>9, <1>10, <1>11, <1>12,
             <1>13, <1>14, <1>15, <1>16, <1>17, <1>18, <1>19, <1>20, <1>21, <1>22,
             <1>23, <1>24, <1>25, <1>26, <1>27, <1>28, <1>29, <1>30, <1>31
           DEF Next, ProcessStep

(* An agent is started late only behind a prompt that was loaded before    *)
(* the deletion: no call that finds the run gone leads to one.             *)
LEMMA NextLate == ASSUME TypeOK, StartInv, LateInv, [Next]_vars PROVE LateInv'
  <1> USE CallsAssumption DEF LateInv, LateStartsBounded, Reads, Local, faults, agents
  <1>1. ASSUME NEW place \in Place, NEW next, NEW after, Calls(place, next, after), late' = late,
               next # "exec", next = "rendering" => stored' # "deleted" \/ late = 0
        PROVE  LateInv'
    <2>1. OnRaise[place] \notin {"rendering", "exec"}  BY RaiseTargets
    <2>2. /\ stored' = stored /\ pc' \in {next, OnRaise[place]}
          /\ (stored # "stored" => pc' = OnRaise[place])
      BY <1>1, CallEffects
    <2>3. late \in Nat  BY RunFields
    <2> QED  BY <1>1, <2>1, <2>2, <2>3
  <1>2. CASE Rendered
    <2>1. late = 0 /\ stored' = stored  BY <1>2 DEF Rendered
    <2>2. \/ pc' = "fail" /\ late' = late
          \/ pc' = "exec" /\ StartAgent(1)
      BY <1>2 DEF Rendered
    <2> QED  BY <2>1, <2>2 DEF StartAgent
  <1>3. CASE AttemptEnds
    <2>1. pc = "exec" /\ stored' = stored /\ late \in Nat /\ attempt \in 0 .. (Retry + 1)
      BY <1>3, RunFields DEF AttemptEnds
    <2>2. \/ pc' \in {"complete", "fail"} /\ late' = late
          \/ pc' = "exec" /\ attempt <= Retry /\ StartAgent(attempt + 1)
      BY <1>3, <2>1 DEF AttemptEnds
    <2> QED  BY <2>1, <2>2 DEF StartAgent
  <1>4. CASE CreateRun
    <2>1. late = 0 /\ late' = late /\ pc' \in {"workspace", "idle"}
      BY <1>4, RunFields DEF CreateRun
    <2> QED  BY <2>1
  <1>5. CASE Resume \/ PassLast \/ Dies \/ \E s \in Step : AskRetry(s) \/ AskEdit(s)
    <2>1. late' = late /\ stored' = stored /\ pc' \in {"mark", "done", "idle", "reset", "edit"}
      BY <1>5 DEF Resume, PassLast, Dies, AskRetry, AskEdit
    <2> QED  BY <2>1
  <1>6. CASE Delete  BY <1>6 DEF Delete
  <1>7. CASE \/ SetWorkspace \/ StartRun \/ MarkRunning \/ EnterLayer \/ FinishRun \/ ReturnRun
             \/ StoreFailure \/ FailRun \/ LeaveFailed \/ StoreError \/ BreakRun
             \/ CheckVisits \/ BeginStep \/ LoadForHook \/ CompleteStep \/ StoreParsed
             \/ MarkFailed \/ StoreEdit \/ ResetStep \/ Restart
    <2>1. \E place \in Place, next \in Place \cup {"idle"} :
              (\E after : Calls(place, next, after)) /\ late' = late
      BY <1>7, RaiseTargets
         DEF SetWorkspace, StartRun, MarkRunning, EnterLayer, FinishRun, ReturnRun,
             StoreFailure, FailRun, LeaveFailed, StoreError, BreakRun, CheckVisits, BeginStep,
             LoadForHook, CompleteStep, StoreParsed, MarkFailed, StoreEdit, ResetStep, Restart
    <2>2. {"rendering", "exec"} \cap (Place \cup {"idle"}) = {}  BY RaiseTargets
    <2> QED  BY <1>1, <2>1, <2>2
  <1>8. CASE RenderPrompt
    <2>1. "render" \in Place  BY RaiseTargets
    <2>2. Calls("render", "rendering", run) /\ late' = late  BY <1>8 DEF RenderPrompt
    <2>3. late \in Nat  BY RunFields
    <2>4. stored' = stored /\ (stored # "stored" => pc' = OnRaise["render"])
      BY <2>1, <2>2, CallEffects
    <2>5. pc' = "rendering" => stored = "stored"  BY <2>4, RaiseTargets
    <2>6. pc' \in {"rendering", "fail"}  BY <2>1, <2>2, CallEffects, RaiseTargets
    <2> QED  BY <2>2, <2>3, <2>4, <2>5, <2>6
  <1>9. CASE WriteMemory
    <2>1. pc' = "topology" /\ late' = late /\ stored' = stored
      <3>1. "memory" \in Place /\ OnRaise["memory"] = "topology"  BY RaiseTargets
      <3>2. CASE Calls("memory", "topology", run)
        BY <1>9, <3>1, <3>2, CallEffects DEF WriteMemory
      <3>3. CASE ~Calls("memory", "topology", run)  BY <1>9, <3>3 DEF WriteMemory
      <3> QED  BY <3>2, <3>3
    <2> QED  BY <2>1
  <1>10. CASE UNCHANGED vars  BY <1>10 DEF vars
  <1> QED  BY <1>2, <1>3, <1>4, <1>5, <1>6, <1>7, <1>8, <1>9, <1>10 DEF Next, ProcessStep

CallsInv == TypeOK /\ StartInv /\ LateInv /\ GoInv /\ ParsedInv

(* The initial state satisfies the inductive invariant.                    *)
LEMMA InitCalls == Init => CallsInv
  <1> SUFFICES ASSUME Init PROVE CallsInv
    OBVIOUS
  <1>1. TypeOK
    <2>1. NoRun \in Run
      BY DEF NoRun, None, Run, NoStep, FlowStatus, StepStatus
    <2>2. None \in [Step -> Nat]  BY DEF None
    <2>3. 1 \in 1 .. (Last + 1) /\ 0 \in 0 .. MaxFaults /\ 0 \in 0 .. (Retry + 1)
      BY CallsAssumption
    <2> QED  BY <2>1, <2>2, <2>3 DEF Init, TypeOK
  <1>2. Budget(MaxVisits) \in Nat  BY BudgetGrows, CallsAssumption
  <1>3. StartInv /\ LateInv /\ GoInv /\ ParsedInv
    BY <1>2, CallsAssumption
       DEF Init, None, StartInv, LateInv, LateStartsBounded, GoInv, ParsedInv
  <1> QED  BY <1>1, <1>3 DEF CallsInv

(* The inductive invariant holds in every reachable state.                 *)
THEOREM CallsAlways == Spec => []CallsInv
  <1>1. CallsInv /\ [Next]_vars => CallsInv'
    BY NextTyped, NextStarts, NextLate, NextGoes, NextParsed DEF CallsInv
  <1> QED  BY InitCalls, <1>1, PTL DEF Spec

(* Whatever raises and dies, no more agents are started for a step than    *)
(* max_visits visits have attempts.                                        *)
THEOREM StartsAreBounded == Spec => []StartsBounded
  <1>1. CallsInv => StartsBounded  BY DEF CallsInv, StartInv, StartsBounded, Budget
  <1> QED  BY CallsAlways, <1>1, PTL

(* Whatever raises and dies, but at the stranding calls, an idle run may   *)
(* be resumed or retried, or is completed with all its steps.              *)
THEOREM RunsGoOn == Spec => []CanGoOn
  <1>1. CallsInv => CanGoOn
    BY DEF CallsInv, GoInv, WayOn, AtFailedStep, Stranded, CanGoOn
  <1> QED  BY CallsAlways, <1>1, PTL

(* But for a fault between the two calls that store them, the output and   *)
(* the parsed value of a completed step are of the same visit.             *)
THEOREM ParsedBelongs == Spec => []ParsedIsOfOutput
  <1>1. CallsInv => ParsedIsOfOutput
    BY DEF CallsInv, ParsedInv, ParsedOf, ParsedIsOfOutput
  <1> QED  BY CallsAlways, <1>1, PTL

(* The driver of a deleted run makes no further visit: at most the agents  *)
(* of the one whose prompt was loaded before the deletion start late.      *)
THEOREM LateStartsAreBounded == Spec => []LateStartsBounded
  <1>1. CallsInv => LateStartsBounded  BY DEF CallsInv, LateInv
  <1> QED  BY CallsAlways, <1>1, PTL
=============================================================================
