------------------------------ MODULE FlowText ------------------------------
(***************************************************************************)
(* The fields of a flow, from its YAML text to the flow that a resume runs: *)
(* parse, validate and dump_flow of core/engine.py, _apply_flow_defaults   *)
(* of cli/main.py, and what run() of core/runner.py stores of a flow and   *)
(* makes of it again.                                                      *)
(*                                                                         *)
(* YAML itself is the library's.  A value of a document is a record with   *)
(* one field, named for its kind; a mapping is a function from the keys    *)
(* that are given.  A parsed flow keeps its fields as such values, with    *)
(* defaults in the place of what is missing or null.                       *)
(***************************************************************************)
EXTENDS Integers, SequencesExt

Null == [null |-> TRUE]
Bool(b) == [bool |-> b]
Num(n) == [int |-> n]
Str(s) == [str |-> s]
List(items) == [list |-> items]
Map(mapping) == [map |-> mapping]

Kind(v) == CHOOSE kind \in DOMAIN v : TRUE
Empty == [key \in {} |-> Null]

Get(mapping, key) == IF key \in DOMAIN mapping THEN mapping[key] ELSE Null
Section(mapping, key) == IF Get(mapping, key) = Null THEN Empty ELSE mapping[key].map
Items(mapping, key) == IF Get(mapping, key) = Null THEN <<>> ELSE mapping[key].list

NoText == Str("")
No == Bool(FALSE)
Truthy(v) == v \notin {Null, NoText, Num(0), No, List(<<>>)}

-----------------------------------------------------------------------------
(* What parse accepts: known keys with values of the right kind.  The      *)
(* budgets of a step are taken as they are, and validate looks at them.    *)

Text == {"null", "str"}
Whole == {"null", "int"}
Several == {"null", "list"}
Nested == {"null", "map"}
Anything == Text \cup Whole \cup Several \cup Nested \cup {"bool"}

RootKinds == [name |-> Text, version |-> Whole, description |-> Text, defaults |-> Nested,
              memory |-> Nested, secrets |-> Nested, steps |-> Several]
DefaultsKinds == [timeout |-> Whole, retry |-> Whole, max_visits |-> Whole, fail_fast |-> {"bool"}]
MemoryKinds == [workspace |-> Text]
SecretsKinds == [required |-> Several]
StepKinds == [id |-> Text, agent |-> Text, prompt |-> Text, type |-> Text,
              depends_on |-> Several, timeout |-> Anything, retry |-> Anything,
              max_visits |-> Anything, group |-> Text, output |-> Nested,
              message |-> Text, options |-> Several, terminal |-> {"bool"}]
OutputKinds == [format |-> Text, schema |-> Nested]
OptionKinds == [label |-> Text, action |-> Text, target |-> Text]

Fits(mapping, kinds) ==
    /\ DOMAIN mapping \subseteq DOMAIN kinds
    /\ \A key \in DOMAIN mapping : Kind(mapping[key]) \in kinds[key]

AllStrings(values) == \A v \in values : Kind(v) = "str"

OptionFits(option) == Kind(option) = "map" /\ Fits(option.map, OptionKinds)

StepFits(step) ==
    /\ Kind(step) = "map" /\ Fits(step.map, StepKinds)
    /\ LET output == Section(step.map, "output")
           schema == Section(output, "schema")
       IN  Fits(output, OutputKinds) /\ AllStrings({schema[f] : f \in DOMAIN schema})
    /\ AllStrings(ToSet(Items(step.map, "depends_on")))
    /\ \A option \in ToSet(Items(step.map, "options")) : OptionFits(option)

Parses(doc) ==
    /\ Fits(doc, RootKinds)
    /\ Fits(Section(doc, "defaults"), DefaultsKinds)
    /\ Fits(Section(doc, "memory"), MemoryKinds)
    /\ Fits(Section(doc, "secrets"), SecretsKinds)
    /\ AllStrings(ToSet(Items(Section(doc, "secrets"), "required")))
    /\ \A step \in ToSet(Items(doc, "steps")) : StepFits(step)

-----------------------------------------------------------------------------
(* The flow it makes of them.                                              *)

HeadDefault == [name |-> NoText, version |-> Num(1), description |-> NoText]
DefaultsDefault == [timeout |-> Num(300), retry |-> Num(1), max_visits |-> Num(3),
                    fail_fast |-> No]
MemoryDefault == [workspace |-> Str("default")]
SecretsDefault == [required |-> List(<<>>)]
StepDefault == [id |-> NoText, agent |-> NoText, prompt |-> NoText, type |-> Str("agent"),
                depends_on |-> List(<<>>), timeout |-> Null, retry |-> Null,
                max_visits |-> Null, group |-> Null, output |-> Null, message |-> NoText,
                options |-> List(<<>>), terminal |-> No]
OutputDefault == [format |-> Str("text"), schema |-> Map(Empty)]
OptionDefault == [label |-> NoText, action |-> NoText, target |-> NoText]

Filled(mapping, default) ==
    [key \in DOMAIN default |->
       IF Get(mapping, key) = Null THEN default[key] ELSE mapping[key]]

ParseStep(raw) ==
    [Filled(raw, StepDefault) EXCEPT
       !.output = IF @ = Null THEN Null ELSE Map(Filled(@.map, OutputDefault)),
       !.options = List([i \in DOMAIN @.list |-> Map(Filled(@.list[i].map, OptionDefault))])]

Parse(doc) ==
    LET steps == Items(doc, "steps")
    IN  [head     |-> Filled(doc, HeadDefault),
         defaults |-> Filled(Section(doc, "defaults"), DefaultsDefault),
         memory   |-> Filled(Section(doc, "memory"), MemoryDefault),
         secrets  |-> Filled(Section(doc, "secrets"), SecretsDefault),
         steps    |-> [i \in DOMAIN steps |-> ParseStep(steps[i].map)]]

-----------------------------------------------------------------------------
(* dump_flow: what of a step is written.                                   *)

DumpStepTruthy(step) ==    \* mutant: a budget of zero counts as not given
    [key \in {k \in DOMAIN step : k \in {"id", "type", "depends_on"} \/ Truthy(step[k])}
       |-> step[key]]
DumpStep(step) ==
    [key \in {k \in DOMAIN step :
                \/ k \in {"id", "type", "depends_on"}
                \/ k \in {"agent", "prompt", "message", "options", "terminal"} /\ Truthy(step[k])
                \/ k \in {"timeout", "retry", "max_visits", "group", "output"} /\ step[k] # Null}
       |-> step[key]]

Dump(flow) ==
    [name |-> flow.head.name, version |-> flow.head.version,
     description |-> flow.head.description, defaults |-> Map(flow.defaults),
     memory |-> Map(flow.memory), secrets |-> Map(flow.secrets),
     steps |-> List([i \in DOMAIN flow.steps |-> Map(DumpStep(flow.steps[i]))])]

-----------------------------------------------------------------------------
(* validate: the fields; the graph and the references are in FlowGraph and *)
(* References.                                                             *)

AtLeast(v, n) == Kind(v) = "int" /\ v.int >= n
Blank == {"", " "}
IsStepId(s) == s \notin Blank    \* the pattern of step ids
Types == {"string", "integer", "number", "boolean", "object", "array", "null"}

StepIds(flow) == [i \in DOMAIN flow.steps |-> flow.steps[i].id.str]

ValidOutput(output) ==
    /\ output.format.str \in {"text", "json", "markdown"}
    /\ DOMAIN output.schema.map # {} => output.format.str = "json"
    /\ \A f \in DOMAIN output.schema.map : f # "" /\ output.schema.map[f].str \in Types

ValidOptions(options, ids) ==
    /\ options # <<>>
    /\ IsInjective([i \in DOMAIN options |-> options[i].map.label.str])
    /\ \A i \in DOMAIN options :
         LET option == options[i].map
         IN  /\ option.label # NoText
             /\ option.action.str \in {"next_step", "goto_step", "terminate"}
             /\ option.action.str = "goto_step" => option.target.str \in ids

ValidStep(step, ids) ==
    /\ IsStepId(step.id.str)
    /\ step.group = Null \/ step.group # NoText
    /\ step.timeout = Null \/ AtLeast(step.timeout, 1)
    /\ step.retry = Null \/ AtLeast(step.retry, 0)
    /\ step.max_visits = Null \/ AtLeast(step.max_visits, 1)
    /\ step.output = Null \/ ValidOutput(step.output.map)
    /\ \/ step.type.str = "agent" /\ step.agent.str \notin Blank
       \/ step.type.str = "human_gate" /\ ValidOptions(step.options.list, ids)

ValidFields(flow) ==
    /\ flow.head.name.str \notin Blank /\ flow.head.version.int >= 1
    /\ flow.steps # <<>>
    /\ flow.defaults.timeout.int > 0 /\ flow.defaults.retry.int >= 0
    /\ flow.defaults.max_visits.int > 0
    /\ flow.memory.workspace # NoText
    /\ LET required == flow.secrets.required.list
       IN  IsInjective(required) /\ NoText \notin ToSet(required)
    /\ IsInjective(StepIds(flow))
    /\ \A i \in DOMAIN flow.steps :
         /\ ValidStep(flow.steps[i], ToSet(StepIds(flow)))
         /\ IsInjective(flow.steps[i].depends_on.list)

\* The graph of a flow with unique ids, as FlowGraph has it.
GraphOf(flow) ==
    LET ids == StepIds(flow)
        Deps(i) == {d.str : d \in ToSet(flow.steps[i].depends_on.list)}
    IN  [ids |-> ids, deps |-> [s \in ToSet(ids) |-> Deps(CHOOSE i \in DOMAIN ids : ids[i] = s)]]

-----------------------------------------------------------------------------
(* The budgets the runner works with.                                      *)
OrDefault(step, flow, key) == IF Truthy(step[key]) THEN step[key] ELSE flow.defaults[key]
MaxVisitsOf(step, flow) == OrDefault(step, flow, "max_visits")
TimeoutOf(step, flow) == OrDefault(step, flow, "timeout")
RetryOf(step, flow) == IF step.retry # Null THEN step.retry ELSE flow.defaults.retry

(* `flow run` gives a flow that names no workspace that of the config.     *)
ApplyFlowDefaults(doc, flow, workspace) ==
    IF "workspace" \in DOMAIN Section(doc, "memory") THEN flow
    ELSE [flow EXCEPT !.memory.workspace = Str(workspace)]

(* A resume parses the snapshot and takes the workspace of the context.    *)
Resumed(snapshot, persisted) ==
    LET flow == Parse(snapshot)
    IN  IF Truthy(persisted) THEN [flow EXCEPT !.memory.workspace = persisted] ELSE flow
AcceptsFlow(flow, snapshot, persisted) == Dump(flow) = Dump(Resumed(snapshot, persisted))
=============================================================================
