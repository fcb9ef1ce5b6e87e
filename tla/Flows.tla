-------------------------------- MODULE Flows --------------------------------
(***************************************************************************)
(* Builds every flow of at most Len(Names) steps, one step at a time in    *)
(* YAML order, and compares the graph algorithms of FlowGraph with         *)
(* GraphSpec, which is written without them.  A step may depend on itself  *)
(* and on any id of Names, those that no step has yet included, so that    *)
(* cyclic flows and flows with unknown dependencies are among those built. *)
(*                                                                         *)
(* Instead of a flow it may build a memory: up to MaxMemories records that *)
(* supersede each other in any way, for the resolver of Memories.  Or it   *)
(* writes a document: a valid flow of an agent and a gate, in which up to  *)
(* MaxEdits keys are given any value of any kind, for FlowText.            *)
(***************************************************************************)
EXTENDS GraphSpec, References, Memories, FlowText

CONSTANTS
    Names,        \* bound: the ids, of the first step, the second, ...
    MaxDeps,      \* bound: the longest depends_on list built
    MaxMemories,  \* bound: the ids a memory uses
    MaxHops,      \* max_superseded_hops
    MaxEdits      \* bound: the keys of a document that are given

AllNames == ToSet(Names)

ASSUME BuilderAssumption ==
    /\ Names \in Seq(AllNames) /\ IsInjective(Names)
    /\ MaxDeps \in Nat /\ MaxMemories \in Nat /\ MaxHops \in Nat /\ MaxEdits \in Nat

VARIABLES
    built,     \* the flow
    memories,  \* the records of the memory
    given,     \* the ids decided upon: 1 .. given
    parts,     \* the mappings of the document, by name
    edits      \* how many keys were given in them

vars == <<built, memories, given, parts, edits>>

\* f, and where it is not defined g; and a function of one argument.
With(f, g) == [x \in DOMAIN f \cup DOMAIN g |-> IF x \in DOMAIN f THEN f[x] ELSE g[x]]
At(key, value) == [x \in {key} |-> value]

EmptyFlow == [ids |-> <<>>, deps |-> <<>>]

Parts == [root |-> [name |-> Str("flow")], defaults |-> Empty, memory |-> Empty,
          secrets |-> Empty, output |-> Empty,
          agent |-> [id |-> Str("a"), agent |-> Str("x")],
          gate |-> [id |-> Str("g"), type |-> Str("human_gate"), depends_on |-> List(<<Str("a")>>)],
          option |-> [label |-> Str("yes"), action |-> Str("next_step")]]

Init == built = EmptyFlow /\ memories = <<>> /\ given = 0 /\ parts = Parts /\ edits = 0

AddStep(depends) ==
    /\ given = 0 /\ edits = 0 /\ UNCHANGED <<memories, given, parts, edits>>
    /\ Len(built.ids) < Len(Names)
    /\ LET id == Names[Len(built.ids) + 1]
       IN  built' = [ids |-> Append(built.ids, id), deps |-> With(built.deps, At(id, depends))]

(* The next id exists or is missing; a record is active, superseded by any *)
(* id or by none.                                                          *)
AddMemory(exists, record) ==
    /\ built = EmptyFlow /\ edits = 0 /\ given < MaxMemories
    /\ given' = given + 1
    /\ memories' = IF exists THEN With(memories, At(given', record)) ELSE memories
    /\ UNCHANGED <<built, parts, edits>>

(* A key of a mapping is given, or one that there is none of.              *)
Keys == [root |-> RootKinds, defaults |-> DefaultsKinds, memory |-> MemoryKinds,
         secrets |-> SecretsKinds, output |-> OutputKinds, agent |-> StepKinds,
         gate |-> StepKinds, option |-> OptionKinds]

Values == {Null, Bool(TRUE), No, Num(0), Num(2), NoText, Str("g"), Str("json"),
           Str("goto_step"), List(<<>>), List(<<Str("a")>>), Map(Empty),
           Map([field |-> Str("string")])}

GiveKey(part, key, value) ==
    /\ built = EmptyFlow /\ given = 0 /\ edits < MaxEdits
    /\ edits' = edits + 1
    /\ parts' = [parts EXCEPT ![part] = With(At(key, value), @)]
    /\ UNCHANGED <<built, memories, given>>

(* The document the mappings make up; one that is named in another as well *)
(* is what it is there.                                                    *)
Doc ==
    LET Written(part) == IF parts[part] = Empty THEN Empty ELSE At(part, Map(parts[part]))
        yes == Map(parts.option)
        no == Map([label |-> Str("no"), action |-> Str("goto_step"), target |-> Str("a")])
        agent == With(parts.agent, Written("output"))
        gate == With(parts.gate, [options |-> List(<<yes, no>>)])
        rest == With(Written("memory"), Written("secrets"))
        steps == [steps |-> List(<<Map(agent), Map(gate)>>)]
    IN  With(parts.root, With(Written("defaults"), With(rest, steps)))

Records == {[superseded |-> FALSE, by |-> NoMemory]}
           \cup [superseded : {TRUE}, by : 0 .. MaxMemories]

Next ==
    \/ \E depends \in UNION {kSubset(k, AllNames) : k \in 0 .. MaxDeps} :
         AddStep(depends)
    \/ \E exists \in BOOLEAN, record \in Records : AddMemory(exists, record)
    \/ \E part \in DOMAIN Parts : \E key \in DOMAIN Keys[part] \cup {"other"}, value \in Values :
         GiveKey(part, key, value)

Spec == Init /\ [][Next]_vars

-----------------------------------------------------------------------------
(* ancestors() and descendants() compute exactly the two directions of     *)
(* reachability, also on cyclic flows and across an unknown dependency.    *)
SearchIsReachability == SearchesReach(built)

(* layered_order() raises on exactly the flows that have a cycle among     *)
(* their own steps, whatever unknown dependencies they also have.  On the  *)
(* others the layers are a partition of the steps, no step comes before    *)
(* one it depends on or with it, and a step is placed as early as its      *)
(* dependencies allow: its layer follows the last of theirs.               *)
LayersAreTopological == OrderIsRight(built)

FieldsAreRunnable(f) ==
    LET ids == ToSet(StepIds(f))
        IsWhole(v, n) == DOMAIN v = {"int"} /\ v.int >= n
    IN  \A step \in ToSet(f.steps) :
          /\ IsWhole(MaxVisitsOf(step, f), 1)
          /\ IsWhole(TimeoutOf(step, f), 1)
          /\ IsWhole(RetryOf(step, f), 0)
          /\ step.type = Str("human_gate") =>
               /\ step.options # List(<<>>)
               /\ \A option \in ToSet(step.options.list) :
                    option.map.action = Str("goto_step") => option.map.target.str \in ids

(* What the model of the runner assumes of a flow (GraphAssumption and     *)
(* FlowAssumption of StepRunner) holds of those that pass validation: the  *)
(* layers order dependencies, the descendants are those of the dependency  *)
(* relation, every budget is a number of at least what it must be, from    *)
(* whichever place it comes and whatever kind of value stands there, and a *)
(* gate goes to steps of the flow.                                         *)
ValidFlowIsRunnable ==
    /\ ValidGraph(built) => GraphIsRunnable(built)
    /\ Parses(Doc) =>
         LET f == Parse(Doc)
         IN  ValidFields(f) /\ ValidGraph(GraphOf(f)) =>
               FieldsAreRunnable(f) /\ GraphIsRunnable(GraphOf(f))

(* A resume runs the flow that was run, whether the snapshot is the text   *)
(* of the flow or was dumped from it, and wherever the workspace came from; *)
(* and it accepts that flow where a host supplies it again.                *)
ResumeRunsSameFlow ==
    Parses(Doc) =>
      \A workspace \in {"", "own"} :
        LET f == ApplyFlowDefaults(Doc, Parse(Doc), workspace)
        IN  ValidFields(f) => \A snapshot \in {Doc, Dump(f)} :
              /\ Parses(snapshot) /\ ValidFields(Parse(snapshot))
              /\ Resumed(snapshot, f.memory.workspace) = f
              /\ AcceptsFlow(f, snapshot, f.memory.workspace)

(* The two rules about references agree: one that validation accepts finds *)
(* an output as soon as what its step depends on has completed, and one    *)
(* that it rejects would find none then, whichever group the step referred *)
(* to is in.                                                               *)
ReferencesResolve ==
    \A s \in Ids(built) :
      LET upstream == Ancestors(built, s)
          completed == upstream \cap Ids(built)
      IN  \A t \in AllNames, named \in {NoGroup, "g", "h"}, actual \in {NoGroup, "g"} :
            LET group == [x \in Ids(built) |-> IF x = t THEN actual ELSE NoGroup]
                ref == [group |-> named, target |-> t]
            IN  ReferenceErrors(built, group, s, ref) = {}
                  <=> Resolve(group, completed, ref) = "output"

(* The chains of superseded records from an id, with up to n successors.   *)
Chains(start, n) ==
    {p \in UNION {[1 .. k -> 1 .. MaxMemories] : k \in 1 .. (n + 1)} :
       /\ p[1] = start
       /\ \A i \in 1 .. (Len(p) - 1) :
            /\ p[i] \in DOMAIN memories /\ memories[p[i]].superseded
            /\ memories[p[i]].by = p[i + 1]}

Active(id) == id \in DOMAIN memories /\ ~memories[id].superseded

(* A reference to a memory yields the content of the active record at the  *)
(* end of its chain whenever that is at most MaxHops successors away, and  *)
(* never that of a superseded one; a reported cycle is one, from which no  *)
(* active record can be reached however far one went.                      *)
MemoryIsCurrent ==
    given > 0 => \A start \in 1 .. MaxMemories :
      LET found == Follow(memories, start, MaxHops)
      IN  /\ found.kind # "searching"
          /\ \A id \in 1 .. MaxMemories :
               found = [kind |-> "content", id |-> id]
                 <=> Active(id) /\ \E p \in Chains(start, MaxHops) : Last(p) = id
          /\ found.kind = "cycle" =>
               \A p \in Chains(start, MaxMemories) : ~Active(Last(p))
=============================================================================
