---------------------------- MODULE GraphBuilder ----------------------------
(***************************************************************************)
(* GraphBuilder of crates/ir/src/builder.rs: a caller makes any sequence   *)
(* of calls, with any node ids it holds (ids of another builder included), *)
(* and finally calls build.  A call that is refused returns an error and   *)
(* leaves the builder as it was: it is a stuttering step here.             *)
(***************************************************************************)
EXTENDS TensorEval

CONSTANTS Names, DTypes, Shapes,  \* what a caller may declare
          Payloads,               \* literal data of constants
          AxisLists,              \* axes arguments of sum
          Environments,           \* what the graph may be evaluated on
          MaxNodes, MaxOutputs    \* bounds of the checked instances

ASSUME BuilderAssumption ==
  /\ MaxNodes \in Nat
  /\ MaxOutputs \in Nat
  /\ Shapes \subseteq Seq(Nat) /\ AxisLists \subseteq Seq(Nat)
  /\ \A data \in Payloads : data \in Seq(Range(data))
  /\ \A env \in Environments : IsEnvironment(env)

VARIABLES graph,   \* the builder's nodes, inputs and outputs
          result   \* what build returned, "Building" before the call

vars == <<graph, result>>

\* Ids a caller can hold: those of this arena, and stale ones beyond it.
HeldIds == 1 .. (MaxNodes + 1)

Init == graph = EmptyGraph /\ result = "Building"

-----------------------------------------------------------------------------
(* The builder's methods.  All but `input` validate before they push.       *)
Emit(node) ==
  /\ result = "Building"
  /\ Len(graph.nodes) < MaxNodes
  /\ EmitError(graph, node) = "None"
  /\ graph' = Push(graph, node)
  /\ UNCHANGED result

Input(name, dtype, shape) == Emit(InputNode(name, dtype, shape))

Constant(dtype, shape, data) == Emit(ConstNode(dtype, shape, data))

Binary(op, left, right) == Emit(BinaryNode(op, left, right))

Unary(op, input) == Emit(UnaryNode(op, input))

Sum(input, axes, keepdim) == Emit(SumNode(input, axes, keepdim))

Reshape(input, shape) == Emit(ReshapeNode(input, shape))

MarkOutput(id) ==
  /\ result = "Building"
  /\ Len(graph.outputs) < MaxOutputs
  /\ id \in Ids(graph)
  /\ graph' = [graph EXCEPT !.outputs = Append(@, id)]
  /\ UNCHANGED result

\* build consumes the builder and returns what validate_structure says.
Build ==
  /\ result = "Building"
  /\ result' = StructureError(graph)
  /\ UNCHANGED graph

Next ==
  \/ \E name \in Names, dtype \in DTypes, shape \in Shapes :
        Input(name, dtype, shape)
  \/ \E dtype \in DTypes, shape \in Shapes, data \in Payloads :
        Constant(dtype, shape, data)
  \/ \E op \in BinaryOps, left, right \in HeldIds : Binary(op, left, right)
  \/ \E op \in UnaryOps, input \in HeldIds : Unary(op, input)
  \/ \E input \in HeldIds, axes \in AxisLists, keepdim \in BOOLEAN :
        Sum(input, axes, keepdim)
  \/ \E input \in HeldIds, shape \in Shapes : Reshape(input, shape)
  \/ \E id \in HeldIds : MarkOutput(id)
  \/ Build

Spec == Init /\ [][Next]_vars

-----------------------------------------------------------------------------
Attrs ==
  {NoAttr} \cup [name : Names, dtype : DTypes, shape : Shapes]
           \cup [dtype : DTypes, shape : Shapes, data : Payloads]
           \cup [axes : AxisLists, keepdim : BOOLEAN]
           \cup [shape : Shapes]

TypeOK ==
  /\ graph \in GraphsOver(Attrs)
  /\ result \in {"Building", "None", "NoOutputs", "InvalidNodeId",
                 "ForwardReference", "NotAnInput", "ShapeOverflow",
                 "ConstDataShapeMismatch"}

\* The builder fails closed: whatever calls were made before, the only error
\* that is left for build to find is that no output was marked.
BuildFindsOnlyMissingOutputs ==
  result # "Building" =>
     result = (IF graph.outputs = << >> THEN "NoOutputs" ELSE "None")

\* The input list is exactly the Input nodes, in arena order, at every moment.
\* Pruning and rebuilding re-create the list node by node, and rely on that
\* order for the input signature to stay the same.
InputListIsInputNodes == InputsAreInputs(graph) /\ InputsListed(graph)

\* What inference accepts the interpreter computes, with the shapes inferred and
\* every index in range: its internal consistency checks fail only when an inferred
\* shape has no element count, which a zero extent can hide from the checks on
\* operands.
InternalErrorsOnlyFromOverflow ==
  result = "None" =>
     \A env \in Environments :
        Eval(graph, env).err = "Internal" =>
           \E t \in Range(InferTypes(graph).types) : Numel(t.shape) = Overflow
=============================================================================
