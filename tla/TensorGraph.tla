----------------------------- MODULE TensorGraph -----------------------------
(***************************************************************************)
(* The graph IR of crates/ir: nodes, the arena-backed graph, structural    *)
(* validation, the step that emits one node, and type inference.           *)
(*                                                                         *)
(* A node is [op, args, attr]: the operation, its operand ids in source    *)
(* order, and what else the Rust variant carries:                          *)
(*    Input   [name, dtype, shape]     Const    [dtype, shape, data]       *)
(*    Sum     [axes, keepdim]          Reshape  [shape]                    *)
(* A graph is [nodes, inputs, outputs].  Arena indices, operand ids and    *)
(* axes count from 1 here and from 0 in the code.                          *)
(***************************************************************************)
EXTENDS Integers, Sequences, SequencesExt

CONSTANT MaxUsize   \* the largest usize: the bound of checked multiplication

ASSUME MaxUsizeAssumption == MaxUsize \in Nat \ {0}

BinaryOps == {"Add", "Sub", "Mul", "Matmul"}
UnaryOps  == {"Neg", "Relu"}
NoAttr    == [none |-> TRUE]

Arity(op) == CASE op \in {"Input", "Const"} -> 0
               [] op \in UnaryOps \cup {"Sum", "Reshape"} -> 1
               [] op \in BinaryOps -> 2

InputNode(name, dtype, shape) ==
  [op |-> "Input", args |-> << >>,
   attr |-> [name |-> name, dtype |-> dtype, shape |-> shape]]
ConstNode(dtype, shape, data) ==
  [op |-> "Const", args |-> << >>,
   attr |-> [dtype |-> dtype, shape |-> shape, data |-> data]]
\* A slip for the runs to find: the right operand is lost.
BinaryNodeOfLeft(op, left, right) ==
  [op |-> op, args |-> <<left>>, attr |-> NoAttr]
BinaryNode(op, left, right) ==
  [op |-> op, args |-> <<left, right>>, attr |-> NoAttr]
UnaryNode(op, input) ==
  [op |-> op, args |-> <<input>>, attr |-> NoAttr]
SumNode(input, axes, keepdim) ==
  [op |-> "Sum", args |-> <<input>>,
   attr |-> [axes |-> axes, keepdim |-> keepdim]]
ReshapeNode(input, shape) ==
  [op |-> "Reshape", args |-> <<input>>, attr |-> [shape |-> shape]]

\* Nodes and graphs whose operations carry the given attributes.
NodesOver(attrs) ==
  {node \in [op : {"Input", "Const", "Sum", "Reshape"} \cup BinaryOps \cup UnaryOps,
             args : Seq(Nat), attr : attrs] : Len(node.args) = Arity(node.op)}

GraphsOver(attrs) ==
  [nodes : Seq(NodesOver(attrs)), inputs : Seq(Nat), outputs : Seq(Nat)]

Operands(node) == Range(node.args)

\* map_operands: the same operation over renamed operands.
WithOperands(node, args) == [node EXCEPT !.args = args]

-----------------------------------------------------------------------------
(* Shapes.  checked_mul is folded from the left, so an overflow is an       *)
(* overflow even when a later extent is zero.                               *)
Overflow == -1

CheckedMul(product, dim) ==
  IF product = Overflow \/ product * dim > MaxUsize THEN Overflow
                                                    ELSE product * dim

\* The products of the first extents.
ExtentProducts(shape) ==
  LET product[n \in 0 .. Len(shape)] ==
        IF n = 0 THEN 1 ELSE CheckedMul(product[n - 1], shape[n])
  IN  product

Numel(shape) == ExtentProducts(shape)[Len(shape)]

-----------------------------------------------------------------------------
(* Structural validation.                                                   *)
EmptyGraph == [nodes |-> << >>, inputs |-> << >>, outputs |-> << >>]

Ids(g) == 1 .. Len(g.nodes)

OperandsEarlier(g) ==
  \A i \in Ids(g) : \A a \in Operands(g.nodes[i]) : a \in 1 .. (i - 1)

IsInputId(g, i) == i \in Ids(g) /\ g.nodes[i].op = "Input"

InputsAreInputs(g) == \A k \in DOMAIN g.inputs : IsInputId(g, g.inputs[k])

\* The input list is exactly the Input nodes, in arena order.
InputsListed(g) ==
  /\ \A i \in Ids(g) : g.nodes[i].op = "Input" => i \in Range(g.inputs)
  /\ \A j, k \in DOMAIN g.inputs : j < k => g.inputs[j] < g.inputs[k]

\* The names and types of the declared inputs, in order.
Signature(g) ==
  [k \in DOMAIN g.inputs |-> g.nodes[g.inputs[k]].attr]

OutputsInRange(g) == \A k \in DOMAIN g.outputs : g.outputs[k] \in Ids(g)

\* The check of a constant's payload, made by the builder and by validation.
ConstError(node) ==
  CASE node.op # "Const"                               -> "None"
    [] node.op = "Const" /\ Numel(node.attr.shape) = Overflow
                                                       -> "ShapeOverflow"
    [] node.op = "Const" /\ Numel(node.attr.shape) # Overflow ->
         IF Len(node.attr.data) = Numel(node.attr.shape)
         THEN "None" ELSE "ConstDataShapeMismatch"

ConstsFit(g) == \A i \in Ids(g) : ConstError(g.nodes[i]) = "None"

\* What validate_structure accepts.
Valid(g) ==
  /\ OperandsEarlier(g)
  /\ InputsAreInputs(g)
  /\ g.outputs # << >>
  /\ OutputsInRange(g)
  /\ ConstsFit(g)

\* validate_structure: the kind of the first violation, or "None" if Valid.
StructureError(g) ==
  LET late == {p \in Ids(g) \X (1 .. 2) :
                 /\ p[2] \in DOMAIN g.nodes[p[1]].args
                 /\ g.nodes[p[1]].args[p[2]] \notin 1 .. (p[1] - 1)}
      first == CHOOSE p \in late : \A q \in late :
                 p[1] < q[1] \/ (p[1] = q[1] /\ p[2] <= q[2])
      badInput == CHOOSE k \in DOMAIN g.inputs :
                    /\ ~ IsInputId(g, g.inputs[k])
                    /\ \A j \in 1 .. (k - 1) : IsInputId(g, g.inputs[j])
      badConst == CHOOSE i \in Ids(g) :
                    /\ ConstError(g.nodes[i]) # "None"
                    /\ \A j \in 1 .. (i - 1) : ConstError(g.nodes[j]) = "None"
  IN  IF ~ OperandsEarlier(g)
      THEN IF g.nodes[first[1]].args[first[2]] \in Ids(g)
           THEN "ForwardReference" ELSE "InvalidNodeId"
      ELSE IF ~ InputsAreInputs(g)
      THEN IF g.inputs[badInput] \in Ids(g) THEN "NotAnInput"
                                            ELSE "InvalidNodeId"
      ELSE IF g.outputs = << >>     THEN "NoOutputs"
      ELSE IF ~ OutputsInRange(g)   THEN "InvalidNodeId"
      ELSE IF ~ ConstsFit(g)        THEN ConstError(g.nodes[badConst])
      ELSE "None"

\* What the Rust types say of a node's attributes and of a graph, validated or not.
AttrFits(node) ==
  /\ node.op \in {"Input", "Const", "Reshape"} => node.attr.shape \in Seq(Nat)
  /\ node.op = "Sum" => node.attr.axes \in Seq(Nat) /\ node.attr.keepdim \in BOOLEAN
  /\ node.op = "Const" => node.attr.data \in Seq(Range(node.attr.data))

IsGraph(g) ==
  /\ g \in GraphsOver({g.nodes[i].attr : i \in Ids(g)})
  /\ \A i \in Ids(g) : AttrFits(g.nodes[i])

-----------------------------------------------------------------------------
(* Emitting a node: what every GraphBuilder method does before and when it  *)
(* pushes.  Its operands must already be in the arena, a constant's payload *)
(* must fit, and an input is also entered in the input list.                *)
\* A slip: operands are not validated.
EmitErrorOfData(g, node) == ConstError(node)

EmitError(g, node) ==
  IF ~ (\A k \in DOMAIN node.args : node.args[k] \in Ids(g))
  THEN "InvalidNodeId" ELSE ConstError(node)

\* A slip: the input list gets the number of nodes there were.
PushOffByOne(g, node) ==
  [nodes   |-> Append(g.nodes, node),
   inputs  |-> IF node.op = "Input"
               THEN Append(g.inputs, Len(g.nodes)) ELSE g.inputs,
   outputs |-> g.outputs]

Push(g, node) ==
  [nodes   |-> Append(g.nodes, node),
   inputs  |-> IF node.op = "Input"
               THEN Append(g.inputs, Len(g.nodes) + 1) ELSE g.inputs,
   outputs |-> g.outputs]

=============================================================================
