----------------------------- MODULE SsaProgram -----------------------------
(***************************************************************************)
(* The program every compiler pass reads: a control-flow graph of blocks   *)
(* of phis, instructions and one terminator.  A program is a record        *)
(*                                                                         *)
(*   start        the entry block                                          *)
(*   succ         the graph (module ControlFlow)                           *)
(*   variables    the source variables                                     *)
(*   phis         block |-> set of [variable, result, incoming], where     *)
(*                incoming maps each predecessor to a value                *)
(*   instructions block |-> sequence of [uses, definitions, opcode,        *)
(*                immediate]; definitions holds at most one value          *)
(*   control      block |-> [kind, predicate, nonzero, zero]               *)
(*                                                                         *)
(* A source program is one without phis whose values are its variables.    *)
(* Version n of variable v is the number v * VersionSpan + n, so that < is *)
(* the order value_less.                                                   *)
(***************************************************************************)
EXTENDS ControlFlow, SequencesExt

CONSTANTS Int64Max,      \* the largest std::int64_t, scaled down
          VersionSpan    \* more versions than a variable can have

ASSUME Int64Assumption == Int64Max \in Nat \ {0}

ASSUME VersionSpanAssumption == VersionSpan \in Nat \ {0}

Int64Min == -Int64Max - 1

Int64 == Int64Min .. Int64Max

SsaValue(variable, version) == variable * VersionSpan + version

VariableOf(value) == value \div VersionSpan

VersionOf(value) == value % VersionSpan

DefinedValues(program) ==
    { SsaValue(v, 0) : v \in program.variables }
    \cup (UNION { { phi.result : phi \in program.phis[b] } : b \in Blocks(program.succ) })
    \cup (UNION { UNION { ToSet(program.instructions[b][i].definitions) :
                            i \in DOMAIN program.instructions[b] } :
                    b \in Blocks(program.succ) })

UsedValues(program) ==
    (UNION { UNION { ToSet(program.instructions[b][i].uses) :
                       i \in DOMAIN program.instructions[b] } :
               b \in Blocks(program.succ) })
    \cup (UNION { { phi.incoming[p] : p \in DOMAIN phi.incoming } :
                    phi \in UNION { program.phis[b] : b \in Blocks(program.succ) } })
-----------------------------------------------------------------------------
(***************************************************************************)
(* Scalar semantics.  The checked operations test for overflow before they *)
(* compute, with the comparisons of the code.                              *)
(***************************************************************************)
AddOverflows(left, right) ==
    \/ right > 0 /\ left > Int64Max - right
    \/ right < 0 /\ left < Int64Min - right

SubtractOverflows(left, right) ==
    \/ right > 0 /\ left < Int64Min + right
    \/ right < 0 /\ left > Int64Max + right

(* Integer division of C++: the quotient is truncated towards zero. *)
Quotient(a, b) ==
    LET Magnitude(x) == IF x < 0 THEN -x ELSE x
        q == Magnitude(a) \div Magnitude(b)
    IN  IF (a < 0) = (b < 0) THEN q ELSE -q

(* Faulty: the largest product is taken for an overflow. *)
ProductReachesMaximum(left, right) ==
    \/ left > 0 /\ right > 0 /\ left >= Quotient(Int64Max, right)
    \/ left > 0 /\ right < 0 /\ right < Quotient(Int64Min, left)
    \/ left < 0 /\ right > 0 /\ left < Quotient(Int64Min, right)
    \/ left < 0 /\ right < 0 /\ left < Quotient(Int64Max, right)

MultiplyOverflows(left, right) ==
    /\ left # 0 /\ right # 0
    /\ \/ left = -1 /\ right = Int64Min
       \/ right = -1 /\ left = Int64Min
       \/ left > 0 /\ right > 0 /\ left > Quotient(Int64Max, right)
       \/ left > 0 /\ right < 0 /\ right < Quotient(Int64Min, left)
       \/ left < 0 /\ right > 0 /\ left < Quotient(Int64Min, right)
       \/ left < 0 /\ right < 0 /\ left < Quotient(Int64Max, right)

Overflows(instruction, inputs) ==
    CASE instruction.opcode = "add_i64"      -> AddOverflows(inputs[1], inputs[2])
      [] instruction.opcode = "subtract_i64" -> SubtractOverflows(inputs[1], inputs[2])
      [] instruction.opcode = "multiply_i64" -> MultiplyOverflows(inputs[1], inputs[2])
      [] OTHER -> FALSE

(* evaluate_ssa_scalar_instruction, for inputs that do not overflow. *)
Evaluate(instruction, inputs) ==
    CASE instruction.opcode = "constant_i64"  -> instruction.immediate
      [] instruction.opcode = "copy_i64"      -> inputs[1]
      [] instruction.opcode = "add_i64"       -> inputs[1] + inputs[2]
      [] instruction.opcode = "subtract_i64"  -> inputs[1] - inputs[2]
      [] instruction.opcode = "multiply_i64"  -> inputs[1] * inputs[2]
      [] instruction.opcode = "equal_i64"     -> IF inputs[1] = inputs[2] THEN 1 ELSE 0
      [] instruction.opcode = "less_than_i64" -> IF inputs[1] < inputs[2] THEN 1 ELSE 0

IsOpaque(instruction) == instruction.opcode = "opaque"

(* What an instruction may produce: an opaque one any reply of the caller. *)
Outputs(instruction, inputs, replies) ==
    IF IsOpaque(instruction) THEN replies ELSE {Evaluate(instruction, inputs)}
-----------------------------------------------------------------------------
(* validate_semantic_shape: the operands of the executable opcodes. *)
OperandCount ==
    [ constant_i64 |-> 0, copy_i64 |-> 1, add_i64 |-> 2, subtract_i64 |-> 2,
      multiply_i64 |-> 2, equal_i64 |-> 2, less_than_i64 |-> 2 ]

(* The instructions over some values. *)
InstructionsOver(values) ==
    { i \in [ opcode      : DOMAIN OperandCount \cup {"opaque"},
              uses        : Seq(values),
              definitions : Seq(values),
              immediate   : Int ] :
        /\ Len(i.definitions) <= 1
        /\ i.opcode # "opaque" => Len(i.uses) = OperandCount[i.opcode] }

(* A program over some values, apart from its phis. *)
IsProgram(program, values) ==
    LET blocks == Blocks(program.succ)
    IN  /\ IsFiniteSet(blocks) /\ blocks = 0 .. Cardinality(blocks) - 1
        /\ program.start \in blocks
        /\ program.succ \in [blocks -> Seq(blocks)]
        /\ IsFiniteSet(program.variables) /\ program.variables \subseteq Nat
        /\ program.instructions \in [blocks -> Seq(InstructionsOver(values))]
        /\ program.control \in
               [blocks -> [ kind      : {"jump", "branch_if_nonzero", "opaque"},
                            predicate : Int, nonzero : Int, zero : Int ]]
        /\ \A b \in blocks :
               LET control == program.control[b]
               IN  /\ control.kind # "opaque" =>
                          {control.nonzero, control.zero} \subseteq Targets(program.succ, b)
                   /\ control.kind = "branch_if_nonzero" => control.predicate \in values
=============================================================================
