---------------------------- MODULE SsaSemantics ----------------------------
(***************************************************************************)
(* What an SSA program, or a source program, means: the abstract machine   *)
(* the compiled programs are compared with.  It executes one instruction   *)
(* or one terminator per step; taking an edge performs the phis of the     *)
(* successor all at once.  The last step is recorded in event: the values  *)
(* an instruction read and wrote, the predicate a branch read and the      *)
(* block it selected.                                                      *)
(*                                                                         *)
(* Opaque instructions produce any reply.  After an opaque terminator the  *)
(* caller selects any successor.                                           *)
(***************************************************************************)
EXTENDS SsaProgram

CONSTANTS Replies   \* what an opaque instruction can produce

VARIABLES program,   \* the program that runs, any one
          at,        \* the block
          pos,       \* the next instruction of the block
          env,       \* contents of the values
          event,     \* the last step
          status     \* "running" or "overflow_error"

vars == <<program, at, pos, env, event, status>>

code == program.instructions[at]

Started(b) ==
    [kind |-> "start", block |-> b, inputs |-> << >>,
     output |-> << >>, successor |-> b]

Instructed(b, inputs, output) ==
    [kind |-> "instruction", block |-> b, inputs |-> inputs,
     output |-> output, successor |-> b]

Controlled(b, inputs, successor) ==
    [kind |-> "control", block |-> b, inputs |-> inputs,
     output |-> << >>, successor |-> successor]

(* Version 0 of a variable contains what the caller put there, a number    *)
(* that tells the variables apart; nothing reads another value before it   *)
(* is defined.                                                             *)
InitialEnv(prog) ==
    [ value \in DefinedValues(prog) |->
        IF VersionOf(value) = 0 THEN VariableOf(value) + 1 ELSE 0 ]

Init ==
    /\ at = program.start
    /\ pos = 1
    /\ env = InitialEnv(program)
    /\ event = Started(program.start)
    /\ status = "running"

(* The phis of the successor, read together before any of them is written. *)
ThroughEdge(prog, contents, predecessor, successor) ==
    [ value \in DOMAIN contents |->
        IF \E phi \in prog.phis[successor] : phi.result = value
        THEN contents[(CHOOSE phi \in prog.phis[successor] :
                         phi.result = value).incoming[predecessor]]
        ELSE contents[value] ]

Written(contents, instruction, output) ==
    [ value \in DOMAIN contents |->
        IF value \in ToSet(instruction.definitions) THEN output ELSE contents[value] ]

InputsOf(instruction, contents) ==
    [ i \in DOMAIN instruction.uses |-> contents[instruction.uses[i]] ]

Instruction ==
    /\ status = "running"
    /\ pos <= Len(code)
    /\ LET instruction == code[pos]
           inputs      == InputsOf(instruction, env)
       IN  \/ /\ Overflows(instruction, inputs)
              /\ status' = "overflow_error"
              /\ UNCHANGED <<at, pos, env, event>>
           \/ /\ ~Overflows(instruction, inputs)
              /\ \E output \in Outputs(instruction, inputs, Replies) :
                     /\ env' = Written(env, instruction, output)
                     /\ event' = Instructed(at, inputs, <<output>>)
              /\ pos' = pos + 1
              /\ UNCHANGED <<at, status>>
    /\ UNCHANGED program

Successors(control, contents) ==
    CASE control.kind = "jump" -> {control.nonzero}
      [] control.kind = "branch_if_nonzero" ->
            {IF contents[control.predicate] # 0 THEN control.nonzero ELSE control.zero}
      [] control.kind = "opaque" -> Targets(program.succ, at)

Control ==
    /\ status = "running"
    /\ pos = Len(code) + 1
    /\ LET control == program.control[at]
           inputs  == IF control.kind = "branch_if_nonzero"
                      THEN <<env[control.predicate]>> ELSE << >>
       IN  \E successor \in Successors(control, env) :
               /\ at' = successor
               /\ env' = ThroughEdge(program, env, at, successor)
               /\ event' = Controlled(at, inputs, successor)
    /\ pos' = 1
    /\ UNCHANGED <<program, status>>

Next == Instruction \/ Control

Spec == Init /\ [][Next]_vars

(* Execution goes on as long as there is a successor: the caller answers   *)
(* every opaque instruction and terminator.                                *)
FairSpec == Spec /\ WF_vars(Next)
=============================================================================
