---------------------------- MODULE CopyClasses ----------------------------
(***************************************************************************)
(* What coalesce_phi_free_registers promises.  The locations of a program  *)
(* are partitioned into classes that share a register: each move, in       *)
(* program order, merges the classes of its source and its destination     *)
(* unless two of their members interfere.  The classes are then colored,   *)
(* with the interference of their members.  Without moves this is          *)
(* allocate_phi_free_registers.                                            *)
(*                                                                         *)
(* A class goes by its lowest location: class maps a location to the       *)
(* lowest member of its class.                                             *)
(***************************************************************************)
EXTENDS GreedyColoring, Sequences

CONSTANTS Location,  \* the locations, by their rank in LocationLess
          Inputs     \* records [interference, moves, budget]

ASSUME LocationAssumption == Location \subseteq Nat

ASSUME InputsAssumption ==
    Inputs \subseteq [ interference : SUBSET (Location \X Location),
                       moves        : Seq([source : Location, destination : Location]),
                       budget       : Nat ]

ASSUME InterferenceAssumption ==
    \A i \in Inputs : \A l, m \in Location :
        <<l, m>> \in i.interference => l # m /\ <<m, l>> \in i.interference

VARIABLES input,      \* the argument of the call
          phase,      \* "coalescing", "coloring" or "returned"
          class,
          decisions,  \* one per move considered so far
          assigned    \* class |-> register or Spilled

vars == <<input, phase, class, decisions, assigned>>

Classes == { class[l] : l \in Location }

(* Faulty: the interference of the lowest members only. *)
LowestInterfere(a, b) == <<a, b>> \in input.interference

(* A member of class a interferes with a member of class b. *)
ClassesInterfere(a, b) ==
    \E l, m \in Location :
        <<l, m>> \in input.interference /\ class[l] = a /\ class[m] = b

(* quotient_interference_edges *)
QuotientInterference ==
    { <<class[e[1]], class[e[2]]>> : e \in input.interference }

Init ==
    /\ input \in Inputs
    /\ phase = "coalescing"
    /\ class = [ l \in Location |-> l ]
    /\ decisions = << >>
    /\ assigned = << >>

(* Faulty: the other members of a class do not follow its lowest. *)
LowestMoves(a, b) ==
    [class EXCEPT ![a] = IF a < b THEN a ELSE b, ![b] = IF a < b THEN a ELSE b]

MergedClass(a, b) ==
    LET lower  == IF a < b THEN a ELSE b
    IN  [ l \in Location |-> IF class[l] \in {a, b} THEN lower ELSE class[l] ]

ConsiderMove ==
    /\ phase = "coalescing"
    /\ Len(decisions) < Len(input.moves)
    /\ LET move == input.moves[Len(decisions) + 1]
           a    == class[move.source]
           b    == class[move.destination]
       IN  \/ /\ a = b
              /\ decisions' = Append(decisions, "already_coalesced")
              /\ UNCHANGED class
           \/ /\ a # b /\ ClassesInterfere(a, b)
              /\ decisions' = Append(decisions, "blocked_by_interference")
              /\ UNCHANGED class
           \/ /\ a # b /\ ~ClassesInterfere(a, b)
              /\ decisions' = Append(decisions, "merged")
              /\ class' = MergedClass(a, b)
    /\ UNCHANGED <<input, phase, assigned>>

NumberClasses ==
    /\ phase = "coalescing"
    /\ Len(decisions) = Len(input.moves)
    /\ phase' = "coloring"
    /\ UNCHANGED <<input, class, decisions, assigned>>

ColorClass ==
    /\ phase = "coloring"
    /\ \E c \in Classes \ DOMAIN assigned :
           /\ IsNextToColor(QuotientInterference, Classes \ DOMAIN assigned, c)
           /\ \E register \in {Spilled} \cup 0 .. input.budget - 1 :
                  /\ IsCandidate(input.budget,
                                 Unavailable(QuotientInterference, assigned, c), register)
                  /\ assigned' = WithColor(assigned, c, register)
    /\ UNCHANGED <<input, phase, class, decisions>>

Return ==
    /\ phase = "coloring"
    /\ Classes \subseteq DOMAIN assigned
    /\ phase' = "returned"
    /\ UNCHANGED <<input, class, decisions, assigned>>

Next == ConsiderMove \/ NumberClasses \/ ColorClass \/ Return

Spec == Init /\ [][Next]_vars
-----------------------------------------------------------------------------
TypeOK ==
    /\ input \in Inputs
    /\ phase \in {"coalescing", "coloring", "returned"}
    /\ class \in [Location -> Location]
    /\ decisions \in Seq({"already_coalesced", "blocked_by_interference", "merged"})
    /\ Len(decisions) <= Len(input.moves)
    /\ DOMAIN assigned \subseteq Location
    /\ \A c \in DOMAIN assigned : assigned[c] \in {Spilled} \cup 0 .. input.budget - 1

(* Two locations that interfere are never in one class, so no step of the  *)
(* recoloring can give them one register (the logic_error of the code).    *)
ClassesIndependent ==
    \A l, m \in Location : <<l, m>> \in input.interference => class[l] # class[m]

(* The registers of the result never give two interfering locations one    *)
(* register.                                                               *)
ProperAllocation ==
    \A l, m \in Location :
        /\ <<l, m>> \in input.interference
        /\ class[l] \in DOMAIN assigned
        /\ class[m] \in DOMAIN assigned
        /\ assigned[class[l]] # Spilled
        => assigned[class[l]] # assigned[class[m]]

(* A class is spilled only when the whole budget is taken by its neighbors,*)
(* and this is still so in the result.                                     *)
SpillsForced ==
    \A c \in DOMAIN assigned :
        assigned[c] = Spilled =>
            \A q \in 0 .. input.budget - 1 :
                \E d \in DOMAIN assigned : assigned[d] = q /\ ClassesInterfere(c, d)

(* The decisions of the moves hold of the final classes: a copy reported   *)
(* as merged is redundant, one reported as blocked still joins two classes *)
(* that interfere, whatever was merged afterwards.                         *)
DecisionsStand ==
    \A i \in DOMAIN decisions :
        LET a == class[input.moves[i].source]
            b == class[input.moves[i].destination]
        IN  IF decisions[i] = "blocked_by_interference"
            THEN a # b /\ ClassesInterfere(a, b)
            ELSE a = b
=============================================================================
