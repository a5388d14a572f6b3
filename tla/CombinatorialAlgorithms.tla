---------------------- MODULE CombinatorialAlgorithms ----------------------
(***************************************************************************)
(* Searches and rounds over preferences, clauses, games, automata, orders, *)
(* trees and grammars.                                                     *)
(***************************************************************************)
EXTENDS StructureAlgorithms
-----------------------------------------------------------------------------
(***************************************************************************)
(* stable_roommates.hpp.  live are the pairs {a, b} no step has erased;    *)
(* proposal[p] is who holds the proposal of p.                             *)
(***************************************************************************)
Reduced(preferences, live, person) ==
    SelectSeq(preferences[person], LAMBDA candidate : {person, candidate} \in live)

ErasePhase1Pair(a, b, s) ==
    LET Freed(p, q) == IF p \in DOMAIN s.proposal /\ s.proposal[p] = q THEN <<p>> ELSE << >>
        freed == Freed(a, b) \o Freed(b, a)
    IN  IF {a, b} \notin s.live THEN s
        ELSE [s EXCEPT !.live = @ \ {{a, b}}, !.queue = @ \o freed,
                       !.proposal = [p \in DOMAIN @ \ ToSet(freed) |-> @[p]]]

SuccessorsOf(preferences, owner, person) ==
    LET rank == CHOOSE k \in DOMAIN preferences[owner] : preferences[owner][k] = person
    IN  SubSeq(preferences[owner], rank + 1, Len(preferences[owner]))

(* The first of the queue proposes; who it displaces proposes again later.   *)
Propose(preferences, s) ==
    LET proposer == Head(s.queue)
        rest == [s EXCEPT !.queue = Tail(@)]
        open == Reduced(preferences, s.live, proposer)
        recipient == open[1]
        incumbents == { p \in DOMAIN s.proposal : s.proposal[p] = recipient }
    IN  IF proposer \in DOMAIN s.proposal THEN rest
        ELSE IF open = << >> THEN [rest EXCEPT !.failed = TRUE]
        ELSE Once(Each(Ascending(incumbents), [rest EXCEPT !.count = @ + 1],
                       LAMBDA p, t : ErasePhase1Pair(p, recipient, t)), LAMBDA t :
             Each(SuccessorsOf(preferences, recipient, proposer),
                  [t EXCEPT !.proposal = Set(@, proposer, recipient)],
                  LAMBDA p, u : ErasePhase1Pair(recipient, p, u)))

(* From a person, the last choice of the second choice, until one comes back *)
(* or has no second choice: the cycle of <<person, first, second>> it enters. *)
RotationFrom(preferences, live, start) ==
    Once(While([walk |-> << >>, at |-> start],
               LAMBDA s : s.at \notin ToSet(s.walk) /\ Len(Reduced(preferences, live, s.at)) > 1,
               LAMBDA s : [walk |-> Append(s.walk, s.at),
                           at |-> Last(Reduced(preferences, live, Reduced(preferences, live, s.at)[2]))]),
         LAMBDA s :
         IF s.at \notin ToSet(s.walk) THEN << >>
         ELSE LET cycle == SubSeq(s.walk, CHOOSE k \in DOMAIN s.walk : s.walk[k] = s.at, Len(s.walk))
              IN  [k \in DOMAIN cycle |-> LET row == Reduced(preferences, live, cycle[k])
                                          IN  <<cycle[k], row[1], row[2]>>])

EliminateRotation(preferences, rotation, s) ==
    Once(s.live \ { {r[1], r[2]} : r \in ToSet(rotation) }, LAMBDA without :
        Each(rotation, [s EXCEPT !.live = without, !.rotations = @ + 1], LAMBDA r, t :
            IF t.failed \/ {r[1], r[3]} \notin t.live THEN [t EXCEPT !.failed = TRUE]
            ELSE [t EXCEPT !.live = @ \ { {r[3], p} : p \in ToSet(SuccessorsOf(preferences, r[3], r[1])) }]))

SomeListEmpty(preferences, live) ==
    \E p \in DOMAIN preferences : Reduced(preferences, live, p) = << >>

LongLists(preferences, live) == { p \in DOMAIN preferences : Len(Reduced(preferences, live, p)) > 1 }

StableRoommates(preferences) ==
    LET people == DOMAIN preferences IN
    IF \E p \in people : Len(preferences[p]) # Cardinality(people) - 1
                         \/ ToSet(preferences[p]) # people \ {p} THEN Refused
    ELSE IF Cardinality(people) % 2 = 1 THEN Nothing
    ELSE Once(While([queue |-> Ascending(people), live |-> { {p, q} : p, q \in people } \ { {p} : p \in people },
                     proposal |-> << >>, count |-> 0, rotations |-> 0, failed |-> FALSE],
                    LAMBDA s : s.queue # << >> /\ ~s.failed, LAMBDA s : Propose(preferences, s)), LAMBDA first :
         Once(While([first EXCEPT !.failed = @ \/ SomeListEmpty(preferences, first.live)],
                    LAMBDA s : ~s.failed /\ LongLists(preferences, s.live) # {},
                    LAMBDA s : Once(RotationFrom(preferences, s.live, Min(LongLists(preferences, s.live))), LAMBDA r :
                        IF r = << >> THEN [s EXCEPT !.failed = TRUE]
                        ELSE Once(EliminateRotation(preferences, r, s), LAMBDA t :
                             [t EXCEPT !.failed = @ \/ SomeListEmpty(preferences, t.live)]))), LAMBDA last :
         IF last.failed THEN Nothing
         ELSE [partner |-> [p \in people |-> Reduced(preferences, last.live, p)[1]],
               proposals |-> last.count, rotations |-> last.rotations]))
-----------------------------------------------------------------------------
(***************************************************************************)
(* cnf_sat.hpp.  A literal is 2 * variable, plus one when it is positive.  *)
(***************************************************************************)
NormalizeFormula(variables, clauses) ==
    IF \E c \in ToSet(clauses) : \E l \in ToSet(c) : l \div 2 >= variables THEN Refused
    ELSE [clauses |-> InOrder({ Ascending(ToSet(c)) : c \in { d \in ToSet(clauses) :
                                \A l \in ToSet(d) : l % 2 = 0 => l + 1 \notin ToSet(d) } })]

Assigned(s, literal) ==
    [s EXCEPT !.value = Set(@, literal \div 2, literal % 2), !.trail = Append(@, literal \div 2)]

(* Faulty: the variables leave the trail and keep their values.              *)
TrailCut(s, checkpoint) == [s EXCEPT !.trail = SubSeq(@, 1, checkpoint)]

RolledBack(s, checkpoint) ==
    LET kept == SubSeq(s.trail, 1, checkpoint)
    IN  [s EXCEPT !.trail = kept, !.value = [v \in ToSet(kept) |-> @[v]]]

(* A clause with no true literal: a conflict when none of it is open, and an *)
(* assignment when one is.                                                   *)
ExamineClause(clause, s) ==
    LET open == SelectSeq(clause, LAMBDA l : l \div 2 \notin DOMAIN s.value)
        satisfied == \E l \in ToSet(clause) : l \div 2 \in DOMAIN s.value /\ s.value[l \div 2] = l % 2
    IN  CASE s.conflict \/ satisfied -> s
          [] open = << >> -> [s EXCEPT !.conflict = TRUE]
          [] Len(open) = 1 -> [Assigned(s, open[1]) EXCEPT !.units = @ + 1, !.changed = TRUE, !.satisfied = FALSE]
          [] OTHER -> [s EXCEPT !.satisfied = FALSE]

PropagateUnits(formula, s) ==
    While([s EXCEPT !.changed = TRUE, !.conflict = FALSE], LAMBDA t : t.changed /\ ~t.conflict,
          LAMBDA t : Each(formula, [t EXCEPT !.changed = FALSE, !.satisfied = TRUE], ExamineClause))

(* The least open variable is false first, then true. *)
RECURSIVE CnfSearch(_, _, _)
CnfSearch(formula, variables, s) ==
    Once(PropagateUnits(formula, [s EXCEPT !.nodes = @ + 1]), LAMBDA p :
    LET open == (0 .. variables - 1) \ DOMAIN p.value
        Failed(t) == [RolledBack(t, Len(s.trail)) EXCEPT !.found = FALSE]
    IN  IF p.conflict \/ (open = {} /\ ~p.satisfied) THEN Failed(p)
        ELSE IF p.satisfied THEN [p EXCEPT !.found = TRUE]
        ELSE Once(CnfSearch(formula, variables, Assigned([p EXCEPT !.decisions = @ + 1], 2 * Min(open))), LAMBDA low :
             IF low.found THEN low
             ELSE Once(CnfSearch(formula, variables, Assigned(RolledBack(low, Len(p.trail)), 2 * Min(open) + 1)),
                       LAMBDA high : IF high.found THEN high ELSE Failed(high))))

SolveCnfSat(variables, clauses) ==
    Once(NormalizeFormula(variables, clauses), LAMBDA formula :
        IF formula = Refused THEN Refused
        ELSE Once(CnfSearch(formula.clauses, variables,
                            [value |-> << >>, trail |-> << >>, found |-> FALSE, changed |-> FALSE, conflict |-> FALSE,
                             satisfied |-> FALSE, nodes |-> 0, decisions |-> 0, units |-> 0]), LAMBDA s :
             [satisfiable |-> s.found,
              assignment |-> IF s.found THEN { v \in DOMAIN s.value : s.value[v] = 1 } ELSE {},
              left |-> Len(s.trail), nodes |-> s.nodes, decisions |-> s.decisions, units |-> s.units]))
-----------------------------------------------------------------------------
(***************************************************************************)
(* parity_game.hpp.  Player 0 is even and player 1 is odd.                 *)
(***************************************************************************)
(* Whoever can reach the seed, or must: a vertex of the other player joins   *)
(* when its last edge that stays outside is counted off.                     *)
ParityAttractor(game, active, seed, player) ==
    While([queue |-> Ascending(seed \cap active), inside |-> seed \cap active, insertions |-> 0,
           remaining |-> [v \in active |-> Len(SelectSeq(Targets(game.graph, v), LAMBDA to : to \in active))]],
          LAMBDA s : s.queue # << >>,
          LAMBDA s : Each(SelectSeq(game.graph.arcs, LAMBDA a : a[2] = Head(s.queue)), [s EXCEPT !.queue = Tail(@)],
              LAMBDA arc, t :
              IF arc[1] \notin active \ t.inside THEN t
              ELSE IF game.owner[arc[1]] # player /\ t.remaining[arc[1]] > 1
                   THEN [t EXCEPT !.remaining[arc[1]] = @ - 1]
              ELSE [t EXCEPT !.inside = @ \cup {arc[1]}, !.queue = Append(@, arc[1]), !.insertions = @ + 1]))

RECURSIVE SolveParitySubgame(_, _)
SolveParitySubgame(game, active) ==
    IF active = {} THEN [won |-> [p \in {0, 1} |-> {}], calls |-> 1, insertions |-> 0]
    ELSE Once(Max({ game.priority[v] : v \in active }), LAMBDA highest :
         LET player == highest % 2
             opponent == 1 - player
         IN  Once(ParityAttractor(game, active, { v \in active : game.priority[v] = highest }, player), LAMBDA a :
             Once(SolveParitySubgame(game, active \ a.inside), LAMBDA first :
             IF first.won[opponent] = {}
             THEN [first EXCEPT !.won[player] = @ \cup a.inside, !.calls = @ + 1, !.insertions = @ + a.insertions]
             ELSE Once(ParityAttractor(game, active, first.won[opponent], opponent), LAMBDA b :
                  Once(SolveParitySubgame(game, active \ b.inside), LAMBDA second :
                      [won |-> [second.won EXCEPT ![opponent] = @ \cup b.inside],
                       calls |-> first.calls + second.calls + 1,
                       insertions |-> a.insertions + first.insertions + b.insertions + second.insertions])))))

SolveParityGame(game) ==
    LET vertices == Vertices(game.graph) IN
    IF ~game.graph.directed \/ \E v \in vertices : game.graph.adjacent[v] = << >> THEN Refused
    ELSE SolveParitySubgame(game, vertices)
-----------------------------------------------------------------------------
(***************************************************************************)
(* dfa_minimization.cpp.  transitions[q][symbol]; a block is a list of     *)
(* states, and a symbol of a block is queued when it is in the work list.  *)
(***************************************************************************)
ValidDfa(dfa) ==
    LET states == DOMAIN dfa.transitions IN
    /\ dfa.start \in states /\ dfa.accepting \subseteq states
    /\ \A q \in states : ToSet(dfa.transitions[q]) \subseteq states /\ Len(dfa.transitions[q]) = Len(dfa.transitions[0])

ReachableStates(dfa) == Explored({dfa.start}, LAMBDA q : ToSet(dfa.transitions[q]))

BlockOf(blocks, state) == CHOOSE b \in DOMAIN blocks : state \in ToSet(blocks[b])

Enqueued(s, item) == IF item \in ToSet(s.work) THEN s ELSE [s EXCEPT !.work = Append(@, item)]

(* The predecessors leave their block: the new block waits where the old one *)
(* does, and the smaller of the two elsewhere.                               *)
SplitBlock(symbols, owner, inside, s) ==
    LET outside == SelectSeq(s.blocks[owner], LAMBDA q : q \notin ToSet(inside))
        new == Len(s.blocks) + 1
    IN  IF outside = << >> THEN s
        ELSE Each(symbols, [s EXCEPT !.blocks = Append([@ EXCEPT ![owner] = outside], inside)], LAMBDA a, t :
                 Enqueued(t, IF <<owner, a>> \in ToSet(t.work) \/ Len(inside) < Len(outside)
                             THEN <<new, a>> ELSE <<owner, a>>))

RefineBy(dfa, symbols, s) ==
    LET block == s.blocks[Head(s.work)[1]]
        symbol == Head(s.work)[2]
    IN  Once(FlattenSeq([k \in DOMAIN block |-> SelectSeq(Ascending(ReachableStates(dfa)),
                        LAMBDA q : dfa.transitions[q][symbol] = block[k])]), LAMBDA predecessors :
        Once([k \in DOMAIN predecessors |-> BlockOf(s.blocks, predecessors[k])], LAMBDA owners :
        Each([k \in DOMAIN owners |-> k], [s EXCEPT !.work = Tail(@)], LAMBDA k, t :
            IF owners[k] \in ToSet(SubSeq(owners, 1, k - 1)) THEN t
            ELSE SplitBlock(symbols, owners[k],
                            SelectSeq(predecessors, LAMBDA q : BlockOf(s.blocks, q) = owners[k]), t))))

(* The blocks in the order a search from the start meets them. *)
CanonicalBlocks(dfa, symbols, blocks) ==
    While([order |-> <<BlockOf(blocks, dfa.start)>>, head |-> 1], LAMBDA s : s.head <= Len(s.order),
          LAMBDA s : Each(symbols, [s EXCEPT !.head = @ + 1], LAMBDA a, t :
              LET next == BlockOf(blocks, dfa.transitions[Min(ToSet(blocks[s.order[s.head]]))][a])
              IN  IF next \in ToSet(t.order) THEN t ELSE [t EXCEPT !.order = Append(@, next)])).order

MinimizeDfa(dfa) ==
    IF DOMAIN dfa.transitions = {} \/ ~ValidDfa(dfa) THEN Refused
    ELSE LET symbols == [a \in 1 .. Len(dfa.transitions[0]) |-> a]
             halves == << Ascending(ReachableStates(dfa) \ dfa.accepting), Ascending(ReachableStates(dfa) \cap dfa.accepting) >>
             blocks == SelectSeq(halves, LAMBDA b : b # << >>)
             initial == IF Len(blocks) = 2 /\ Len(blocks[2]) < Len(blocks[1]) THEN 2 ELSE 1
         IN  Once(While([blocks |-> blocks, work |-> [a \in DOMAIN symbols |-> <<initial, a>>]],
                        LAMBDA s : s.work # << >>, LAMBDA s : RefineBy(dfa, symbols, s)).blocks, LAMBDA final :
             Once(CanonicalBlocks(dfa, symbols, final), LAMBDA order :
             LET Number(q) == CHOOSE k \in DOMAIN order : q \in ToSet(final[order[k]]) IN
             [classes |-> [k \in DOMAIN order |-> ToSet(final[order[k]])],
              transitions |-> [k \in DOMAIN order |-> [a \in DOMAIN symbols |->
                                  Number(dfa.transitions[Min(ToSet(final[order[k]]))][a])]],
              accepting |-> { k \in DOMAIN order : Min(ToSet(final[order[k]])) \in dfa.accepting }]))
-----------------------------------------------------------------------------
(***************************************************************************)
(* top_trading_cycles.hpp.  House h is the one agent h owns at first.      *)
(***************************************************************************)
CanonicalizeCycle(cycle) ==
    LET least == CHOOSE k \in DOMAIN cycle : cycle[k] = Min(ToSet(cycle))
    IN  SubSeq(cycle, least, Len(cycle)) \o SubSeq(cycle, 1, least - 1)

(* From an agent not seen yet, along the top houses: the cycle it closes. *)
WalkFrom(top, start, s) ==
    IF start \in s.seen THEN s
    ELSE Once(While([path |-> << >>, at |-> start], LAMBDA w : w.at \notin s.seen \cup ToSet(w.path),
                    LAMBDA w : [path |-> Append(w.path, w.at), at |-> top[w.at]]), LAMBDA w :
         [seen |-> s.seen \cup ToSet(w.path),
          cycles |-> IF w.at \in s.seen THEN s.cycles
                     ELSE s.cycles \cup {CanonicalizeCycle(SubSeq(w.path, CHOOSE k \in DOMAIN w.path : w.path[k] = w.at,
                                                                  Len(w.path)))}])

TradingRound(preferences, s) ==
    Once([agent \in s.active |-> SelectSeq(preferences[agent], LAMBDA house : house \in s.active)[1]], LAMBDA top :
    Once(Each(Ascending(s.active), [seen |-> {}, cycles |-> {}], LAMBDA agent, t : WalkFrom(top, agent, t)).cycles, LAMBDA cycles :
    LET leaving == UNION { ToSet(c) : c \in cycles } IN
        [active |-> s.active \ leaving,
         allocation |-> [agent \in leaving |-> top[agent]] @@ s.allocation,
         rounds |-> Append(s.rounds, InOrder(cycles))]))

TopTradingCycles(preferences) ==
    LET agents == DOMAIN preferences IN
    IF \E agent \in agents : Len(preferences[agent]) # Cardinality(agents) \/ ToSet(preferences[agent]) # agents THEN Refused
    ELSE Once(While([active |-> agents, allocation |-> << >>, rounds |-> << >>], LAMBDA s : s.active # {},
                    LAMBDA s : TradingRound(preferences, s)), LAMBDA s :
         [allocation |-> s.allocation, rounds |-> s.rounds])
-----------------------------------------------------------------------------
(***************************************************************************)
(* exact_cover.cpp.  open are the columns of the header list, and live[c]  *)
(* the rows of the list of column c, from the first to the last.           *)
(***************************************************************************)
AppendRows(columns, rows) ==
    IF \E r \in DOMAIN rows : ~IsInjective(rows[r]) \/ ~(ToSet(rows[r]) \subseteq 0 .. columns - 1) THEN Refused
    ELSE [open |-> 0 .. columns - 1, solution |-> << >>, found |-> FALSE,
          live |-> [c \in 0 .. columns - 1 |-> { r \in DOMAIN rows : c \in ToSet(rows[r]) }]]

(* The columns of the row to the right of one of them, round to it. *)
OtherColumns(row, column) ==
    LET k == CHOOSE k \in DOMAIN row : row[k] = column
    IN  SubSeq(row, k + 1, Len(row)) \o SubSeq(row, 1, k - 1)

ChooseColumn(s) == Least({ <<Cardinality(s.live[c]), c>> : c \in s.open })[2]

CoverColumn(column, s) ==
    [s EXCEPT !.open = @ \ {column},
              !.live = [c \in DOMAIN @ |-> IF c = column THEN @[c] ELSE @[c] \ @[column]]]

(* The rows of the column come back where they were taken from. *)
UncoverColumn(rows, column, s) ==
    [s EXCEPT !.open = @ \cup {column},
              !.live = [c \in DOMAIN @ |-> IF c = column THEN @[c]
                                           ELSE @[c] \cup { r \in @[column] : c \in ToSet(rows[r]) }]]

RECURSIVE CoverSearch(_, _)
CoverSearch(rows, s) ==
    IF s.open = {} THEN [s EXCEPT !.found = TRUE]
    ELSE Once(ChooseColumn(s), LAMBDA column :
         IF s.live[column] = {} THEN s
         ELSE Once(Each(Ascending(s.live[column]), CoverColumn(column, s), LAMBDA row, t :
                  IF t.found THEN t
                  ELSE Once(Each(OtherColumns(rows[row], column), [t EXCEPT !.solution = Append(@, row)], CoverColumn), LAMBDA u :
                       Once(Each(Reverse(OtherColumns(rows[row], column)), CoverSearch(rows, u),
                                 LAMBDA c, v : UncoverColumn(rows, c, v)), LAMBDA w :
                       IF w.found THEN w ELSE [w EXCEPT !.solution = Front(@)]))), LAMBDA last :
              UncoverColumn(rows, column, last)))

SolveExactCover(columns, rows) ==
    Once(AppendRows(columns, rows), LAMBDA matrix :
        IF matrix = Refused THEN Refused
        ELSE Once(CoverSearch(rows, matrix), LAMBDA s :
             [found |-> s.found, solution |-> s.solution, open |-> s.open, live |-> s.live]))
-----------------------------------------------------------------------------
(***************************************************************************)
(* poset_mobius.hpp.  An exact sum is a sign and its limbs, least first,   *)
(* each an unsigned word; above[v] are the elements not below v.           *)
(***************************************************************************)
WordBase == WideMax + 1

AddSmall(limbs, value) ==
    Once(Each(limbs, [limbs |-> << >>, carry |-> value], LAMBDA limb, s :
             [limbs |-> Append(s.limbs, (limb + s.carry) % WordBase), carry |-> (limb + s.carry) \div WordBase]),
         LAMBDA s : IF s.carry = 0 THEN s.limbs ELSE Append(s.limbs, s.carry))

SubtractSmall(limbs, value) ==
    Once(Each(limbs, [limbs |-> << >>, borrow |-> value], LAMBDA limb, s :
             [limbs |-> Append(s.limbs, (limb - s.borrow) % WordBase), borrow |-> IF limb < s.borrow THEN 1 ELSE 0]),
         LAMBDA s : While(s.limbs, LAMBDA l : l # << >> /\ Last(l) = 0, LAMBDA l : Front(l)))

Zero == [negative |-> FALSE, limbs |-> << >>]

AddTerm(sum, value, negate) ==
    LET magnitude == IF value < 0 THEN -value ELSE value
        negative == (value < 0) # negate
    IN  CASE magnitude = 0 -> sum
          [] sum.limbs = << >> -> [negative |-> negative, limbs |-> <<magnitude>>]
          [] sum.limbs # << >> /\ sum.negative = negative -> [sum EXCEPT !.limbs = AddSmall(@, magnitude)]
          [] sum.limbs = <<magnitude>> /\ sum.negative # negative -> Zero
          [] OTHER -> IF Len(sum.limbs) > 1 \/ sum.limbs[1] > magnitude
                      THEN [sum EXCEPT !.limbs = SubtractSmall(@, magnitude)]
                      ELSE [negative |-> negative, limbs |-> <<magnitude - sum.limbs[1]>>]

Narrowed(sum) ==
    CASE sum.limbs = << >> -> [word |-> 0]
      [] Len(sum.limbs) > 1 -> Overflow
      [] OTHER -> LET value == IF sum.negative THEN -sum.limbs[1] ELSE sum.limbs[1]
                  IN  IF Fits(value) THEN [word |-> value] ELSE Overflow

(* The least element whose predecessors are all in the order comes next. *)
ReadyElements(g, order) ==
    { v \in Vertices(g) \ ToSet(order) : \A i \in DOMAIN g.arcs : g.arcs[i][2] = v => g.arcs[i][1] \in ToSet(order) }

FinitePosetIndex(g) ==
    Once(While(<< >>, LAMBDA order : ReadyElements(g, order) # {},
               LAMBDA order : Append(order, Min(ReadyElements(g, order)))), LAMBDA order :
        IF ~g.directed \/ Len(order) # g.n THEN Refused
        ELSE [extension |-> order,
              above |-> Each(Reverse(order), << >>, LAMBDA v, above :
                            Set(above, v, {v} \cup UNION { above[next] : next \in ToSet(Targets(g, v)) }))])

(* One sum for each element, in turn: the terms it adds and the ones it      *)
(* subtracts.                                                                *)
Transform(elements, Sum(_, _)) ==
    Each(elements, [values |-> << >>], LAMBDA upper, s :
        IF s = Overflow THEN s
        ELSE Once(Narrowed(Sum(upper, s.values)), LAMBDA a :
             IF a = Overflow THEN a ELSE [values |-> Set(s.values, upper, a.word)]))

ZetaTransform(poset, values) ==
    Transform(Ascending(DOMAIN poset.above), LAMBDA upper, done :
        Each(SelectSeq(Ascending(DOMAIN poset.above), LAMBDA v : upper \in poset.above[v]), Zero,
             LAMBDA lower, sum : AddTerm(sum, values[lower], FALSE)))

MobiusInvert(poset, zeta) ==
    Transform(poset.extension, LAMBDA upper, done :
        Each(SelectSeq(poset.extension, LAMBDA v : v \in DOMAIN done /\ upper \in poset.above[v]),
             AddTerm(Zero, zeta[upper], FALSE), LAMBDA lower, sum : AddTerm(sum, done[lower], TRUE)))
-----------------------------------------------------------------------------
(***************************************************************************)
(* ordered_tree_edit_distance.hpp.  label[v] and children[v] of a node; a  *)
(* prepared tree numbers them from one in postorder.                       *)
(***************************************************************************)
RECURSIVE PostorderOf(_, _)
PostorderOf(tree, node) ==
    FlattenSeq([k \in DOMAIN tree.children[node] |-> PostorderOf(tree, tree.children[node][k])]) \o <<node>>

AllChildren(tree) == FlattenSeq([k \in 1 .. Cardinality(DOMAIN tree.children) |-> tree.children[k - 1]])

ValidOrderedTree(tree) ==
    LET nodes == DOMAIN tree.children IN
    IF nodes = {} THEN tree.root = NoVertex
    ELSE /\ tree.root \in nodes /\ \A v \in nodes : ToSet(tree.children[v]) \subseteq nodes
         /\ IsInjective(AllChildren(tree)) /\ ToSet(AllChildren(tree)) = nodes \ {tree.root}
         /\ Len(PostorderOf(tree, tree.root)) = Cardinality(nodes)

(* A keyroot is the last of the nodes with its leftmost leaf. *)
PrepareTree(tree) ==
    Once(IF tree.root = NoVertex THEN << >> ELSE PostorderOf(tree, tree.root), LAMBDA order :
    Once(Each([k \in DOMAIN order |-> k], << >>, LAMBDA k, leftmost :
             LET children == tree.children[order[k]]
             IN  Append(leftmost, IF children = << >> THEN k
                                  ELSE leftmost[CHOOSE j \in DOMAIN order : order[j] = children[1]])), LAMBDA leftmost :
        [labels |-> [k \in DOMAIN order |-> tree.label[order[k]]], leftmost |-> leftmost,
         keyroots |-> SelectSeq([k \in DOMAIN order |-> k],
                                LAMBDA k : \A j \in k + 1 .. Len(order) : leftmost[j] # leftmost[k])]))

(* forest[i, j]: the forests of the nodes from the leftmost leaves of the    *)
(* keyroots to i and to j; one that ends before its leftmost leaf is empty.  *)
ForestDistance(a, b, i, j, first, second, s) ==
    LET erase == s.forest[i - 1, j] + 1
        insert == s.forest[i, j - 1] + 1
        align == s.forest[i - 1, j - 1] + IF a.labels[i] = b.labels[j] THEN 0 ELSE 1
        subtrees == s.forest[a.leftmost[i] - 1, b.leftmost[j] - 1] + s.tree[i, j]
    IN  IF a.leftmost[i] = first /\ b.leftmost[j] = second
        THEN [forest |-> Set(s.forest, <<i, j>>, Min({erase, insert, align})),
              tree |-> Set(s.tree, <<i, j>>, Min({erase, insert, align}))]
        ELSE [s EXCEPT !.forest = Set(@, <<i, j>>, Min({erase, insert, subtrees}))]

KeyrootDistances(a, b, source, target, tree) ==
    LET first == a.leftmost[source]
        second == b.leftmost[target]
        borders == [p \in ((first - 1 .. source) \X {second - 1}) \cup ({first - 1} \X (second - 1 .. target)) |->
                    (p[1] - first + 1) + (p[2] - second + 1)]
    IN  Each([k \in 1 .. source - first + 1 |-> first + k - 1], [forest |-> borders, tree |-> tree], LAMBDA i, s :
            Each([k \in 1 .. target - second + 1 |-> second + k - 1], s, LAMBDA j, t :
                ForestDistance(a, b, i, j, first, second, t))).tree

OrderedTreeEditDistance(source, target) ==
    IF ~ValidOrderedTree(source) \/ ~ValidOrderedTree(target) THEN Refused
    ELSE Once(PrepareTree(source), LAMBDA a : Once(PrepareTree(target), LAMBDA b :
         LET n == Len(a.labels)
             m == Len(b.labels)
         IN  IF n = 0 \/ m = 0 THEN [distance |-> n + m]
             ELSE [distance |-> Each(a.keyroots, << >>, LAMBDA x, trees :
                       Each(b.keyroots, trees, LAMBDA y, tree : KeyrootDistances(a, b, x, y, tree)))[n, m]]))
-----------------------------------------------------------------------------
(***************************************************************************)
(* optimal_bst.hpp.  Keys 0 .. n - 1 between gaps 0 .. n.  A cost has two  *)
(* words, which the weights of no array in memory exceed.                  *)
(***************************************************************************)
WeightOf(list) == Each(list, 0, LAMBDA x, sum : sum + x)

IntervalWeight(successful, unsuccessful, begin, end) ==
    WeightOf(SubSeq(successful, begin + 1, end)) + WeightOf(SubSeq(unsuccessful, begin + 1, end + 1))

(* The first least root, among those between the roots of the two intervals  *)
(* one key shorter.                                                          *)
IntervalRoot(successful, unsuccessful, begin, end, s) ==
    LET low == IF end = begin + 1 THEN begin ELSE s.roots[begin, end - 1]
        high == IF end = begin + 1 THEN begin ELSE s.roots[begin + 1, end]
    IN  Once(Least({ <<s.costs[begin, root] + s.costs[root + 1, end], root>> : root \in low .. high }), LAMBDA best :
            [costs |-> Set(s.costs, <<begin, end>>, best[1] + IntervalWeight(successful, unsuccessful, begin, end)),
             roots |-> Set(s.roots, <<begin, end>>, best[2]), candidates |-> s.candidates + high - low + 1])

RECURSIVE PlaceInterval(_, _, _, _, _, _)
PlaceInterval(roots, begin, end, parent, depth, s) ==
    IF begin = end THEN [s EXCEPT !.gapDepths = Set(@, begin, depth)]
    ELSE LET root == roots[begin, end]
         IN  PlaceInterval(roots, root + 1, end, root, depth + 1,
             PlaceInterval(roots, begin, root, root, depth + 1,
                           [s EXCEPT !.parent = Set(@, root, parent), !.keyDepths = Set(@, root, depth)]))

OptimalBinarySearchTree(successful, unsuccessful) ==
    LET n == Len(successful) IN
    IF Len(unsuccessful) # n + 1 THEN Refused
    ELSE Once(Each([k \in 1 .. n |-> k],
                   [costs |-> [p \in { <<k, k>> : k \in 0 .. n } |-> unsuccessful[p[1] + 1]], roots |-> << >>, candidates |-> 0],
                   LAMBDA length, s : Each(Upto(n - length + 1), s, LAMBDA begin, t :
                       IntervalRoot(successful, unsuccessful, begin, begin + length, t))), LAMBDA table :
         Once(PlaceInterval(table.roots, 0, n, NoVertex, 0, [parent |-> << >>, keyDepths |-> << >>, gapDepths |-> << >>]), LAMBDA s :
             [cost |-> table.costs[0, n], candidates |-> table.candidates,
              parent |-> s.parent, keyDepths |-> s.keyDepths, gapDepths |-> s.gapDepths]))
-----------------------------------------------------------------------------
(***************************************************************************)
(* earley_parser.hpp.  A symbol is <<0, nonterminal>> or <<1, byte>>, and  *)
(* a rule <<left, right>> with the list of its symbols.                    *)
(***************************************************************************)
RuleKey(rule) == <<rule[1]>> \o FlattenSeq(rule[2])

NormalizeGrammar(grammar) ==
    IF grammar.start >= grammar.count
       \/ \E r \in ToSet(grammar.rules) : r[1] >= grammar.count
              \/ \E x \in ToSet(r[2]) : x[2] > IF x[1] = 0 THEN grammar.count - 1 ELSE 255
    THEN Refused
    ELSE [rules |-> SortSeq(Listed(ToSet(grammar.rules)), LAMBDA a, b : Precedes(RuleKey(a), RuleKey(b)))]

RulesOf(rules, left) == SelectSeq([r \in DOMAIN rules |-> r], LAMBDA r : rules[r][1] = left)
AddItem(chart, position, item) ==
    IF item \in ToSet(chart[position]) THEN chart ELSE [chart EXCEPT ![position] = Append(@, item)]

(* An item is <<rule, dot, origin>>, the dot before symbol dot + 1.          *)
IsComplete(rules, item) == item[2] = Len(rules[item[1]][2])
Expects(rules, item, symbol) == ~IsComplete(rules, item) /\ rules[item[1]][2][item[2] + 1] = symbol
Advanced(item) == <<item[1], item[2] + 1, item[3]>>

(* A rule predicted where it is complete already moves the item on at once. *)
PredictItem(rules, position, item, expected, chart) ==
    Once(Each(RulesOf(rules, expected), chart, LAMBDA r, c : AddItem(c, position, <<r, 0, position>>)), LAMBDA c :
        IF \E done \in ToSet(c[position]) : done[3] = position /\ IsComplete(rules, done) /\ rules[done[1]][1] = expected
        THEN AddItem(c, position, Advanced(item)) ELSE c)

ProcessItem(rules, text, position, item, chart) ==
    LET next == rules[item[1]][2][item[2] + 1] IN
    IF IsComplete(rules, item)
    THEN Each(chart[item[3]], chart, LAMBDA waiting, c :
             IF Expects(rules, waiting, <<0, rules[item[1]][1]>>) THEN AddItem(c, position, Advanced(waiting)) ELSE c)
    ELSE IF next[1] = 0 THEN PredictItem(rules, position, item, next[2], chart)
    ELSE IF position < Len(text) /\ text[position + 1] = next[2] THEN AddItem(chart, position + 1, Advanced(item))
    ELSE chart

EarleyRecognize(grammar, text) ==
    Once(NormalizeGrammar(grammar), LAMBDA normal :
        IF normal = Refused THEN Refused
        ELSE LET rules == normal.rules
                 first == RulesOf(rules, grammar.start)
             IN  Once(Each(Upto(Len(text) + 1),
                           [p \in 0 .. Len(text) |-> IF p = 0 THEN [k \in DOMAIN first |-> <<first[k], 0, 0>>] ELSE << >>],
                           LAMBDA position, chart :
                               While([chart |-> chart, cursor |-> 1], LAMBDA s : s.cursor <= Len(s.chart[position]),
                                     LAMBDA s : [cursor |-> s.cursor + 1,
                                                 chart |-> ProcessItem(rules, text, position, s.chart[position][s.cursor], s.chart)]).chart),
                      LAMBDA chart :
                      [accepted |-> \E item \in ToSet(chart[Len(text)]) :
                                        item[3] = 0 /\ IsComplete(rules, item) /\ rules[item[1]][1] = grammar.start,
                       counts |-> [p \in 1 .. Len(text) + 1 |-> Len(chart[p - 1])]]))
-----------------------------------------------------------------------------
(***************************************************************************)
(* slr_parser.hpp.  Rule 0 is the one for the start symbol.                *)
(***************************************************************************)
EndOfInput == 256

(* What a list of symbols can begin with, and whether it can be empty.       *)
FirstOf(symbols, s) ==
    LET Opaque(k) == symbols[k][1] = 1 \/ symbols[k][2] \notin s.nullable
        stop == Min({ k \in DOMAIN symbols : Opaque(k) } \cup {Len(symbols) + 1})
    IN  [nullable |-> stop > Len(symbols),
         bytes |-> UNION { IF symbols[k][1] = 1 THEN {symbols[k][2]} ELSE s.first[symbols[k][2]] :
                           k \in DOMAIN symbols \cap 1 .. stop }]

Stable(state, Pass(_)) ==
    While([old |-> << >>, new |-> state], LAMBDA s : s.old # s.new, LAMBDA s : [old |-> s.new, new |-> Pass(s.new)]).new

ComputeFirst(count, rules) ==
    Stable([first |-> [a \in 0 .. count - 1 |-> {}], nullable |-> {}], LAMBDA s :
        Each(rules, s, LAMBDA rule, t : Once(FirstOf(rule[2], t), LAMBDA begin :
            [first |-> [t.first EXCEPT ![rule[1]] = @ \cup begin.bytes],
             nullable |-> t.nullable \cup IF begin.nullable THEN {rule[1]} ELSE {}])))

FollowRule(s, rule, follow) ==
    Each([k \in DOMAIN rule[2] |-> k], follow, LAMBDA k, f :
        IF rule[2][k][1] = 1 THEN f
        ELSE Once(FirstOf(SubSeq(rule[2], k + 1, Len(rule[2])), s), LAMBDA rest :
             [f EXCEPT ![rule[2][k][2]] = @ \cup rest.bytes \cup IF rest.nullable THEN f[rule[1]] ELSE {}]))

ComputeFollow(count, start, rules, s) ==
    Stable([a \in 0 .. count - 1 |-> IF a = start THEN {EndOfInput} ELSE {}],
           LAMBDA follow : Each(rules, follow, LAMBDA rule, f : FollowRule(s, rule, f)))

(* A state is a set of items <<rule, dot>>. *)
RightOf(grammar, rules, rule) == IF rule = 0 THEN << <<0, grammar.start>> >> ELSE rules[rule][2]
AfterDot(grammar, rules, item) ==
    LET right == RightOf(grammar, rules, item[1])
    IN  IF item[2] = Len(right) THEN << >> ELSE <<right[item[2] + 1]>>

ItemClosure(grammar, rules, items) ==
    Explored(items, LAMBDA item :
        LET next == AfterDot(grammar, rules, item)
        IN  { <<r, 0>> : r \in { r \in DOMAIN rules : next = << <<0, rules[r][1]>> >> } })

GotoItems(grammar, rules, state, symbol) ==
    ItemClosure(grammar, rules, { <<item[1], item[2] + 1>> : item \in { i \in state : AfterDot(grammar, rules, i) = <<symbol>> } })

SymbolsOf(grammar, rules, state) == InOrder(UNION { ToSet(AfterDot(grammar, rules, item)) : item \in state })

(* The targets of the states, in the order they are found: to[state, symbol]. *)
LrStates(grammar, rules) ==
    While([states |-> <<ItemClosure(grammar, rules, {<<0, 0>>})>>, to |-> << >>, head |-> 1],
          LAMBDA s : s.head <= Len(s.states),
          LAMBDA s : Each(SymbolsOf(grammar, rules, s.states[s.head]), [s EXCEPT !.head = @ + 1], LAMBDA symbol, t :
              Once(GotoItems(grammar, rules, s.states[s.head], symbol), LAMBDA target :
              LET states == IF target \in ToSet(t.states) THEN t.states ELSE Append(t.states, target)
              IN  [t EXCEPT !.states = states,
                            !.to = Set(@, <<s.head, symbol>>, CHOOSE k \in DOMAIN states : states[k] = target)])))

InstallAction(state, lookahead, action, table) ==
    IF <<state, lookahead>> \notin DOMAIN table.actions
    THEN [table EXCEPT !.actions = Set(@, <<state, lookahead>>, action)]
    ELSE LET existing == table.actions[state, lookahead]
             conflict == <<state, lookahead, existing, action>>
         IN  IF existing = action \/ conflict \in ToSet(table.conflicts) THEN table
             ELSE [table EXCEPT !.conflicts = Append(@, conflict)]

InstallReductions(grammar, rules, follow, state, items, table) ==
    Each(InOrder({ i \in items : AfterDot(grammar, rules, i) = << >> }), table, LAMBDA item, t :
        IF item[1] = 0 THEN InstallAction(state, EndOfInput, <<"accept", 0>>, t)
        ELSE Each(Ascending(follow[rules[item[1]][1]]), t,
                  LAMBDA byte, u : InstallAction(state, byte, <<"reduce", item[1]>>, u)))

BuildSlrParseTable(grammar) ==
    Once(NormalizeGrammar(grammar), LAMBDA normal :
        IF normal = Refused THEN Refused
        ELSE Once(ComputeFirst(grammar.count, normal.rules), LAMBDA s :
             Once(ComputeFollow(grammar.count, grammar.start, normal.rules, s), LAMBDA follow :
             Once(LrStates(grammar, normal.rules), LAMBDA lr :
             Once(Each([k \in DOMAIN lr.states |-> k], [actions |-> << >>, conflicts |-> << >>], LAMBDA k, table :
                  Once(Each(SelectSeq(SymbolsOf(grammar, normal.rules, lr.states[k]), LAMBDA x : x[1] = 1), table, LAMBDA x, t :
                           InstallAction(k, x[2], <<"shift", lr.to[k, x]>>, t)), LAMBDA t :
                       InstallReductions(grammar, normal.rules, follow, k, lr.states[k], t))), LAMBDA table :
             [rules |-> normal.rules, actions |-> table.actions, gotos |-> lr.to, conflicts |-> table.conflicts])))))

(* An action leads on, unless it accepts or there is none. *)
SlrStep(table, text, s) ==
    LET lookahead == IF s.position < Len(text) THEN text[s.position + 1] ELSE EndOfInput
        state == Last(s.stack)
        action == table.actions[state, lookahead]
        rule == table.rules[action[2]]
        below == SubSeq(s.stack, 1, Len(s.stack) - Len(rule[2]))
    IN  IF <<state, lookahead>> \notin DOMAIN table.actions THEN [s EXCEPT !.done = TRUE]
        ELSE CASE action[1] = "accept" -> [s EXCEPT !.done = TRUE, !.accepted = TRUE]
               [] action[1] = "shift" -> [s EXCEPT !.stack = Append(@, action[2]), !.position = @ + 1,
                                                   !.trace = Append(@, <<"shift", lookahead>>)]
               [] action[1] = "reduce" -> [s EXCEPT !.stack = Append(below, table.gotos[Last(below), <<0, rule[1]>>]),
                                                    !.trace = Append(@, action)]

SlrParse(table, text) ==
    IF table.conflicts # << >> THEN Refused
    ELSE Once(While([stack |-> <<1>>, position |-> 0, trace |-> << >>, done |-> FALSE, accepted |-> FALSE],
                    LAMBDA s : ~s.done, LAMBDA s : SlrStep(table, text, s)), LAMBDA s :
         [accepted |-> s.accepted, consumed |-> s.position, trace |-> s.trace])
-----------------------------------------------------------------------------
(***************************************************************************)
(* functional_graph.hpp.  Peeling the vertices nothing leads to leaves the *)
(* cycles, whatever the order.  place[v] is the component of a vertex, its *)
(* distance to the cycle, and the position at which it enters there.       *)
(***************************************************************************)
OnCycles(successor) ==
    While(DOMAIN successor, LAMBDA live : { successor[v] : v \in live } # live,
          LAMBDA live : { successor[v] : v \in live })

CycleFrom(successor, start) ==
    While(<<start>>, LAMBDA c : successor[Last(c)] # start, LAMBDA c : Append(c, successor[Last(c)]))

CyclesOf(successor) ==
    Each(Ascending(OnCycles(successor)), << >>, LAMBDA start, cycles :
        IF \E k \in DOMAIN cycles : start \in ToSet(cycles[k]) THEN cycles
        ELSE Append(cycles, CycleFrom(successor, start)))

PlacedOnCycles(cycles) ==
    [v \in UNION { ToSet(cycles[k]) : k \in DOMAIN cycles } |->
        LET c == CHOOSE k \in DOMAIN cycles : v \in ToSet(cycles[k])
        IN  [component |-> c, distance |-> 0,
             position |-> (CHOOSE k \in DOMAIN cycles[c] : cycles[c][k] = v) - 1]]

PlacedOutward(successor, place) ==
    While(place, LAMBDA p : DOMAIN p # DOMAIN successor, LAMBDA p :
        p @@ [child \in { v \in DOMAIN successor \ DOMAIN p : successor[v] \in DOMAIN p } |->
                 [p[successor[child]] EXCEPT !.distance = @ + 1]])

(* jump[level][v] is 2^level steps on, for every bit of a word. *)
JumpTable(successor) ==
    Each(Upto(BitWidth(WideMax) - 1), <<successor>>, LAMBDA level, jump :
        Once(Last(jump), LAMBDA half : Append(jump, (<< >> @@ [v \in DOMAIN half |-> half[half[v]]]))))

FunctionalGraphIndex(successor) ==
    IF \E v \in DOMAIN successor : successor[v] \notin DOMAIN successor THEN Refused
    ELSE Once(CyclesOf(successor), LAMBDA cycles :
         [cycles |-> cycles, place |-> PlacedOutward(successor, PlacedOnCycles(cycles)), jump |-> JumpTable(successor)])

KthSuccessor(index, vertex, steps) ==
    While([vertex |-> vertex, bit |-> 1, steps |-> steps], LAMBDA s : s.steps # 0,
          LAMBDA s : [vertex |-> IF s.steps % 2 = 1 THEN index.jump[s.bit][s.vertex] ELSE s.vertex,
                      bit |-> s.bit + 1, steps |-> s.steps \div 2]).vertex

StepsToReach(index, from, to) ==
    LET here == index.place[from]
        there == index.place[to]
        length == Len(index.cycles[here.component])
        ahead == here.distance - there.distance
    IN  IF here.component # there.component THEN Nothing
        ELSE IF there.distance = 0
             THEN [steps |-> here.distance + ((there.position + length - here.position) % length)]
        ELSE IF ahead < 0 THEN Nothing
        ELSE IF KthSuccessor(index, from, ahead) # to THEN Nothing
        ELSE [steps |-> ahead]
-----------------------------------------------------------------------------
(***************************************************************************)
(* a_star.hpp.  Costs have two words; only the one returned must fit.      *)
(***************************************************************************)
ContractRefused(g, target, heuristic) ==
    \/ Cardinality(DOMAIN heuristic) # g.n
    \/ \E v \in DOMAIN heuristic : heuristic[v] < 0
    \/ heuristic[target] # 0
    \/ \E a \in ToSet(g.arcs) : a[3] < 0 \/ heuristic[a[1]] > a[3] + heuristic[a[2]]

RelaxTowards(g, heuristic, from, k, s) ==
    LET to == g.adjacent[from][k][1]
        candidate == s.distance[from] + g.adjacent[from][k][2]
    IN  IF to \in ToSet(s.order) \/ (to \in DOMAIN s.distance /\ s.distance[to] <= candidate) THEN s
        ELSE [s EXCEPT !.distance = Set(@, to, candidate), !.parent = Set(@, to, <<from, k>>),
                       !.queue = @ \cup {<<candidate + heuristic[to], candidate, to>>}]

ExpandNext(g, target, heuristic, s) ==
    LET top == Least(s.queue)
        vertex == top[3]
        popped == [s EXCEPT !.queue = @ \ {top}]
        closed == [popped EXCEPT !.order = Append(@, vertex)]
    IN  IF vertex \in ToSet(s.order) \/ top[2] # s.distance[vertex] THEN popped
        ELSE IF vertex = target THEN closed
        ELSE Each([k \in DOMAIN g.adjacent[vertex] |-> k], closed, LAMBDA k, t : RelaxTowards(g, heuristic, vertex, k, t))

AStarShortestPath(g, source, target, heuristic) ==
    IF ContractRefused(g, target, heuristic) THEN Refused
    ELSE Once(While([distance |-> source :> 0, parent |-> << >>, queue |-> {<<heuristic[source], 0, source>>}, order |-> << >>],
                    LAMBDA s : s.queue # {} /\ target \notin ToSet(s.order),
                    LAMBDA s : ExpandNext(g, target, heuristic, s)), LAMBDA s :
         IF target \notin ToSet(s.order) THEN [distance |-> Nothing, edges |-> << >>, order |-> s.order]
         ELSE IF s.distance[target] > WeightMax THEN Overflow
         ELSE [distance |-> [value |-> s.distance[target]], edges |-> ArcsBackTo(s.parent, source, target), order |-> s.order])
-----------------------------------------------------------------------------
(***************************************************************************)
(* coffman_graham.hpp.  after[t] are the successors of a task.             *)
(***************************************************************************)
Signature(after, label, task) ==
    Reverse(SortSeq([k \in DOMAIN after[task] |-> label[after[task][k]]], LAMBDA a, b : a < b))

AssignNextLabel(after, label) ==
    LET ready == { t \in DOMAIN after \ DOMAIN label : ToSet(after[t]) \subseteq DOMAIN label }
        Less(t, u) == \/ Precedes(Signature(after, label, t), Signature(after, label, u))
                      \/ Signature(after, label, t) = Signature(after, label, u) /\ t < u
    IN  IF ready = {} THEN label
        ELSE Set(label, CHOOSE t \in ready : \A u \in ready \ {t} : Less(t, u), Cardinality(DOMAIN label) + 1)

CoffmanLabels(after) ==
    While(<< >>, LAMBDA label : AssignNextLabel(after, label) # label, LAMBDA label : AssignNextLabel(after, label))

(* A slot holds the one or two highest labels that are ready.                *)
CoffmanSlots(after, label) ==
    While(<< >>, LAMBDA slots : Len(FlattenSeq(slots)) < Cardinality(DOMAIN after), LAMBDA slots :
        LET done == ToSet(FlattenSeq(slots))
            ready == { t \in DOMAIN after \ done : \A u \in DOMAIN after \ done : t \notin ToSet(after[u]) }
            best == SortSeq(Ascending(ready), LAMBDA t, u : label[t] > label[u])
        IN  Append(slots, SubSeq(best, 1, Min({2, Len(best)}))))

CoffmanGrahamTwoProcessorSchedule(after) ==
    IF \E t \in DOMAIN after : ~(ToSet(after[t]) \subseteq DOMAIN after /\ IsInjective(after[t])) THEN Refused
    ELSE Once(CoffmanLabels(after), LAMBDA label :
         IF DOMAIN label # DOMAIN after THEN Refused
         ELSE [labels |-> label, slots |-> CoffmanSlots(after, label)])
-----------------------------------------------------------------------------
(***************************************************************************)
(* graphical_degree_sequence.hpp.  degrees[k + 1] is that of vertex k.     *)
(***************************************************************************)
DegreesRefused(degrees) == \E k \in DOMAIN degrees : degrees[k] >= Len(degrees)

ErdosGallaiGraphical(degrees) ==
    Once(SortSeq(degrees, LAMBDA a, b : a > b), LAMBDA sorted :
        /\ WeightOf(sorted) % 2 = 0
        /\ \A k \in DOMAIN sorted :
              WeightOf(SubSeq(sorted, 1, k))
              <= k * (k - 1) + WeightOf([i \in 1 .. Len(sorted) - k |-> Min({sorted[k + i], k})]))

ByResidualDegree(residual) ==
    SortSeq(Ascending(DOMAIN residual),
            LAMBDA u, v : residual[u] > residual[v] \/ (residual[u] = residual[v] /\ u < v))

RealizeNext(s) ==
    LET order == ByResidualDegree(s.residual)
        chosen == Head(order)
        count == s.residual[chosen]
        others == ToSet(SubSeq(order, 2, count + 1))
    IN  IF count >= Len(order) THEN [s EXCEPT !.failed = TRUE]
        ELSE IF s.residual[order[count + 1]] = 0 THEN [s EXCEPT !.failed = TRUE]
        ELSE [s EXCEPT !.residual = [v \in DOMAIN @ \ {chosen} |-> IF v \in others THEN @[v] - 1 ELSE @[v]],
                       !.edges = @ \cup { <<Min({chosen, v}), Max({chosen, v})>> : v \in others },
                       !.steps = @ + 1]

HavelHakimiRealization(degrees) ==
    IF DegreesRefused(degrees) THEN Refused
    ELSE Once(While([residual |-> [v \in 0 .. Len(degrees) - 1 |-> degrees[v + 1]], edges |-> {}, steps |-> 0, failed |-> FALSE],
                    LAMBDA s : ~s.failed /\ \E v \in DOMAIN s.residual : s.residual[v] > 0,
                    LAMBDA s : RealizeNext(s)), LAMBDA s :
         IF s.failed THEN Nothing
         ELSE [vertices |-> Len(degrees), edges |-> InOrder(s.edges), steps |-> s.steps])

ValidDegreeSequenceRealization(degrees, r) ==
    /\ r.vertices = Len(degrees)
    /\ \A k \in DOMAIN r.edges :
          /\ r.edges[k][1] < r.edges[k][2] /\ r.edges[k][2] < Len(degrees)
          /\ k > 1 => Precedes(r.edges[k - 1], r.edges[k])
    /\ \A v \in DOMAIN degrees : Cardinality({ k \in DOMAIN r.edges : v - 1 \in ToSet(r.edges[k]) }) = degrees[v]
-----------------------------------------------------------------------------
(***************************************************************************)
(* nfa_determinization.hpp.  epsilon[q] and transitions[q][symbol] are     *)
(* lists of states; a state of the result is a set of states.              *)
(***************************************************************************)
TooManyStates == [tooLong |-> TRUE]      \* std::length_error

NfaRefused(nfa) ==
    LET states == DOMAIN nfa.transitions IN
    \/ nfa.start \notin states
    \/ \E p, q \in states : Len(nfa.transitions[p]) # Len(nfa.transitions[q])
    \/ \E q \in states : ~(ToSet(nfa.epsilon[q]) \cup UNION { ToSet(r) : r \in ToSet(nfa.transitions[q]) } \subseteq states)

EpsilonClosure(nfa, seeds) == Explored(seeds, LAMBDA q : ToSet(nfa.epsilon[q]))

MoveThenClose(nfa, subset, symbol) ==
    EpsilonClosure(nfa, UNION { ToSet(nfa.transitions[q][symbol]) : q \in subset })

AddMove(nfa, limit, symbol, s) ==
    Once(MoveThenClose(nfa, s.subsets[s.head], symbol), LAMBDA next :
        IF s.exceeded THEN s
        ELSE IF next \notin ToSet(s.subsets) /\ Len(s.subsets) >= limit THEN [s EXCEPT !.exceeded = TRUE]
        ELSE LET subsets == IF next \in ToSet(s.subsets) THEN s.subsets ELSE Append(s.subsets, next)
             IN  [s EXCEPT !.subsets = subsets,
                           !.row = Append(@, CHOOSE k \in DOMAIN subsets : subsets[k] = next)])

DeterminizeEpsilonNfa(nfa, limit) ==
    IF NfaRefused(nfa) \/ limit = 0 THEN Refused
    ELSE Once(While([subsets |-> <<EpsilonClosure(nfa, {nfa.start})>>, transitions |-> << >>, head |-> 1, row |-> << >>, exceeded |-> FALSE],
                    LAMBDA s : ~s.exceeded /\ s.head <= Len(s.subsets),
                    LAMBDA s : Once(Each([k \in DOMAIN nfa.transitions[nfa.start] |-> k], [s EXCEPT !.row = << >>],
                                         LAMBDA symbol, t : AddMove(nfa, limit, symbol, t)), LAMBDA t :
                               [t EXCEPT !.transitions = Append(@, t.row), !.head = @ + 1])), LAMBDA s :
         IF s.exceeded THEN TooManyStates
         ELSE [subsets |-> s.subsets, transitions |-> s.transitions,
               accepting |-> { k \in DOMAIN s.subsets : s.subsets[k] \cap nfa.accepting # {} }])
-----------------------------------------------------------------------------
(***************************************************************************)
(* cyk_parser.cpp.  Rules are <<lhs, byte>> and <<lhs, left, right>>; what *)
(* the chart holds at <<begin, length, lhs>> is the byte, <<byte>>, or the *)
(* rule and its split, <<split, left, right>>.                             *)
(***************************************************************************)
NormalizeCnf(grammar) ==
    LET known == 0 .. grammar.count - 1 IN
    IF \/ grammar.start \notin known
       \/ \E r \in ToSet(grammar.terminal) : r[1] \notin known
       \/ \E r \in ToSet(grammar.binary) : ~(ToSet(r) \subseteq known)
    THEN Refused
    ELSE [grammar EXCEPT !.terminal = InOrder(ToSet(@)), !.binary = InOrder(ToSet(@))]

TerminalChart(grammar, text) ==
    Each(grammar.terminal, << >>, LAMBDA rule, chart :
        chart @@ [cell \in { <<k - 1, 1, rule[1]>> : k \in { j \in DOMAIN text : text[j] = rule[2] } } |-> <<rule[2]>>])

(* A cell keeps the first split and the first rule that give it.             *)
FillCell(binary, begin, length, before) ==
    Each([k \in 1 .. length - 1 |-> k], before, LAMBDA split, chart :
        Each(binary, chart, LAMBDA rule, c :
            IF /\ <<begin, length, rule[1]>> \notin DOMAIN c
               /\ <<begin, split, rule[2]>> \in DOMAIN c
               /\ <<begin + split, length - split, rule[3]>> \in DOMAIN c
            THEN Set(c, <<begin, length, rule[1]>>, <<split, rule[2], rule[3]>>) ELSE c))

RECURSIVE BuildWitness(_, _, _, _, _)
BuildWitness(chart, nonterminal, begin, length, nodes) ==
    LET back == chart[<<begin, length, nonterminal>>]
        Node(at, children) == [lhs |-> nonterminal, begin |-> begin, end |-> begin + length, at |-> at, children |-> children]
    IN  IF Len(back) = 1 THEN Append(nodes, Node(back[1], << >>))
        ELSE Once(BuildWitness(chart, back[2], begin, back[1], nodes), LAMBDA left :
             Once(BuildWitness(chart, back[3], begin + back[1], length - back[1], left), LAMBDA right :
                 Append(right, Node(begin + back[1], <<Len(left), Len(right)>>))))

CykParse(given, text) ==
    Once(NormalizeCnf(given), LAMBDA grammar :
        IF grammar = Refused THEN Refused
        ELSE IF text = << >> THEN [accepted |-> grammar.empty, nodes |-> << >>]
        ELSE Once(Each([k \in 1 .. Len(text) - 1 |-> k + 1], TerminalChart(grammar, text), LAMBDA length, chart :
                      Each(Upto(Len(text) - length + 1), chart, LAMBDA begin, c : FillCell(grammar.binary, begin, length, c))),
                  LAMBDA chart :
             IF <<0, Len(text), grammar.start>> \notin DOMAIN chart THEN [accepted |-> FALSE, nodes |-> << >>]
             ELSE [accepted |-> TRUE, nodes |-> BuildWitness(chart, grammar.start, 0, Len(text), << >>)]))
-----------------------------------------------------------------------------
(***************************************************************************)
(* robinson_schensted.hpp                                                  *)
(***************************************************************************)
CellCount(tableau) == Len(FlattenSeq(tableau))

IsStandardTableau(tableau, cells) ==
    /\ CellCount(tableau) = cells
    /\ \A r \in DOMAIN tableau : tableau[r] # << >> /\ (r > 1 => Len(tableau[r]) <= Len(tableau[r - 1]))
    /\ IsInjective(FlattenSeq(tableau)) /\ ToSet(FlattenSeq(tableau)) \subseteq 0 .. cells - 1
    /\ \A r \in DOMAIN tableau : \A c \in DOMAIN tableau[r] :
          /\ c > 1 => tableau[r][c - 1] < tableau[r][c]
          /\ r > 1 => tableau[r - 1][c] < tableau[r][c]

ValidRobinsonSchensted(result) ==
    /\ [r \in DOMAIN result.insertion |-> Len(result.insertion[r])] = [r \in DOMAIN result.recording |-> Len(result.recording[r])]
    /\ IsStandardTableau(result.insertion, CellCount(result.insertion))
    /\ IsStandardTableau(result.recording, CellCount(result.insertion))

(* What a row takes in puts out the first larger value, for the next row.    *)
InsertCarried(insertion, carried) ==
    While([insertion |-> insertion, row |-> 1, carried |-> carried, done |-> FALSE], LAMBDA s : ~s.done, LAMBDA s :
        IF s.row > Len(s.insertion) THEN [s EXCEPT !.insertion = Append(@, <<s.carried>>), !.done = TRUE]
        ELSE LET row == s.insertion[s.row]
                 larger == { c \in DOMAIN row : row[c] >= s.carried }
             IN  IF larger = {} THEN [s EXCEPT !.insertion[s.row] = Append(@, s.carried), !.done = TRUE]
                 ELSE [s EXCEPT !.insertion[s.row][Min(larger)] = s.carried, !.carried = row[Min(larger)], !.row = @ + 1])

RobinsonSchensted(permutation) ==
    IF ToSet(permutation) # 0 .. Len(permutation) - 1 THEN Refused
    ELSE Each([k \in DOMAIN permutation |-> k], [insertion |-> << >>, recording |-> << >>], LAMBDA k, r :
             Once(InsertCarried(r.insertion, permutation[k]), LAMBDA s :
                 [insertion |-> s.insertion,
                  recording |-> IF s.row > Len(r.recording) THEN Append(r.recording, <<k - 1>>)
                                ELSE [r.recording EXCEPT ![s.row] = Append(@, k - 1)]]))

(* The last value of a row goes back up, displacing the last smaller one.    *)
RemoveLabel(label, s) ==
    LET from == CHOOSE r \in DOMAIN s.recording : s.recording[r] # << >> /\ Last(s.recording[r]) = label
        bumped == Each(Reverse([r \in 1 .. from - 1 |-> r]),
                       [insertion |-> [s.insertion EXCEPT ![from] = Front(@)], carried |-> Last(s.insertion[from])],
                       LAMBDA r, t : LET c == Max({ j \in DOMAIN t.insertion[r] : t.insertion[r][j] < t.carried })
                                     IN  [insertion |-> [t.insertion EXCEPT ![r][c] = t.carried], carried |-> t.insertion[r][c]])
    IN  Once(bumped, LAMBDA t : [insertion |-> t.insertion, recording |-> [s.recording EXCEPT ![from] = Front(@)],
                                 permutation |-> <<t.carried>> \o s.permutation])

InverseRobinsonSchensted(result) ==
    IF ~ValidRobinsonSchensted(result) THEN Refused
    ELSE [permutation |-> Each(Reverse(Upto(CellCount(result.insertion))),
                               [insertion |-> result.insertion, recording |-> result.recording, permutation |-> << >>],
                               RemoveLabel).permutation]
-----------------------------------------------------------------------------
(***************************************************************************)
(* schroeppel_shamir_subset_sum.hpp.  A quarter lists <<sum, mask>>; what  *)
(* a stream holds is ordered as its heap orders it.                        *)
(***************************************************************************)
SumsRefused(values) ==
    \/ WeightOf(SelectSeq(values, LAMBDA x : x > 0)) > WeightMax
    \/ WeightOf(SelectSeq(values, LAMBDA x : x < 0)) < -WeightMax - 1

BitsOf(mask, count) == SelectSeq(Upto(count), LAMBDA b : (mask \div 2 ^ b) % 2 = 1)

EnumerateQuarter(values, offset, count) ==
    InOrder({ <<WeightOf([k \in DOMAIN BitsOf(mask, count) |-> values[offset + BitsOf(mask, count)[k] + 1]]), mask>> :
              mask \in 0 .. 2 ^ count - 1 })

AscendingCursor(a, b, first, second) == <<a[first][1] + b[second][1], first, second>>
DescendingCursor(c, d, first, second) == <<-(c[first][1] + d[second][1]), first, -second>>

PopAscending(a, b, heap) ==
    LET top == Least(heap)
    IN  (heap \ {top}) \cup { AscendingCursor(a, b, top[2], k) : k \in {top[3] + 1} \cap DOMAIN b }

PopDescending(c, d, heap) ==
    LET top == Least(heap)
    IN  (heap \ {top}) \cup { DescendingCursor(c, d, top[2], k) : k \in {-top[3] - 1} \cap DOMAIN d }

QuarterSizes(n) == [g \in 1 .. 4 |-> n \div 4 + (IF g <= n % 4 THEN 1 ELSE 0)]

(* The two streams meet from the ends.                                       *)
MeetQuarters(q, target) ==
    While([left |-> { AscendingCursor(q[1], q[2], k, 1) : k \in DOMAIN q[1] },
           right |-> { DescendingCursor(q[3], q[4], k, Len(q[4])) : k \in DOMAIN q[3] }, found |-> << >>],
          LAMBDA s : s.left # {} /\ s.right # {} /\ s.found = << >>,
          LAMBDA s : LET l == Least(s.left)
                         r == Least(s.right)
                         total == l[1] - r[1]
                     IN  IF total = target THEN [s EXCEPT !.found = <<q[1][l[2]][2], q[2][l[3]][2], q[3][r[2]][2], q[4][-r[3]][2]>>]
                         ELSE IF total < target THEN [s EXCEPT !.left = PopAscending(q[1], q[2], @)]
                         ELSE [s EXCEPT !.right = PopDescending(q[3], q[4], @)]).found

SchroeppelShamirSubsetSum(values, target) ==
    LET sizes == QuarterSizes(Len(values))
        Offset(g) == WeightOf(SubSeq(sizes, 1, g - 1))
    IN  IF SumsRefused(values) THEN Overflow
        ELSE IF target = 0 THEN [indices |-> << >>, sum |-> 0]
        ELSE Once(MeetQuarters([g \in 1 .. 4 |-> EnumerateQuarter(values, Offset(g), sizes[g])], target), LAMBDA masks :
             IF masks = << >> THEN Nothing
             ELSE [sum |-> target,
                   indices |-> FlattenSeq([g \in 1 .. 4 |-> [k \in DOMAIN BitsOf(masks[g], sizes[g]) |->
                                                                 Offset(g) + BitsOf(masks[g], sizes[g])[k]]])])

(* The sum so far must fit at every index.                                   *)
ValidSubsetSumWitness(values, target, witness) ==
    LET list == witness.indices IN
    /\ witness.sum = target
    /\ \A k \in DOMAIN list : list[k] < Len(values) /\ (k > 1 => list[k - 1] < list[k])
    /\ \A k \in DOMAIN list : Fits(WeightOf([j \in 1 .. k |-> values[list[j] + 1]]))
    /\ WeightOf([j \in DOMAIN list |-> values[list[j] + 1]]) = target
-----------------------------------------------------------------------------
(***************************************************************************)
(* matroid_intersection.cpp and matroid_union.hpp.  An oracle is the set   *)
(* of the sets it calls independent; its calls are not counted.            *)
(***************************************************************************)
Exchanged(chosen, removed, added) == (chosen \ {removed}) \cup {added}

Toggled(chosen, path) == (chosen \ path) \cup (path \ chosen)

PathBackFrom(sink, parent) == Explored({sink}, LAMBDA v : {parent[v]} \ {NoVertex})

(* The keys of parent are the elements visited.                              *)
ScanExchanges(current, count, chosen, first, second, before) ==
    Each(Upto(count), before, LAMBDA other, s :
        IF /\ (other \in chosen) # (current \in chosen)
           /\ other \notin DOMAIN s.parent
           /\ IF current \in chosen THEN Exchanged(chosen, current, other) \in first
              ELSE Exchanged(chosen, other, current) \in second
        THEN [s EXCEPT !.parent = Set(@, other, current), !.queue = Append(@, other)] ELSE s)

ShortestAugmentation(count, chosen, first, second) ==
    Once(SelectSeq(Upto(count), LAMBDA e : e \notin chosen /\ chosen \cup {e} \in first), LAMBDA sources :
        While([queue |-> sources, parent |-> [e \in ToSet(sources) |-> NoVertex], sink |-> NoVertex],
              LAMBDA s : s.queue # << >> /\ s.sink = NoVertex,
              LAMBDA s : Once(Head(s.queue), LAMBDA current :
                  IF current \notin chosen /\ chosen \cup {current} \in second THEN [s EXCEPT !.sink = current]
                  ELSE ScanExchanges(current, count, chosen, first, second, [s EXCEPT !.queue = Tail(@)]))))

MaximumCardinalityMatroidIntersection(count, first, second) ==
    IF {} \notin first \cap second THEN Refused
    ELSE Once(While([chosen |-> {}, augmentations |-> 0, sink |-> 0],
                    LAMBDA s : s.sink # NoVertex,
                    LAMBDA s : Once(ShortestAugmentation(count, s.chosen, first, second), LAMBDA found :
                        IF found.sink = NoVertex THEN [s EXCEPT !.sink = NoVertex]
                        ELSE [s EXCEPT !.chosen = Toggled(@, PathBackFrom(found.sink, found.parent)), !.augmentations = @ + 1])),
              LAMBDA s : [selected |-> s.chosen, augmentations |-> s.augmentations])

(* Copy layer * count + element of an element belongs to one matroid.        *)
LayerPart(copies, layer, count) == { c % count : c \in { d \in copies : d \div count = layer } }

MaximumCardinalityMatroidUnion(count, matroids) ==
    LET layers == 0 .. Len(matroids) - 1
        copies == 0 .. count * Len(matroids) - 1
    IN  IF \E k \in DOMAIN matroids : {} \notin matroids[k] THEN Refused
        ELSE Once(IF copies = {} THEN [selected |-> {}, augmentations |-> 0]
                  ELSE MaximumCardinalityMatroidIntersection(Cardinality(copies),
                           { S \in SUBSET copies : \A l \in layers : LayerPart(S, l, count) \in matroids[l + 1] },
                           { S \in SUBSET copies : \A c, d \in S : c % count = d % count => c = d }), LAMBDA expanded :
             [independent |-> [l \in layers |-> LayerPart(expanded.selected, l, count)],
              assigned |-> [e \in { c % count : c \in expanded.selected } |->
                               (CHOOSE c \in expanded.selected : c % count = e) \div count],
              augmentations |-> expanded.augmentations])
-----------------------------------------------------------------------------
(***************************************************************************)
(* weighted_matroid_intersection.hpp.  weights[e + 1] is the weight of     *)
(* element e; a distance is [cost, hops, parent], and elements without one *)
(* are unreachable.                                                        *)
(***************************************************************************)
LogicError == [broken |-> TRUE]         \* std::logic_error

ExchangeArcs(weights, chosen, first, second) ==
    Each(Upto(Len(weights)), << >>, LAMBDA outside, arcs :
        Each(Upto(Len(weights)), arcs, LAMBDA inside, found :
            IF outside \in chosen \/ inside \notin chosen THEN found
            ELSE LET Arc(family, from, to, cost) ==
                         IF Exchanged(chosen, inside, outside) \in family
                         THEN <<[from |-> from, to |-> to, cost |-> cost]>> ELSE << >>
                 IN  found \o Arc(second, outside, inside, weights[inside + 1])
                           \o Arc(first, inside, outside, -weights[outside + 1])))

Extended(distance, arc) ==
    [cost |-> distance[arc.from].cost + arc.cost, hops |-> distance[arc.from].hops + 1, parent |-> arc.from]

ImprovesOn(distance, to, next) ==
    to \notin DOMAIN distance \/ Precedes(<<next.cost, next.hops>>, <<distance[to].cost, distance[to].hops>>)

RelaxExchange(arc, s) ==
    IF s.failure # Nothing \/ arc.from \notin DOMAIN s.distance THEN s
    ELSE LET next == Extended(s.distance, arc)
             Ties(d) == next.cost = d.cost /\ next.hops = d.hops /\ (d.parent = NoVertex \/ arc.from < d.parent)
         IN  IF ~Fits(next.cost) THEN [s EXCEPT !.failure = Overflow]
             ELSE IF ImprovesOn(s.distance, arc.to, next)
                  THEN [s EXCEPT !.distance = Set(@, arc.to, next), !.changed = TRUE]
             ELSE IF Ties(s.distance[arc.to]) THEN [s EXCEPT !.distance[arc.to].parent = arc.from] ELSE s

(* After the passes an arc that still improves a path closes a cycle that    *)
(* improves: the set was not the heaviest of its size.                       *)
LookForCycle(arc, s) ==
    IF s.failure # Nothing \/ arc.from \notin DOMAIN s.distance THEN s
    ELSE LET next == Extended(s.distance, arc)
         IN  IF ~Fits(next.cost) THEN [s EXCEPT !.failure = Overflow]
             ELSE IF ImprovesOn(s.distance, arc.to, next) THEN [s EXCEPT !.failure = LogicError] ELSE s

CheapestExchanges(weights, arcs, sources) ==
    Once(While([distance |-> [e \in sources |-> [cost |-> -weights[e + 1], hops |-> 1, parent |-> NoVertex]],
                pass |-> 1, changed |-> TRUE, failure |-> Nothing],
               LAMBDA s : s.changed /\ s.failure = Nothing /\ s.pass < Len(weights),
               LAMBDA s : Once(Each(arcs, [s EXCEPT !.changed = FALSE], RelaxExchange), LAMBDA t : [t EXCEPT !.pass = @ + 1])), LAMBDA s :
         Each(arcs, s, LookForCycle))

CheapestAugmentation(weights, chosen, first, second) ==
    LET outside == (0 .. Len(weights) - 1) \ chosen IN
    Once(CheapestExchanges(weights, ExchangeArcs(weights, chosen, first, second), { e \in outside : chosen \cup {e} \in first }), LAMBDA s :
        Once({ <<s.distance[e].cost, s.distance[e].hops, e>> : e \in { v \in outside \cap DOMAIN s.distance : chosen \cup {v} \in second } }, LAMBDA sinks :
            IF s.failure # Nothing THEN s.failure
            ELSE IF sinks = {} THEN Nothing
            ELSE [path |-> PathBackFrom(Least(sinks)[3], [v \in DOMAIN s.distance |-> s.distance[v].parent])]))

Magnitudes(weights) == WeightOf([k \in DOMAIN weights |-> IF weights[k] < 0 THEN -weights[k] ELSE weights[k]])

MaximumWeightMatroidIntersection(weights, first, second) ==
    IF ~Fits(Magnitudes(weights)) THEN Overflow
    ELSE IF {} \notin first \cap second THEN Refused
    ELSE Once(While([chosen |-> {}, augmentations |-> 0, last |-> [path |-> {}]],
                    LAMBDA s : s.last \notin {Overflow, LogicError, Nothing},
                    LAMBDA s : Once(CheapestAugmentation(weights, s.chosen, first, second), LAMBDA found :
                        IF found \in {Overflow, LogicError, Nothing} THEN [s EXCEPT !.last = found]
                        ELSE Once(Toggled(s.chosen, found.path), LAMBDA chosen :
                             IF Cardinality(chosen) # Cardinality(s.chosen) + 1 \/ chosen \notin first \cap second
                             THEN [s EXCEPT !.last = LogicError]
                             ELSE [s EXCEPT !.chosen = chosen, !.augmentations = @ + 1]))), LAMBDA s :
         IF s.last # Nothing THEN s.last
         ELSE [selected |-> s.chosen, augmentations |-> s.augmentations,
               weight |-> WeightOf([k \in DOMAIN weights |-> IF k - 1 \in s.chosen THEN weights[k] ELSE 0])])
-----------------------------------------------------------------------------
(***************************************************************************)
(* length_limited_huffman.hpp.  frequencies maps symbols to words.  A node *)
(* of the package-merge is its key, a cost that overflowed being WideMax + *)
(* 1, and the symbols below it; a code word is <<length, number>>.         *)
(***************************************************************************)
AddCost(first, second) == IF first + second > WideMax THEN WideMax + 1 ELSE first + second

NodeOrder(a, b) == Precedes(a.key, b.key)

PackagesOf(nodes) ==
    [k \in 1 .. Len(nodes) \div 2 |->
        [key |-> <<AddCost(nodes[2 * k - 1].key[1], nodes[2 * k].key[1]), 1, k>>,
         symbols |-> nodes[2 * k - 1].symbols \o nodes[2 * k].symbols]]

PackageMerge(leaves, limit) ==
    Each([k \in 1 .. limit - 1 |-> k], leaves, LAMBDA level, current : SortSeq(leaves \o PackagesOf(current), NodeOrder))

CanonicalCodes(lengths) ==
    Once(InOrder({ <<lengths[x], x>> : x \in DOMAIN lengths }), LAMBDA order :
        Each(Tail(order), [codes |-> order[1][2] :> <<order[1][1], 0>>, last |-> <<order[1][1], 0>>], LAMBDA next, s :
            Once(<<next[1], (s.last[2] + 1) * 2 ^ (next[1] - s.last[1])>>, LAMBDA code :
                [codes |-> Set(s.codes, next[2], code), last |-> code])).codes)

ValidCodebook(book, limit) ==
    /\ \A x \in DOMAIN book.codes : book.codes[x][1] \in 1 .. limit /\ book.codes[x][2] < 2 ^ book.codes[x][1]
    /\ \A x, y \in DOMAIN book.codes :
          x # y /\ book.codes[y][1] >= book.codes[x][1]
          => book.codes[y][2] \div 2 ^ (book.codes[y][1] - book.codes[x][1]) # book.codes[x][2]

BuildCodebook(frequencies, limit, chosen) ==
    LET active == { x \in DOMAIN frequencies : frequencies[x] > 0 } IN
    Once(FlattenSeq([k \in DOMAIN chosen |-> chosen[k].symbols]), LAMBDA symbols :
    Once([x \in active |-> Len(SelectSeq(symbols, LAMBDA y : y = x))], LAMBDA lengths :
    Once(FoldFunctionOnSet(+, 0, [x \in active |-> frequencies[x] * lengths[x]], active), LAMBDA cost :
    Once([codes |-> CanonicalCodes(lengths), cost |-> cost], LAMBDA book :
        IF cost > WideMax THEN Overflow ELSE IF ValidCodebook(book, limit) THEN book ELSE LogicError))))

LengthLimitedHuffman(frequencies, maximum) ==
    LET active == { x \in DOMAIN frequencies : frequencies[x] > 0 }
        count  == Cardinality(active)
        limit  == IF maximum < count - 1 THEN maximum ELSE count - 1
        leaves == SortSeq(Listed({ [key |-> <<frequencies[x], 0, x>>, symbols |-> <<x>>] : x \in active }), NodeOrder)
    IN  IF count = 0 THEN [codes |-> << >>, cost |-> 0]
        ELSE IF maximum = 0 THEN Refused
        ELSE IF count = 1 THEN LET x == CHOOSE x \in active : TRUE IN [codes |-> x :> <<1, 0>>, cost |-> frequencies[x]]
        ELSE Once(PackageMerge(leaves, limit), LAMBDA nodes :
             IF Len(nodes) < 2 * count - 2 THEN Refused
             ELSE BuildCodebook(frequencies, maximum, SubSeq(nodes, 1, 2 * count - 2)))
-----------------------------------------------------------------------------
(***************************************************************************)
(* garsia_wachs.hpp.  An active entry is its weight, WideMax + 1 for the   *)
(* two sentinels, and the depths of the leaves below it; node n + k of the *)
(* tree rebuilt from the depths of n leaves has the two children nodes[k]. *)
(***************************************************************************)
DeeperLeaves(left, right) ==
    [l \in DOMAIN left \cup DOMAIN right |-> 1 + (IF l \in DOMAIN left THEN left[l] ELSE right[l])]

MergeCompatible(active) ==
    LET first == Min({ k \in 2 .. Len(active) - 2 : active[k].weight <= active[k + 2].weight })
        sum   == active[first].weight + active[first + 1].weight
        prior == Max({ k \in 1 .. first - 1 : active[k].weight >= sum })
    IN  IF sum > WideMax THEN << >>
        ELSE SubSeq(active, 1, prior)
             \o <<[weight |-> sum, depths |-> DeeperLeaves(active[first].depths, active[first + 1].depths)]>>
             \o SubSeq(active, prior + 1, first - 1) \o SubSeq(active, first + 2, Len(active))

LeafDepths(weights) ==
    LET sentinel == <<[weight |-> WideMax + 1, depths |-> << >>]>> IN
    Once(While(sentinel \o [k \in DOMAIN weights |-> [weight |-> weights[k], depths |-> k - 1 :> 0]] \o sentinel,
               LAMBDA active : Len(active) > 3, MergeCompatible), LAMBDA active :
         IF active = << >> THEN Overflow ELSE [depths |-> active[2].depths])

JoinEqualDepths(count, before) ==
    While(before, LAMBDA s : Len(s.stack) >= 2 /\ s.stack[Len(s.stack)][2] = s.stack[Len(s.stack) - 1][2], LAMBDA s :
        LET right == Last(s.stack)
            left  == s.stack[Len(s.stack) - 1]
        IN  [nodes |-> Append(s.nodes, <<left[1], right[1]>>),
             stack |-> Append(SubSeq(s.stack, 1, Len(s.stack) - 2), <<count + Len(s.nodes), left[2] - 1>>)])

OptimalAlphabeticTree(weights) ==
    LET count == Len(weights) IN
    IF count = 0 THEN [depths |-> << >>, nodes |-> << >>, root |-> NoVertex, cost |-> 0]
    ELSE Once(LeafDepths(weights), LAMBDA found :
         IF found = Overflow THEN Overflow
         ELSE Once(Each(Upto(count), [nodes |-> << >>, stack |-> << >>], LAMBDA leaf, s :
                        JoinEqualDepths(count, [s EXCEPT !.stack = Append(@, <<leaf, found.depths[leaf]>>)])), LAMBDA s :
              Once(WeightOf([k \in DOMAIN weights |-> weights[k] * found.depths[k - 1]]), LAMBDA cost :
                   IF cost > WideMax THEN Overflow
                   ELSE [depths |-> found.depths, nodes |-> s.nodes, root |-> Last(s.stack)[1], cost |-> cost])))
-----------------------------------------------------------------------------
(***************************************************************************)
(* smith_normal_form.hpp.  A state is [d, left, right, legal], matrices    *)
(* are sequences of rows, and an operation on columns is the operation on  *)
(* the rows of the transposed matrices.                                    *)
(***************************************************************************)
Transposed(matrix) ==
    IF matrix = << >> THEN << >> ELSE [c \in DOMAIN matrix[1] |-> [r \in DOMAIN matrix |-> matrix[r][c]]]

Flipped(s) == [s EXCEPT !.d = Transposed(@), !.left = Transposed(s.right), !.right = Transposed(s.left)]

IdentityMatrix(n) == [r \in 1 .. n |-> [c \in 1 .. n |-> IF r = c THEN 1 ELSE 0]]

AbsoluteValue(x) == IF x < 0 THEN -x ELSE x

Quotient(x, y) == IF (x < 0) = (y < 0) THEN AbsoluteValue(x) \div AbsoluteValue(y) ELSE -(AbsoluteValue(x) \div AbsoluteValue(y))

SwapRows(s, a, b) == [s EXCEPT !.d = [@ EXCEPT ![a] = s.d[b], ![b] = s.d[a]],
                               !.left = [@ EXCEPT ![a] = s.left[b], ![b] = s.left[a]]]

(* The row a becomes a - factor * b, in the matrix and in its transform.     *)
RowSubtractMultiple(s, a, b, factor) ==
    LET Less(m) == [m EXCEPT ![a] = [c \in DOMAIN m[a] |-> m[a][c] - factor * m[b][c]]]
        Legal(m) == \A c \in DOMAIN m[a] : Fits(factor * m[b][c]) /\ Fits(m[a][c] - factor * m[b][c])
    IN  IF factor = 0 THEN s
        ELSE [s EXCEPT !.d = Less(@), !.left = Less(@), !.legal = Legal(s.d) /\ Legal(s.left)]

RowAdd(s, a, b) ==
    LET Sum(m) == [m EXCEPT ![a] = [c \in DOMAIN m[a] |-> m[a][c] + m[b][c]]]
        Legal(m) == \A c \in DOMAIN m[a] : Fits(m[a][c] + m[b][c])
    IN  [s EXCEPT !.d = Sum(@), !.left = Sum(@), !.legal = Legal(s.d) /\ Legal(s.left)]

ReduceRow(p, row, s) ==
    IF s.d[p][p] = 0 THEN SwapRows(s, p, row)
    ELSE Once(Quotient(s.d[row][p], s.d[p][p]), LAMBDA factor :
         IF ~Fits(factor) THEN [s EXCEPT !.legal = FALSE]
         ELSE Once(RowSubtractMultiple(s, row, p, factor), LAMBDA t :
              IF t.legal /\ t.d[row][p] # 0 /\ AbsoluteValue(t.d[row][p]) < AbsoluteValue(t.d[p][p])
              THEN SwapRows(t, p, row) ELSE t))

ClearBelow(p, before) ==
    Each([k \in 1 .. Len(before.d) - p |-> p + k], before, LAMBDA row, s :
        While(s, LAMBDA t : t.legal /\ t.d[row][p] # 0, LAMBDA t : ReduceRow(p, row, t)))

AxisIsClear(p, d) == \A k \in p + 1 .. Len(d) + Len(d[1]) :
                        (k <= Len(d) => d[k][p] = 0) /\ (k <= Len(d[1]) => d[p][k] = 0)

(* One round of the inner loop; a row with an entry that the pivot does not  *)
(* divide is added to the row of the pivot.                                  *)
ClearAxes(p, s) ==
    Once(ClearBelow(p, s), LAMBDA rows :
    Once(IF rows.legal THEN Flipped(ClearBelow(p, Flipped(rows))) ELSE rows, LAMBDA t :
    Once({ r \in p + 1 .. Len(t.d) : \E c \in p + 1 .. Len(t.d[r]) : t.d[r][c] % AbsoluteValue(t.d[p][p]) # 0 }, LAMBDA violating :
        IF ~t.legal \/ ~AxisIsClear(p, t.d) THEN t
        ELSE IF violating = {} THEN [t EXCEPT !.settled = TRUE]
        ELSE RowAdd(t, p, Min(violating)))))

NegateRow(s, p) ==
    LET Negative(m) == [m EXCEPT ![p] = [c \in DOMAIN m[p] |-> -m[p][c]]] IN
    IF s.d[p][p] >= 0 THEN s
    ELSE [s EXCEPT !.d = Negative(@), !.left = Negative(@),
                   !.legal = \A x \in ToSet(s.d[p]) \cup ToSet(s.left[p]) : Fits(-x)]

SettlePivot(s) ==
    LET p == s.rank + 1
        at == Least({ <<AbsoluteValue(s.d[r][c]), r, c>> : <<r, c>> \in { q \in (p .. Len(s.d)) \X (p .. Len(s.d[1])) : s.d[q[1]][q[2]] # 0 } })
    IN  Once(While([Flipped(SwapRows(Flipped(SwapRows(s, p, at[2])), p, at[3])) EXCEPT !.settled = FALSE],
                   LAMBDA t : t.legal /\ ~t.settled, LAMBDA t : ClearAxes(p, t)), LAMBDA t :
             IF t.legal THEN [NegateRow(t, p) EXCEPT !.rank = p] ELSE t)

SmithNormalForm(matrix) ==
    LET columns == IF matrix = << >> THEN 0 ELSE Len(matrix[1]) IN
    IF \E row \in ToSet(matrix) : Len(row) # columns THEN Refused
    ELSE Once(While([d |-> matrix, left |-> IdentityMatrix(Len(matrix)), right |-> IdentityMatrix(columns),
                     legal |-> TRUE, settled |-> TRUE, rank |-> 0],
                    LAMBDA s : /\ s.legal
                               /\ \E r \in s.rank + 1 .. Len(matrix) : \E c \in s.rank + 1 .. columns : s.d[r][c] # 0,
                    SettlePivot), LAMBDA s :
         IF s.legal THEN [d |-> s.d, left |-> s.left, right |-> s.right, factors |-> [k \in 1 .. s.rank |-> s.d[k][k]]]
         ELSE Overflow)
=============================================================================
