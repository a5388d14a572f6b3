---------------------------- MODULE DynamicGraph ----------------------------
(***************************************************************************)
(* What a changing graph promises to each request <<name, u, v, number>>.  *)
(* A forest refuses an edge that would close a cycle, an acyclic graph an  *)
(* arc that would, and every graph the removal of what is not there.  A    *)
(* forest has values at its vertices, which fit a word: an addition that   *)
(* would take one of them out of it is answered "overflow".                *)
(***************************************************************************)
EXTENDS Integers, Sequences, Bags

CONSTANTS Vertex, Number

VARIABLES traits,        \* forest, acyclic
          edges,         \* a bag of edges <<u, v, weight>>
          values,        \* the value of every vertex
          log,           \* what an analysis of all the changes says, in order
          request,
          answer

vars == <<traits, edges, values, log, request, answer>>

Edge(u, v, w) == IF traits.acyclic \/ u <= v THEN <<u, v, w>> ELSE <<v, u, w>>

RECURSIVE Closure(_, _)
Closure(arcs, from) ==
    LET next == from \cup { a[2] : a \in { a \in arcs : a[1] \in from } }
    IN  IF next = from THEN from ELSE Closure(arcs, next)

Arcs == { <<e[1], e[2]>> : e \in BagToSet(edges) }
Sides == Arcs \cup { <<a[2], a[1]>> : a \in Arcs }

Connected(u, v) == v \in Closure(Sides, {u})

(* The vertices without which u is not connected to v. *)
Path(u, v) ==
    {u, v} \cup { x \in Vertex : v \notin Closure({ s \in Sides : x \notin {s[1], s[2]} }, {u}) }

(* A graph is bipartite if, of some two-colouring, no edge is in a colour. *)
Bipartite == \E half \in SUBSET Vertex : \A a \in Arcs : (a[1] \in half) # (a[2] \in half)

Forbidden(u, v) ==
    \/ traits.forest /\ Connected(u, v)
    \/ traits.acyclic /\ u \in Closure(Arcs, {v})

Refuses == answer' = "refused" /\ UNCHANGED <<edges, values, log>>
Done == answer' = "done"

Add(u, v, w) ==
    IF Forbidden(u, v) THEN Refuses
    ELSE Done /\ edges' = edges (+) SetToBag({Edge(u, v, w)}) /\ UNCHANGED <<values, log>>

Remove(u, v, w) ==
    IF ~BagIn(Edge(u, v, w), edges) THEN Refuses
    ELSE Done /\ edges' = edges (-) SetToBag({Edge(u, v, w)}) /\ UNCHANGED <<values, log>>

Assign(u, v, x) ==
    IF ~Connected(u, v) THEN Refuses
    ELSE /\ Done
         /\ values' = [ y \in DOMAIN values |-> IF y \in Path(u, v) THEN x ELSE values[y] ]
         /\ UNCHANGED <<edges, log>>

Shift(u, v, delta) ==
    IF ~Connected(u, v) THEN Refuses
    ELSE /\ IF \A y \in Path(u, v) : values[y] + delta \in Number
            THEN /\ Done
                 /\ values' = [ y \in DOMAIN values |->
                                  IF y \in Path(u, v) THEN values[y] + delta ELSE values[y] ]
            ELSE answer' = "overflow" /\ UNCHANGED values
         /\ UNCHANGED <<edges, log>>

Ask(u, v) ==
    /\ answer' = IF Connected(u, v) THEN "done" ELSE "refused"
    /\ UNCHANGED <<edges, values, log>>

Logs(truth) == Done /\ log' = Append(log, truth) /\ UNCHANGED <<edges, values>>

Init ==
    /\ traits \in [forest : BOOLEAN, acyclic : BOOLEAN]
    /\ edges = EmptyBag
    /\ \A x \in DOMAIN values : values[x] = 0
    /\ log = << >>
    /\ answer = "none"

Next ==
    /\ UNCHANGED traits
    /\ \E u, v \in Vertex, x \in Number :
           \/ request' = <<"add", u, v, x>> /\ Add(u, v, x)
           \/ request' = <<"remove", u, v, x>> /\ Remove(u, v, x)
           \/ request' = <<"assign", u, v, x>> /\ Assign(u, v, x)
           \/ request' = <<"shift", u, v, x>> /\ Shift(u, v, x)
           \/ request' = <<"ask", u, v, x>> /\ Ask(u, v)
           \/ request' = <<"connected", u, v, x>> /\ Logs(Connected(u, v))
           \/ request' = <<"bipartite", u, v, x>> /\ Logs(Bipartite)

Spec == Init /\ [][Next]_vars
=============================================================================
