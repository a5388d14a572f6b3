------------------------------ MODULE FifoQueue ------------------------------
(***************************************************************************)
(* What a queue promises: values leave in the order they came, an update   *)
(* that cannot be done is refused and changes nothing.                     *)
(***************************************************************************)
EXTENDS Naturals, Sequences

CONSTANTS Value, SizeMax

VARIABLES contents, answer

Refused(error) == answer' = <<error>> /\ UNCHANGED contents

PushBack(value) ==
    \/ /\ Len(contents) < SizeMax
       /\ contents' = Append(contents, value)
       /\ answer' = <<"updated">>
    \/ Len(contents) = SizeMax /\ Refused("length_error")

PopFront ==
    \/ /\ contents # << >>
       /\ contents' = Tail(contents)
       /\ answer' = <<"updated">>
    \/ contents = << >> /\ Refused("out_of_range")

Front ==
    \/ /\ contents # << >>
       /\ answer' = <<"front", Head(contents)>>
       /\ UNCHANGED contents
    \/ contents = << >> /\ Refused("out_of_range")

Init == contents = << >> /\ answer = <<"updated">>

Next == (\E value \in Value : PushBack(value)) \/ PopFront \/ Front

Spec == Init /\ [][Next]_<<contents, answer>>
=============================================================================
