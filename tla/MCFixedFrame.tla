---------------------------- MODULE MCFixedFrame ----------------------------
(***************************************************************************)
(* Words of four bits.  Layouts of up to four slots, well and ill formed,  *)
(* up to frames that do not fit a word; every anchor and growth; chunks    *)
(* that do and do not divide the frame; policies that refuse one number;   *)
(* stack pointers at both ends of the range.                               *)
(***************************************************************************)
EXTENDS FixedFrame

MCHeader == <<1, 0, 2, 1>>

Frame(count, size, alignments, anchor, growth, chunk) ==
    [ slot_count |-> count, slot_size |-> size,
      slot_alignment |-> alignments[1], frame_alignment |-> alignments[2],
      anchor |-> anchor, displacements |-> <<Int64Min, Int64Max>>,
      growth |-> growth, maximum_chunk |-> chunk,
      immediates |-> <<Int64Min, Int64Max>> ]

Growth == {"lower", "higher"}

Layouts ==
    { Frame(c, s, a, 0, g, 3) :
        c \in 0 .. 4, s \in 0 .. 5, g \in Growth,
        a \in {<<1, 1>>, <<1, 4>>, <<2, 2>>, <<2, 4>>, <<4, 2>>, <<3, 4>>, <<4, 8>>} }

Anchors ==
    { Frame(c, 2, a, n, g, 3) :
        c \in {1, 3, 4}, a \in {<<2, 2>>, <<2, 4>>, <<4, 8>>}, n \in 0 .. 9, g \in Growth }

Chunks ==
    { Frame(c, s, <<1, 1>>, 0, g, k) :
        c \in {0, 1, 2}, s \in {1, 3, 4}, g \in Growth, k \in {0, 1, 2, 4, 15} }

Policies ==
    { [Frame(3, 2, <<2, 2>>, n, g, 3) EXCEPT !.displacements = d, !.immediates = i] :
        n \in {0, 2, 6}, g \in Growth,
        d \in {<<-2, 2>>, <<-4, 0>>, <<0, 4>>, <<1, 0>>},
        i \in {<<-8, 7>>, <<-2, 2>>, <<0, 6>>, <<2, 1>>} }

MCFrames == Layouts \cup Anchors \cup Chunks \cup Policies

MCStackPointers == {-8, -5, 0, 4, 7}
=============================================================================
