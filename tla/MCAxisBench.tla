---------------------------- MODULE MCAxisBench ----------------------------
(* Instances of AxisBench: three kinds of width conversion, short packets. *)
EXTENDS AxisBench

MCByte == 1..5

\* Lengths that end in every lane of a word, with an empty packet among them.
MCPackets == {<< <<1, 2, 3>>, <<>>, <<4>> >>, << <<1>>, <<2, 3>> >>, << <<1, 2, 3, 4>>, <<5>> >>}

MCBenches ==
  {b \in [in : 1..4, out : 1..4, packed : BOOLEAN, strict : BOOLEAN, stalls : BOOLEAN, packets : MCPackets] :
     /\ <<b.in, b.out>> \in {<<1, 1>>, <<1, 2>>, <<1, 3>>, <<2, 4>>, <<2, 1>>, <<3, 2>>}
     /\ b.strict => b.in <= b.out /\ (b.packed \/ b.out = 1)}
=============================================================================
