---------------------------- MODULE MCHostLoader ----------------------------
(* Files with a gap, without the first block, with a base, with records    *)
(* that overlap, cut short, empty, damaged, with a byte in the last block  *)
(* of the memory, and too large.                                           *)
EXTENDS HostLoader

Rec(at, bytes) == [t |-> "data", addr |-> at, bytes |-> bytes, ok |-> TRUE]
Bad(at, bytes) == [t |-> "data", addr |-> at, bytes |-> bytes, ok |-> FALSE]
Base(b, good)  == [t |-> "ext", addr |-> b, bytes |-> <<>>, ok |-> good]
End            == [t |-> "end", addr |-> 0, bytes |-> <<>>, ok |-> TRUE]
Text           == [t |-> "text", addr |-> 0, bytes |-> <<>>, ok |-> FALSE]

MCFiles ==
  { <<Rec(0, <<1, 2>>), Rec(5, <<3>>), End, Text>>,
    <<Rec(3, <<4, 5>>), End>>,
    <<Rec(1, <<6>>), Base(2, TRUE), Rec(0, <<7, 255>>), Rec(1, <<8, 9>>), End>>,
    <<Base(2, FALSE), Rec(0, <<1, 2, 3>>)>>,
    <<>>,
    <<Rec(0, <<1>>), Bad(2, <<2>>), End>>,
    <<Rec(0, <<1>>), Text>>,
    <<Rec(0, <<1>>), Rec(10, <<2>>), End>>,
    <<Rec(5, <<1, 2>>), Rec(11, <<3>>), End>> }
=============================================================================
