----------------------------- MODULE MCCommands -----------------------------
(* Messages of every kind of command, written as the formats read them; the *)
(* time of a pass may need more than 16 bits.                               *)
EXTENDS Commands

(* Digits go on with a number or begin one, spaces end it, and any other   *)
(* character is a field.                                                   *)
Spelling(text) ==
  LET After[k \in 0..Len(text)] ==
        IF k = 0 THEN Reading(0, <<>>, FALSE)
        ELSE LET r == After[k - 1]
                 ch == text[k]
             IN  IF ch \in Digits /\ r.open
                 THEN [r EXCEPT !.nums[Len(r.nums)] = @ * 10 + Value(ch)]
                 ELSE IF ch \in Space THEN [r EXCEPT !.open = FALSE]
                 ELSE IF ch \in Digits
                 THEN Reading(r.field + 1, Append(r.nums, Value(ch)), TRUE)
                 ELSE Reading(r.field + 1, r.nums, FALSE)
  IN  After

Message(text, cmd, numbers) ==
  [text |-> text, cmd |-> cmd, args |-> numbers, reading |-> Spelling(text), trailing |-> FALSE]

MCMessages ==
  { Message(<<"I", "S", "S", "a">>, "a", <<>>),
    Message(<<"I", "S", "S", "a", "\n">>, "a", <<>>),
    Message(<<"I", "S", "S", "c", "1", "2">>, "c", <<12>>),
    Message(<<"I", "S", "S", "W", " ", "1", ",", "2", ",", "0">>, "W", <<1, 2, 0>>),
    Message(<<"I", "S", "S", "u", "1", "\n", "1", "0", "0", "0", "0", "0", ",", "1", ",">>,
            "u", <<1, 100000, 1>>),
    Message(<<"I", "S", "S", "u", "2", "\n", "2", ",", "1", ",", "1", ",", "0", ",">>,
            "u", <<2, 2, 1, 1, 0>>),
    Message(<<"I", "S", "S", "u", "0">>, "u", <<0>>),
    Message(<<"I", "S", "S", "T", "Y", "1", "2", "M", "1", "D", "2",
              "H", "0", "M", "1", "S", "1", "0">>, "T", <<12, 1, 2, 0, 1, 10>>),
    [Message(<<"I", "S", "S", "c", "1", "\n">>, "c", <<1>>) EXCEPT !.trailing = TRUE] }
=============================================================================
