-------------------------------- MODULE MCSh --------------------------------
(* Lines for Sh: all short ones, and some that start several processes.    *)
EXTENDS Sh

Chars1 == symbols \cup {" ", "w"}
Short == UNION {[1..n -> Chars1] : n \in 0..3}
Second ==
  Short \cup {<<"w", "|", "w">>, <<"w", ">", ">", "w", "<", "w", "w">>, <<"(", "w", "&", ")", "|", "w">>,
              <<"(", "w", "|", "w", ")", "|", "w">>, <<"w", "|", "w", "|", "w">>, <<"w", ";", "w", "&">>,
              <<"(", "w", ";", "w", ")", ">", "w", "|", "w">>, <<"w", " ", "w", "w">>, <<"(", "w", ")", "<", "w">>,
              <<"w", "&", "&", ";", "w">>, <<"w", " ", "(", "w", ")">>, <<"w", " ", "w", " ", "w">>}
(* Lines that leave a process behind. *)
First == {<<"w", "&">>, <<"(", "w", "&", ")", "|", "w">>}
Typed == <<First, Second>>
=============================================================================
