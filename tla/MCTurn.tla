-------------------------------- MODULE MCTurn --------------------------------
(* Constant values for checking a turn. *)
EXTENDS Turn

RetryValues == {-1, 0, 1, 2}
StackSizes  == 0 .. 3
LayerSizes  == 0 .. 2

(* No text, one rune and two; a call; usage; each way to fail. *)
Fine == [text |-> <<"a", "b">>, calls |-> 1, usage |-> TRUE,
         status |-> "completed", errStatus |-> FALSE, streamError |-> FALSE]
SomeReplies ==
    {Fine,
     [Fine EXCEPT !.text = <<"a">>, !.calls = 0, !.usage = FALSE],
     [Fine EXCEPT !.text = << >>, !.calls = 2],
     [Fine EXCEPT !.text = << >>, !.calls = 0, !.usage = FALSE],
     [Fine EXCEPT !.status = "failed"],
     [Fine EXCEPT !.status = "incomplete"],
     [Fine EXCEPT !.errStatus = TRUE],
     [Fine EXCEPT !.streamError = TRUE]}

(* Runes of one to four bytes in every place, and bytes that are no rune.   *)
SomePayloads ==
    {<<1>>, <<1, 1, 1, 1>>, <<3, 0, 0>>, <<1, 3, 0, 0>>, <<3, 0, 0, 1>>, <<4, 0, 0, 0, 1>>,
     <<2, 0, 2, 0>>, <<1, 2, 0, 3, 0, 0>>, <<0, 0, 0, 0>>, <<1, 0, 0, 0>>, <<3, 0, 1, 1>>, <<0, 3, 0, 0>>}
SomeLimits == {-1, 0, 1, 2, 3, 5}
=============================================================================
