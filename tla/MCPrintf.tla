------------------------------ MODULE MCPrintf ------------------------------
(* The two printfs.  They share no variable, so what holds of each alone   *)
(* holds of both: one moves only while the other has not begun.            *)
EXTENDS RttPrintf

MCInts == {-128, -9, 0, 100}
MCDoubles == {<<0, 1>>, <<1, 2>>, <<3, 2>>, <<-5, 2>>, <<19, 20>>,
              <<199, 200>>, <<99, 100>>, <<1, 20>>, <<-1, 8>>, <<12, 1>>,
              <<0, 0>>, <<1, 0>>, <<-1, 0>>}
MCStrings == {<<"s">>, <<"o", "k", "a", "y">>}
MCWidths == {0, 3, 5, -4}
MCPrecisions == {-2, None, 0, 3}

Init == InitFormat /\ InitRtt

Next == \/ texts = << >> /\ mode = "skip" /\ room = Capacity
           /\ NextFormat /\ UNCHANGED rttVars
        \/ items = << >> /\ fpc = "format"
           /\ NextRtt /\ UNCHANGED formatVars

Spec == Init /\ [][Next]_<<formatVars, rttVars>>
=============================================================================
