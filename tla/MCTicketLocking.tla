--------------------------- MODULE MCTicketLocking ---------------------------
(* Instances of TicketLocking for TLC: who sits behind which socket.        *)
EXTENDS TicketLocking, TLC

OnlyAnn == {<<"s1", "ann">>}
AnnOrNone == {<<"s1", "ann">>, <<"s1", NoUser>>}

\* Which of the calls in flight serves a request does not matter.
SlotSymmetry == Permutations(Slots)
=============================================================================
