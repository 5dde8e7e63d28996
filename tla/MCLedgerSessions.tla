-------------------------- MODULE MCLedgerSessions --------------------------
(***************************************************************************)
(* Two sessions over three BUY orders: o1 is working with three fills to     *)
(* replay, o2 and o3 are wanted by buys that cannot both be afforded.      *)
(***************************************************************************)
EXTENDS LedgerSessions
CONSTANTS s1, s2, o1, o2, o3, f1, f2, f3

MCSessions == {s1, s2}
MCOrders == {o1, o2, o3}
MCFills == {f1, f2, f3}
MCFillOf == [f \in MCFills |->
    [order |-> o1, usd |-> 1, last |-> f = f3]]
MCInitRows == [o \in MCOrders |->
    IF o = o1 THEN [status |-> "SUBMITTED", granted |-> 3, reserved |-> 3] ELSE NoRow]

Buy(o, n) == [kind |-> "buy", order |-> o, usd |-> n]
Replay(f) == [kind |-> "fill", fill |-> f]
Move(o, to) == [kind |-> "move", order |-> o, to |-> to]
Adopt(o) == [kind |-> "adopt", order |-> o]

MCPlans ==
    { <<Buy(o2, 2)>>, <<Buy(o3, 1)>>, <<Buy(o2, 1), Buy(o3, 1)>>,
      <<Replay(f1), Replay(f2), Replay(f3)>>,
      <<Adopt(o1), Replay(f1)>>,
      <<Move(o1, "CANCELLED")>>, <<Move(o2, "REJECTED")>> }
=============================================================================
