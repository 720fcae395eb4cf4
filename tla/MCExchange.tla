----------------------------- MODULE MCExchange -----------------------------
(* Bounds for the exchange, small enough together: two clients where one    *)
(* may go; one client and every kind of reply; more clients than sessions,  *)
(* and packets that are refused; three orders for one queue; restarts with  *)
(* a second client, and with two orders; headers that state any length, of  *)
(* the only client or of one of two.                                        *)
(* Records cannot be written in a configuration file.                       *)
EXTENDS Exchange

TwoClients ==
  [clients |-> 2, packets |-> 2, hangups |-> 1, starts |-> 1, stops |-> 0, reads |-> 1 .. 3,
   kinds |-> {"Login", "NewOrder"}, symbols |-> {1, 2}, lengths |-> {2}, repeats |-> 0]
OneSession ==
  [clients |-> 1, packets |-> 3, hangups |-> 0, starts |-> 1, stops |-> 0, reads |-> 1 .. 3,
   kinds |-> {"Login", "Heartbeat", "Logout", "Unexpected", "NewOrder"},
   symbols |-> {1}, lengths |-> {2}, repeats |-> 0]
TooMany ==
  [clients |-> 3, packets |-> 1, hangups |-> 1, starts |-> 1, stops |-> 0, reads |-> 1 .. 3,
   kinds |-> {"Login", "BadLogin", "Heartbeat"},
   symbols |-> {1}, lengths |-> {2, BufferSize + 1}, repeats |-> 0]
Backlog ==
  [clients |-> 1, packets |-> 4, hangups |-> 0, starts |-> 1, stops |-> 0, reads |-> {2},
   kinds |-> {"Login", "NewOrder"}, symbols |-> {1, 3}, lengths |-> {2}, repeats |-> 0]
RestartAndReconnect ==
  [clients |-> 2, packets |-> 2, hangups |-> 0, starts |-> 2, stops |-> 1, reads |-> {2},
   kinds |-> {"Login", "NewOrder"}, symbols |-> {1}, lengths |-> {2}, repeats |-> 0]
RestartWithOrders ==
  [clients |-> 1, packets |-> 3, hangups |-> 0, starts |-> 2, stops |-> 1, reads |-> {2},
   kinds |-> {"Login", "NewOrder"}, symbols |-> {1}, lengths |-> {2}, repeats |-> 0]
AnyLength ==
  [clients |-> 1, packets |-> 2, hangups |-> 0, starts |-> 1, stops |-> 1, reads |-> {1},
   kinds |-> {"Login", "NewOrder"}, symbols |-> {1}, lengths |-> 0 .. 3, repeats |-> 2]
AnyLengthOfOther ==
  [clients |-> 2, packets |-> 2, hangups |-> 0, starts |-> 1, stops |-> 0, reads |-> {1, 3},
   kinds |-> {"Login"}, symbols |-> {1}, lengths |-> 0 .. 3, repeats |-> 0]
AllLimits ==
  {TwoClients, OneSession, TooMany, Backlog, RestartAndReconnect, RestartWithOrders,
   AnyLength, AnyLengthOfOther}
=============================================================================
