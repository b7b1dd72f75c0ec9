----------------------------- MODULE MCTcpChat -----------------------------
(***************************************************************************)
(* Two clients.  In turn: texts of both, that come and go; a STOP beside a *)
(* time-out; both under one id; a table of one and a server that is        *)
(* interrupted; a table of one and two that stop.                          *)
(***************************************************************************)
EXTENDS TcpChat, TLC

CONSTANTS x, y

MCSetups == {
  [id |-> <<x, y>>, max |-> 2, commands |-> {1, 2}, stops |-> {}, signal |-> FALSE],
  [id |-> <<x, y>>, max |-> 2, commands |-> {}, stops |-> {1}, signal |-> FALSE],
  [id |-> <<x, x>>, max |-> 2, commands |-> {}, stops |-> {1}, signal |-> FALSE],
  [id |-> <<x, y>>, max |-> 1, commands |-> {}, stops |-> {}, signal |-> TRUE],
  [id |-> <<x, y>>, max |-> 1, commands |-> {}, stops |-> {1, 2}, signal |-> FALSE]}
=============================================================================
