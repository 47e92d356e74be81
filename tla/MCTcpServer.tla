----------------------------- MODULE MCTcpServer -----------------------------
(* TLC instances of TcpServer: two connections, so that one can replace the *)
(* other, and enough events to overflow the queue.                          *)
EXTENDS TcpServer, TLC

ConnSymmetry == Permutations(Conns)

==============================================================================
