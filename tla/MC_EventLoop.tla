----------------------------- MODULE MC_EventLoop -----------------------------
(* EventLoop instantiated for TLC.  Two connection sockets let a batch     *)
(* hold a connection with the listener and the tun socket; four inputs     *)
(* reach a reload signal inside the window before the clear, a stop while  *)
(* blocked and while not blocked, and a connect followed by traffic.  The  *)
(* w_buff fields are the values init_tun_tx_backlog_ring gives them.       *)
EXTENDS EventLoop

MCConns == {"c1", "c2"}
MCMaxEnv == 4
MCWBuffCapacity == 4096
MCWBuffLen == 0
MCWBuffCur == 0
=============================================================================
