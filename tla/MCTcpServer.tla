----------------------------- MODULE MCTcpServer -----------------------------
(* TcpServer for TLC: words shorter than the buffer and as long as it. *)
EXTENDS TcpServer

Words_ == {<<"a">>, <<"b", "a">>}
=============================================================================
