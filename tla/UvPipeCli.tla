----------------------------- MODULE UvPipeCli ------------------------------
(***************************************************************************)
(* CUvPipeCli: the pipe counterpart of CUvTcpCli, with the same members    *)
(* and handlers (UvPipeCli.cpp:22-218), so every action but Connect is     *)
(* that of UvTcpCli, under the name the pipe has for it; mpTcpCli and tcp  *)
(* stand for mpPipeCli and its handle.  uv_pipe_connect returns nothing: a *)
(* refused attempt is always reported to the callback, where uv_tcp_connect *)
(* may return an error that nothing follows.                               *)
(*                                                                         *)
(* A behaviour of CliSpec is one client of either class.                   *)
(***************************************************************************)
EXTENDS UvTcpCli

VARIABLE kind   \* the client's class, "tcp" or "pipe"

clivars == <<vars, kind>>

CliInit == Init /\ kind \in {"tcp", "pipe"}

\* Connect: under way, whatever uv_pipe_init said.
PipeConnect == (Connect /\ tcp' = "connecting") \/ ConnectTooSoon

PipeAccept == SetTcpCli \/ AfterAccept

\* DoConn, its two outcomes and the rest of each.
PipeDoConn == ConnEnds \/ ConnDone \/ ConnErrorDone

PipeSend == \E t \in Threads : SendCheck(t) \/ SendAppend(t)

PipeDoSend == LoopDoSend \/ NotifySend

\* AfterSend for each status, and what follows OnSend.
PipeAfterSend ==
    SendOk \/ SendError \/ SendCanceled \/ SendOkDone \/ SendErrorDone \/ SendCanceledDone

PipeDoRecv == RecvData \/ RecvDone \/ RecvError

PipeClose == Close \/ TcpClosed

PipeCloseCb == CloseCb \/ AsyncClosed

PipeCleanSendQueue == Destroy

PipeNext ==
    \/ PipeConnect \/ PipeAccept \/ PipeDoConn \/ PipeSend \/ PipeDoSend
    \/ PipeAfterSend \/ PipeDoRecv \/ PipeClose \/ PipeCloseCb \/ PipeCleanSendQueue

CliNext ==
    /\ \/ kind = "tcp" /\ Next
       \/ kind = "pipe" /\ PipeNext
    /\ UNCHANGED kind

\* The fairness of UvTcpCli: handlers go on to their end and the loop passes
\* over nothing that is ready.
CliSpec == CliInit /\ [][CliNext]_clivars /\ Fairness
=============================================================================
