------------------------------ MODULE Sockets -------------------------------
(***************************************************************************)
(* What is bound to an address: CUvUdp, CUvTcpSvr and CUvPipeSvr.  A       *)
(* behaviour concerns one of them, sock; they share nothing but their      *)
(* loop.                                                                   *)
(***************************************************************************)
EXTENDS UvUdp, UvTcpSvr

VARIABLE sock   \* what the behaviour is about

sockvars == <<vars, svrvars, sock>>

SockInit == Init /\ SvrInit /\ sock \in {"udp", "server"}

SockNext ==
    /\ \/ sock = "udp" /\ Next /\ UNCHANGED svrvars
       \/ sock = "server" /\ SvrNext /\ UNCHANGED vars
    /\ UNCHANGED sock

SockSpec == SockInit /\ [][SockNext]_sockvars /\ UdpFairness
=============================================================================
