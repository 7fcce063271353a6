------------------------------ MODULE UvTcpSvr ------------------------------
(***************************************************************************)
(* CUvTcpSvr and CUvPipeSvr: a listening handle on a loop, and the handles *)
(* the server makes for its connections.  svrKind says which; the two do   *)
(* the same but for what they do with a handle they do not hand over.      *)
(*                                                                         *)
(* A handle is memory of CMemMgr, which other threads use at the same      *)
(* time.  libuv goes on using the memory of a handle that is closing until *)
(* the end of the loop's iteration, when it calls the close callbacks.     *)
(* Addresses, streams and libuv's own queue of connections are left out.   *)
(***************************************************************************)
EXTENDS Integers

CONSTANTS
    Blocks,    \* blocks of memory of a handle's size
    NoBlock    \* no block

ASSUME NoBlockAssumption == NoBlock \notin Blocks

VARIABLES
    svrKind,      \* "tcp" or "pipe"
    vpc,          \* what the loop thread is doing
    pTcpCli,      \* the handle ConnCb is working on
    listener,     \* mpTcpSvr, mpPipeSvr
    owner,        \* who has each block: "free" is CMemMgr
    handle,       \* what libuv takes each block for
    \* history
    failed,       \* handles uv_accept failed for
    givenBack,    \* blocks FreeTcpCli gave back in this iteration
    overwritten   \* blocks someone got while they were closing handles

svrvars == <<svrKind, vpc, pTcpCli, listener, owner, handle, failed, givenBack, overwritten>>

SvrInit ==
    /\ svrKind \in {"tcp", "pipe"}
    /\ vpc = "idle" /\ pTcpCli = NoBlock /\ listener = "none"
    /\ owner = [b \in Blocks |-> "free"] /\ handle = [b \in Blocks |-> "none"]
    /\ failed = {} /\ givenBack = {} /\ overwritten = {}

InLoop == vpc = "idle"

-----------------------------------------------------------------------------
(* Memory. *)

\* MemMalloc, which clears the block whatever libuv still does with it.
SvrMalloc(b, who) ==
    /\ owner[b] = "free"
    /\ owner' = [owner EXCEPT ![b] = who]
    /\ overwritten' = IF handle[b] = "closing" THEN overwritten \cup {b} ELSE overwritten

\* Another thread gets or returns a block of this size.
OtherMalloc == \E b \in Blocks :
    /\ vpc # "crashed"
    /\ SvrMalloc(b, "other")
    /\ UNCHANGED <<svrKind, vpc, pTcpCli, listener, handle, failed, givenBack>>

OtherFree == \E b \in Blocks :
    /\ vpc # "crashed" /\ owner[b] = "other"
    /\ owner' = [owner EXCEPT ![b] = "free"]
    /\ UNCHANGED <<svrKind, vpc, pTcpCli, listener, handle, failed, givenBack, overwritten>>

-----------------------------------------------------------------------------
(* The server, on the loop's thread. *)

\* Listen, again after it failed; binding or listening may fail.
Listen ==
    /\ InLoop /\ listener \in {"none", "closed"}
    /\ listener' \in {"listening", "closing"}
    /\ UNCHANGED <<svrKind, vpc, pTcpCli, owner, handle, failed, givenBack, overwritten>>

\* The subclass closes the listening handle.
SvrClose ==
    /\ InLoop /\ listener = "listening"
    /\ listener' = "closing"
    /\ UNCHANGED <<svrKind, vpc, pTcpCli, owner, handle, failed, givenBack, overwritten>>

\* ConnCb of a good status makes a handle (AllocTcpCli); of any other it
\* does nothing.
ConnCb == \E b \in Blocks :
    /\ InLoop /\ listener = "listening"
    /\ SvrMalloc(b, "server")
    /\ handle' = [handle EXCEPT ![b] = "open"]
    /\ pTcpCli' = b
    /\ vpc' = "accept"
    /\ UNCHANGED <<svrKind, listener, failed, givenBack>>

Done == vpc' = "idle" /\ pTcpCli' = NoBlock

\* uv_close, and at once MemFree.
FreeTcpCli ==
    /\ handle' = [handle EXCEPT ![pTcpCli] = "closing"]
    /\ owner' = [owner EXCEPT ![pTcpCli] = "free"]
    /\ givenBack' = givenBack \cup {pTcpCli}
    /\ Done

Accepted ==
    /\ vpc = "accept"
    /\ vpc' = "onaccept"
    /\ UNCHANGED <<svrKind, pTcpCli, listener, owner, handle, failed, givenBack, overwritten>>

\* Mutant: no server frees the handle.
AcceptFailsKept ==
    /\ vpc = "accept"
    /\ failed' = IF svrKind = "tcp" THEN failed ELSE failed \cup {pTcpCli}
    /\ Done
    /\ UNCHANGED <<svrKind, listener, owner, handle, givenBack, overwritten>>

\* uv_accept fails: the pipe's server just returns.
AcceptFails ==
    /\ vpc = "accept"
    /\ IF svrKind = "tcp"
       THEN FreeTcpCli /\ UNCHANGED failed
       ELSE Done /\ failed' = failed \cup {pTcpCli} /\ UNCHANGED <<owner, handle, givenBack>>
    /\ UNCHANGED <<svrKind, listener, overwritten>>

\* OnAccept keeps the handle: it is the subclass's to close and free.
OnAccept ==
    /\ vpc = "onaccept"
    /\ owner' = [owner EXCEPT ![pTcpCli] = "user"]
    /\ Done
    /\ UNCHANGED <<svrKind, listener, handle, failed, givenBack, overwritten>>

OnAcceptRefuses ==
    /\ vpc = "onaccept" /\ svrKind = "tcp"
    /\ FreeTcpCli
    /\ UNCHANGED <<svrKind, listener, failed, overwritten>>

\* The pipe's server calls free for memory of CMemMgr, which is not the
\* start of a block of the C library's: the library stops the program, or
\* goes on with the block lost to both and the handle still open.
OnAcceptRefusesPipe ==
    /\ vpc = "onaccept" /\ svrKind = "pipe"
    /\ \/ vpc' = "crashed" /\ UNCHANGED <<pTcpCli, owner>>
       \/ Done /\ owner' = [owner EXCEPT ![pTcpCli] = "lost"]
    /\ UNCHANGED <<svrKind, listener, handle, failed, givenBack, overwritten>>

\* A user closes its handle, and frees it in the close callback.
UserClose == \E b \in Blocks :
    /\ InLoop /\ owner[b] = "user" /\ handle[b] = "open"
    /\ handle' = [handle EXCEPT ![b] = "closing"]
    /\ UNCHANGED <<svrKind, vpc, pTcpCli, listener, owner, failed, givenBack, overwritten>>

\* libuv ends an iteration; the list of closing handles must be whole.
EndIteration ==
    /\ InLoop
    /\ vpc' \in IF overwritten = {} THEN {"idle"} ELSE {"idle", "crashed"}
    /\ handle' = [b \in Blocks |-> IF handle[b] = "closing" THEN "none" ELSE handle[b]]
    /\ owner' = [b \in Blocks |->
                    IF handle[b] = "closing" /\ owner[b] = "user" THEN "free" ELSE owner[b]]
    /\ listener' = IF listener = "closing" THEN "closed" ELSE listener
    /\ givenBack' = {} /\ overwritten' = {}
    /\ UNCHANGED <<svrKind, pTcpCli, failed>>

SvrNext ==
    \/ OtherMalloc \/ OtherFree \/ Listen \/ SvrClose
    \/ ConnCb \/ Accepted \/ AcceptFails \/ OnAccept \/ OnAcceptRefuses \/ OnAcceptRefusesPipe
    \/ UserClose \/ EndIteration

SvrSpec == SvrInit /\ [][SvrNext]_svrvars

-----------------------------------------------------------------------------
(* Properties. *)

SvrTypeOK ==
    /\ svrKind \in {"tcp", "pipe"}
    /\ vpc \in {"idle", "accept", "onaccept", "crashed"}
    /\ pTcpCli \in Blocks \cup {NoBlock}
    /\ vpc \in {"accept", "onaccept"} => pTcpCli \in Blocks
    /\ listener \in {"none", "listening", "closing", "closed"}
    /\ owner \in [Blocks -> {"free", "server", "user", "other", "lost"}]
    /\ handle \in [Blocks -> {"none", "open", "closing"}]
    /\ failed \in SUBSET Blocks /\ givenBack \in SUBSET Blocks
    /\ overwritten \in SUBSET Blocks

\* Every open handle is its user's or the one ConnCb is working on; only the
\* pipe's server leaves others open, when uv_accept fails or when it frees a
\* refused one without closing it (UvTcpSvr.cpp:33-41, UvPipeSvr.cpp:46-53).
\* Memory libuv still needs is out of its owner's hands only where the TCP
\* server gave it back itself, and nobody else can get it after the
\* iteration of that; a user that frees in the close callback is safe, and
\* so is all of the pipe's server (UvTcpSvr.cpp:17-22).
HandlesAccounted ==
    /\ SvrTypeOK
    /\ \A b \in Blocks :
          /\ handle[b] = "open" =>
                \/ owner[b] = "user"
                \/ owner[b] = "server" /\ (b = pTcpCli \/ (svrKind = "pipe" /\ b \in failed))
                \/ owner[b] = "lost" /\ svrKind = "pipe"
          /\ handle[b] = "closing" => owner[b] = "user" \/ b \in givenBack
    /\ overwritten \subseteq givenBack
    /\ svrKind = "pipe" => givenBack = {}
=============================================================================
