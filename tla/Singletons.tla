----------------------------- MODULE Singletons -----------------------------
(***************************************************************************)
(* The two singletons threads share without owning: CEventMgr and          *)
(* CRandTool.  A behaviour concerns one of them, cls; nothing is done with *)
(* it before CSingleton's Instance has returned it to some thread, and     *)
(* Instance may still be under way in others.                              *)
(***************************************************************************)
EXTENDS EventMgr, RandTool

VARIABLE cls   \* the class of the instance

allvars == <<vars, randvars, cls>>

ClsInit == Init /\ RandInit /\ cls \in {"event", "rand"}

\* sEventMgr, and the calls of its users.
EventNext ==
    /\ \/ \E u \in Users : Instance(u) /\ UNCHANGED vars
       \/ Ready # {} /\ Next /\ UNCHANGED instance
    /\ UNCHANGED <<generator, calls, drawn>>

ClsNext ==
    /\ \/ cls = "event" /\ EventNext
       \/ cls = "rand" /\ RandNext /\ UNCHANGED vars
    /\ UNCHANGED cls

ClsSpec == ClsInit /\ [][ClsNext]_allvars /\ WF_vars(Dispatching)
=============================================================================
