-------------------- MODULE CinderAPIFinalizerProtocol ---------------------
(***************************************************************************)
(* What the CinderAPI reconciler promises about its KeystoneServices,      *)
(* stated without passes, caches, conflicts or failures: a registration   *)
(* exists only under the finalizer, and the finalizer is released only    *)
(* once every registration is gone.  Each action is one effect of the      *)
(* reconciler (src/pkg/cinderapi/statefuleset.go) or of its cluster on     *)
(* the object and its registrations:                                       *)
(*   AddFinalizer     reconcileNormal, the finalizer update (595-600)     *)
(*   Register(f)      reconcileInit, KeystoneService CreateOrPatch        *)
(*   Deregister(f)    reconcileDelete, KeystoneService Delete             *)
(*   RemoveFinalizer  reconcileDelete, RemoveFinalizer and Update          *)
(*   Delete           a user deletes the object                            *)
(*   Collect          the owner-reference garbage collector                *)
(***************************************************************************)
CONSTANT Services       \* the identity-service facades (V2, V3)

VARIABLES
    exists,     \* the object is stored in the API server
    deleting,   \* it has a deletion timestamp
    fin,        \* it holds the finalizer
    live        \* the facades whose KeystoneService is registered

avars == <<exists, deleting, fin, live>>

TypeOK ==
    /\ exists \in BOOLEAN /\ deleting \in BOOLEAN /\ fin \in BOOLEAN
    /\ live \in SUBSET Services

Init ==
    /\ exists = TRUE /\ deleting = FALSE /\ fin = FALSE
    /\ live = {}

\* The finalizer is put on an object that is not being deleted.
AddFinalizer ==
    /\ exists /\ ~deleting
    /\ fin' = TRUE
    /\ UNCHANGED <<exists, deleting, live>>

\* A KeystoneService is created only while the finalizer is stored; the
\* object may meanwhile have been marked for deletion.
Register(f) ==
    /\ exists /\ fin
    /\ live' = live \cup {f}
    /\ UNCHANGED <<exists, deleting, fin>>

\* The delete path deregisters a facade of an object marked for deletion.
Deregister(f) ==
    /\ deleting /\ f \in live
    /\ live' = live \ {f}
    /\ UNCHANGED <<exists, deleting, fin>>

\* The finalizer goes once nothing is registered; the API server then
\* removes the object.
RemoveFinalizer ==
    /\ exists /\ deleting /\ live = {}
    /\ exists' = FALSE /\ fin' = FALSE
    /\ UNCHANGED <<deleting, live>>

\* A user deletion only marks an object that holds the finalizer.
Delete ==
    /\ exists /\ ~deleting
    /\ deleting' = TRUE /\ exists' = fin
    /\ UNCHANGED <<fin, live>>

\* The owned KeystoneServices of a removed object are collected.
Collect ==
    /\ ~exists /\ live # {}
    /\ live' = {}
    /\ UNCHANGED <<exists, deleting, fin>>

Next ==
    \/ AddFinalizer \/ RemoveFinalizer \/ Delete \/ Collect
    \/ \E f \in Services : Register(f) \/ Deregister(f)

SafetySpec == Init /\ [][Next]_avars

\* The reconciler retries the delete path until it completes, and the
\* garbage collector runs.
Spec ==
    /\ SafetySpec
    /\ \A f \in Services : WF_avars(Deregister(f))
    /\ WF_avars(RemoveFinalizer)
    /\ WF_avars(Collect)

-----------------------------------------------------------------------------
\* The protocol's point (the comment of line 597): while anything is
\* registered the object exists and holds the finalizer, so no
\* registration is orphaned by the object's removal.
Protected == live # {} => exists /\ fin

\* A deletion is carried out to the end.
DeletionCompletes == deleting ~> ~exists

=============================================================================
