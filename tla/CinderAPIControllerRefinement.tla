------------------- MODULE CinderAPIControllerRefinement --------------------
(***************************************************************************)
(* The reconciler with its cluster implements the finalizer protocol of    *)
(* CinderAPIFinalizerProtocol under the mapping `Protocol` of              *)
(* CinderAPIController: every initial state maps to an initial state and   *)
(* every step to a protocol step or a stutter.                             *)
(***************************************************************************)
EXTENDS CinderAPIControllerProofs

\* The pc values of reconcileDelete.
DelPCs == {"DeleteKeystoneService", "RemoveFinalizer"}

\* The protocol's theorems, read through the refinement mapping.
ProtocolProofs == INSTANCE CinderAPIFinalizerProtocolProofs
                      WITH Services <- Facades, exists <- cr.exists,
                           deleting <- cr.deleting, fin <- cr.fin,
                           live <- LiveServices

\* What the refinement needs beyond IInv: a deletion mark is never taken
\* back, so the cache never shows one the store lacks and the delete path
\* only runs for a marked object; and a stored object that is marked
\* holds the finalizer (a user delete removes one that holds none).
DeleteMarked ==
    /\ cache.deleting => cr.deleting
    /\ pc \in DelPCs => cr.deleting
    /\ cr.exists /\ cr.deleting => cr.fin

RInv == IInv /\ DeleteMarked

-----------------------------------------------------------------------------
(* DeleteMarked is preserved.                                              *)

\* A step that keeps the object's flags and the cache's mark, and does not
\* enter the delete path, keeps DeleteMarked.
LEMMA DMStable ==
    ASSUME DeleteMarked,
           cr'.deleting = cr.deleting, cr'.exists = cr.exists,
           cr'.fin = cr.fin, cache'.deleting = cache.deleting,
           pc' \in DelPCs => pc \in DelPCs
    PROVE  DeleteMarked'
  BY DEF DeleteMarked

\* A status update leaves the object's flags alone.
LEMMA StatusKeepsFlags ==
    ASSUME NEW s \in CR, NEW st
    PROVE  LET t == [s EXCEPT !.status = st]
           IN  t.deleting = s.deleting /\ t.exists = s.exists /\ t.fin = s.fin
  BY DEF CR

\* A step that writes at most the status of the object keeps its flags.
LEMMA StatusStepFlags ==
    ASSUME TypeOK, cr' = cr \/ \E st : cr' = [cr EXCEPT !.status = st]
    PROVE  cr'.deleting = cr.deleting /\ cr'.exists = cr.exists
           /\ cr'.fin = cr.fin
  <1>1. CASE cr' = cr
    BY <1>1
  <1>2. CASE \E st : cr' = [cr EXCEPT !.status = st]
    <2>1. PICK st : cr' = [cr EXCEPT !.status = st]
      BY <1>2
    <2>2. cr \in CR
      BY DEF TypeOK
    <2>. QED
      BY <2>1, <2>2, StatusKeepsFlags
  <1>. QED
    BY <1>1, <1>2

\* Every step keeps DeleteMarked.
LEMMA DeleteMarkedStep == RInv /\ [Next]_vars => DeleteMarked'
<1> SUFFICES ASSUME RInv, [Next]_vars PROVE DeleteMarked'
  OBVIOUS
<1> USE DEF RInv
<1>a. DeleteMarked /\ TypeOK
  BY DEF IInv
<1>1. CASE Reconcile
  <2>1. cr' = cr /\ cache' = cache
    BY <1>1 DEF Reconcile
  <2>2. pc' = "DeleteKeystoneService" => cache.deleting
    BY <1>1 DEF Reconcile, passVars
  <2>3. pc' # "RemoveFinalizer"
    BY <1>1 DEF Reconcile, passVars
  <2>. QED
    BY <1>a, <2>1, <2>2, <2>3 DEF DeleteMarked, DelPCs
<1>2. CASE DeleteKeystoneService
  BY <1>2, <1>a, DMStable DEF DeleteKeystoneService, DelPCs
<1>3. CASE RemoveFinalizer
  <2>1. cache' = cache /\ pc' = "PatchStatus" /\ pc = "RemoveFinalizer"
    BY <1>3 DEF RemoveFinalizer, Exit
  <2>2. cr'.deleting = cr.deleting
    BY <1>3, <1>a DEF RemoveFinalizer, TypeOK, CR
  <2>3. cr'.exists => cr'.fin \/ ~cr'.deleting
    BY <1>3, <1>a, <2>1 DEF RemoveFinalizer, TypeOK, CR, DeleteMarked, DelPCs
  <2>. QED
    BY <1>a, <2>1, <2>2, <2>3 DEF DeleteMarked, DelPCs
<1>4. CASE AddFinalizer
  <2>1. cache' = cache /\ pc' # "DeleteKeystoneService" /\ pc' # "RemoveFinalizer"
    BY <1>4 DEF AddFinalizer, Exit
  <2>2. /\ cr'.deleting = cr.deleting /\ cr'.exists = cr.exists
        /\ (cr.fin => cr'.fin)
    BY <1>4, <1>a DEF AddFinalizer, TypeOK, CR
  <2>. QED
    BY <1>a, <2>1, <2>2 DEF DeleteMarked, DelPCs
<1>5. CASE CreateHashOfInputHashes
  <2>1. cr' = cr \/ \E st : cr' = [cr EXCEPT !.status = st]
    BY <1>5 DEF CreateHashOfInputHashes
  <2>2. cr'.deleting = cr.deleting /\ cr'.exists = cr.exists /\ cr'.fin = cr.fin
    BY <1>a, <2>1, StatusStepFlags
  <2>. QED
    BY <1>5, <1>a, <2>2, DMStable DEF CreateHashOfInputHashes, DelPCs, Exit
<1>6. CASE PatchStatus
  <2>1. cr' = cr \/ \E st : cr' = [cr EXCEPT !.status = st]
    BY <1>6 DEF PatchStatus
  <2>2. cr'.deleting = cr.deleting /\ cr'.exists = cr.exists /\ cr'.fin = cr.fin
    BY <1>a, <2>1, StatusStepFlags
  <2>. QED
    BY <1>6, <1>a, <2>2, DMStable DEF PatchStatus, DelPCs
<1>7. CASE GetSecret \/ GenerateServiceConfigMaps \/ GetParentConfigMaps
           \/ ExposeEndpoints \/ InitGetSecret
  BY <1>7, <1>a, DMStable
  DEF GetSecret, GenerateServiceConfigMaps, GetParentConfigMaps,
      ExposeEndpoints, InitGetSecret, DelPCs, Exit, worldVars
<1>8. CASE KeystoneCreateOrPatch \/ DeploymentCreateOrPatch
  BY <1>8, <1>a, DMStable
  DEF KeystoneCreateOrPatch, DeploymentCreateOrPatch, DelPCs, Exit
<1>9. CASE InformerSync
  BY <1>9, <1>a DEF InformerSync, DeleteMarked, DelPCs, passVars
<1>10. CASE UserEditSpec
  <2>1. cr'.deleting = cr.deleting /\ cr'.exists = cr.exists /\ cr'.fin = cr.fin
    BY <1>10, <1>a DEF UserEditSpec, TypeOK, CR
  <2>. QED
    BY <1>10, <1>a, <2>1, DMStable DEF UserEditSpec, DelPCs
<1>11. CASE UserDelete
  <2>1. cr'.deleting /\ cr'.exists = cr.fin /\ cr'.fin = cr.fin
    BY <1>11, <1>a DEF UserDelete, TypeOK, CR
  <2>. QED
    BY <1>11, <2>1 DEF UserDelete, DeleteMarked, DelPCs
<1>12. CASE SecretChange \/ ParentConfigMapChange \/ DeploymentReadyChange
            \/ GarbageCollect \/ Resync
  BY <1>12, <1>a, DMStable
  DEF SecretChange, ParentConfigMapChange, DeploymentReadyChange,
      GarbageCollect, Resync, passVars
<1>13. ASSUME NEW f \in Facades, KeystoneRegister(f) \/ KeystoneDeregister(f)
       PROVE  DeleteMarked'
  BY <1>13, <1>a, DMStable
  DEF KeystoneRegister, KeystoneDeregister, passVars
<1>14. CASE UNCHANGED vars
  BY <1>14, <1>a DEF vars, worldVars, passVars, DeleteMarked
<1>. QED
  BY <1>1, <1>2, <1>3, <1>4, <1>5, <1>6, <1>7, <1>8, <1>9, <1>10, <1>11,
     <1>12, <1>13, <1>14 DEF Next, ControllerStep, Environment


-----------------------------------------------------------------------------
(* Every step maps to a protocol step or a stutter.                        *)

\* The step relation of the protocol under the mapping.
AbsStep == [Protocol!Next]_Protocol!avars

\* A step that keeps the object's flags and the registrations is a stutter.
LEMMA AbsStutter ==
    ASSUME cr'.exists = cr.exists, cr'.deleting = cr.deleting,
           cr'.fin = cr.fin, LiveServices' = LiveServices
    PROVE  AbsStep
  BY DEF AbsStep, Protocol!avars

\* A step that writes at most the status and leaves the KeystoneServices
\* alone is a stutter.
LEMMA StatusStepStutters ==
    ASSUME TypeOK, cr' = cr \/ \E st : cr' = [cr EXCEPT !.status = st],
           ksvc' = ksvc
    PROVE  AbsStep
  BY StatusStepFlags, AbsStutter DEF LiveServices

\* The keystone-operator only moves a service within "live" or within
\* "not live", so the registrations do not change.
LEMMA RefineKeystoneOperator ==
    ASSUME TypeOK, NEW f \in Facades,
           KeystoneRegister(f) \/ KeystoneDeregister(f)
    PROVE  AbsStep
  <1>1. cr' = cr
    BY DEF KeystoneRegister, KeystoneDeregister
  <1>2. LiveServices' = LiveServices
    BY DEF KeystoneRegister, KeystoneDeregister, LiveServices, TypeOK
  <1>. QED
    BY <1>1, <1>2, AbsStutter

\* The collector finds nothing registered, since a registration needs an
\* existing object (LiveProtected).
LEMMA RefineGarbageCollect ==
    ASSUME IInv, GarbageCollect
    PROVE  AbsStep
  <1>1. cr' = cr
    BY DEF GarbageCollect
  <1>2. LiveServices = {}
    BY DEF GarbageCollect, IInv, LiveProtected, Live, LiveServices
  <1>3. LiveServices' = {}
    BY DEF GarbageCollect, IInv, TypeOK, LiveServices
  <1>. QED
    BY <1>1, <1>2, <1>3, AbsStutter

\* Creating a KeystoneService registers its facade under the finalizer that
\* NormalHasFinalizer guarantees; patching an existing one changes nothing.
LEMMA RefineKeystoneCreateOrPatch ==
    ASSUME IInv, KeystoneCreateOrPatch
    PROVE  AbsStep
  <1> DEFINE f == Facade[idx]
  <1>1. f \in Facades /\ cr' = cr
    BY DEF KeystoneCreateOrPatch, IInv, TypeOK, Facade, Facades, NFacades
  <1>2. cr.exists /\ cr.fin
    BY DEF KeystoneCreateOrPatch, IInv, NormalHasFinalizer, AfterFinalizer
  <1>3. CASE ksvc[f] = "absent" /\ ksvc' # ksvc
    <2>1. ksvc' = [ksvc EXCEPT ![f] = "created"]
      BY <1>3 DEF KeystoneCreateOrPatch
    <2>2. LiveServices' = LiveServices \cup {f}
      BY <1>1, <2>1 DEF LiveServices, IInv, TypeOK
    <2>3. Protocol!Register(f)
      BY <1>1, <1>2, <2>2 DEF Protocol!Register
    <2>. QED
      BY <1>1, <2>3 DEF AbsStep, Protocol!Next
  <1>4. CASE ~(ksvc[f] = "absent" /\ ksvc' # ksvc)
    <2>1. ksvc' = ksvc
      BY <1>4 DEF KeystoneCreateOrPatch, IInv, TypeOK
    <2>. QED
      BY <1>1, <2>1, AbsStutter DEF LiveServices
  <1>. QED
    BY <1>3, <1>4

\* The delete loop deregisters the facade it visits; the object is marked
\* for deletion (DeleteMarked).
LEMMA RefineDeleteKeystoneService ==
    ASSUME RInv, DeleteKeystoneService
    PROVE  AbsStep
  <1> DEFINE f == Facade[idx]
  <1>1. f \in Facades /\ cr' = cr /\ cr.deleting
    BY DEF DeleteKeystoneService, RInv, IInv, TypeOK, Facade, Facades,
           NFacades, DeleteMarked, DelPCs
  <1>2. CASE ksvc[f] \in {"created", "ready"} /\ ksvc' # ksvc
    <2>1. ksvc' = [ksvc EXCEPT ![f] = "deleting"]
      BY <1>2 DEF DeleteKeystoneService
    <2>2. LiveServices' = LiveServices \ {f} /\ f \in LiveServices
      BY <1>1, <1>2, <2>1 DEF LiveServices, RInv, IInv, TypeOK
    <2>3. Protocol!Deregister(f)
      BY <1>1, <2>2 DEF Protocol!Deregister
    <2>. QED
      BY <1>1, <2>3 DEF AbsStep, Protocol!Next
  <1>3. CASE ~(ksvc[f] \in {"created", "ready"} /\ ksvc' # ksvc)
    <2>1. LiveServices' = LiveServices
      BY <1>1, <1>3 DEF DeleteKeystoneService, LiveServices, RInv, IInv,
                        TypeOK, KsStates
    <2>. QED
      BY <1>1, <2>1, AbsStutter
  <1>. QED
    BY <1>2, <1>3

\* A successful RemoveFinalizer is the protocol's: the object is marked
\* (DeleteMarked) and nothing is registered (ReadyToRemove).
LEMMA RefineRemoveFinalizer ==
    ASSUME RInv, RemoveFinalizer
    PROVE  AbsStep
  <1>1. ksvc' = ksvc /\ cr.deleting
    BY DEF RemoveFinalizer, RInv, DeleteMarked, DelPCs
  <1>2. CASE cr' = cr
    BY <1>1, <1>2, AbsStutter DEF LiveServices
  <1>3. CASE cr' # cr
    <2>1. cr.exists /\ cr' = [cr EXCEPT !.fin = FALSE, !.exists = ~cr.deleting]
      BY <1>3 DEF RemoveFinalizer
    <2>2. cr'.exists = FALSE /\ cr'.fin = FALSE /\ cr'.deleting = cr.deleting
      BY <1>1, <2>1 DEF RInv, IInv, TypeOK, CR
    <2>3. LiveServices = {}
      BY DEF RemoveFinalizer, RInv, IInv, ReadyToRemove, Live, LiveServices
    <2>4. Protocol!RemoveFinalizer
      BY <1>1, <2>1, <2>2, <2>3 DEF Protocol!RemoveFinalizer, LiveServices
    <2>. QED
      BY <2>4 DEF AbsStep, Protocol!Next
  <1>. QED
    BY <1>2, <1>3

\* AddFinalizer puts the finalizer on an object that, lacking it, cannot be
\* marked (DeleteMarked); on one that has it the step is a stutter.
LEMMA RefineAddFinalizer ==
    ASSUME RInv, AddFinalizer
    PROVE  AbsStep
  <1>1. ksvc' = ksvc
    BY DEF AddFinalizer
  <1>2. cr' = cr \/ (cr.exists /\ cr' = [cr EXCEPT !.fin = TRUE])
    BY DEF AddFinalizer
  <1>3. /\ cr'.exists = cr.exists /\ cr'.deleting = cr.deleting
        /\ cr'.fin = (cr.fin \/ cr' # cr)
    BY <1>2 DEF RInv, IInv, TypeOK, CR
  <1>4. CASE cr.fin \/ cr' = cr
    BY <1>1, <1>3, <1>4, AbsStutter DEF LiveServices
  <1>5. CASE ~cr.fin /\ cr' # cr
    <2>1. cr.exists /\ ~cr.deleting
      BY <1>2, <1>5 DEF RInv, DeleteMarked
    <2>2. Protocol!AddFinalizer
      BY <1>1, <1>3, <1>5, <2>1 DEF Protocol!AddFinalizer, LiveServices
    <2>. QED
      BY <2>2 DEF AbsStep, Protocol!Next
  <1>. QED
    BY <1>4, <1>5

\* A user delete is the protocol's Delete.
LEMMA RefineUserDelete ==
    ASSUME TypeOK, UserDelete
    PROVE  AbsStep
  <1>1. /\ cr.exists /\ ~cr.deleting /\ ksvc' = ksvc
        /\ cr'.deleting = TRUE /\ cr'.exists = cr.fin /\ cr'.fin = cr.fin
    BY DEF UserDelete, TypeOK, CR
  <1>2. Protocol!Delete
    BY <1>1 DEF Protocol!Delete, LiveServices
  <1>. QED
    BY <1>2 DEF AbsStep, Protocol!Next

\* Every step of the reconciler and its cluster is a protocol step or a
\* stutter.
LEMMA RefineStep == RInv /\ [Next]_vars => AbsStep
<1> SUFFICES ASSUME RInv, [Next]_vars PROVE AbsStep
  OBVIOUS
<1>a. TypeOK /\ IInv
  BY DEF RInv, IInv
<1>1. CASE Reconcile \/ GetSecret \/ GenerateServiceConfigMaps
           \/ GetParentConfigMaps \/ ExposeEndpoints \/ InitGetSecret
           \/ DeploymentCreateOrPatch
  <2>1. cr' = cr /\ ksvc' = ksvc
    BY <1>1 DEF Reconcile, GetSecret, GenerateServiceConfigMaps,
                GetParentConfigMaps, ExposeEndpoints, InitGetSecret,
                DeploymentCreateOrPatch, worldVars
  <2>. QED
    BY <2>1, AbsStutter DEF LiveServices
<1>2. CASE CreateHashOfInputHashes \/ PatchStatus \/ UserEditSpec
  <2>2. CASE UserEditSpec
    <3>1. /\ cr'.exists = cr.exists /\ cr'.deleting = cr.deleting
          /\ cr'.fin = cr.fin /\ ksvc' = ksvc
      BY <2>2, <1>a DEF UserEditSpec, TypeOK, CR
    <3>. QED
      BY <3>1, AbsStutter DEF LiveServices
  <2>3. CASE CreateHashOfInputHashes \/ PatchStatus
    <3>1. cr' = cr \/ \E st : cr' = [cr EXCEPT !.status = st]
      BY <2>3 DEF CreateHashOfInputHashes, PatchStatus
    <3>2. ksvc' = ksvc
      BY <2>3 DEF CreateHashOfInputHashes, PatchStatus
    <3>. QED
      BY <1>a, <3>1, <3>2, StatusStepStutters
  <2>. QED
    BY <1>2, <2>2, <2>3
<1>3. CASE InformerSync \/ SecretChange \/ ParentConfigMapChange
           \/ DeploymentReadyChange \/ Resync
  <2>1. cr' = cr /\ ksvc' = ksvc
    BY <1>3 DEF InformerSync, SecretChange, ParentConfigMapChange,
                DeploymentReadyChange, Resync
  <2>. QED
    BY <2>1, AbsStutter DEF LiveServices
<1>4. CASE KeystoneCreateOrPatch
  BY <1>4, <1>a, RefineKeystoneCreateOrPatch
<1>5. CASE DeleteKeystoneService
  BY <1>5, RefineDeleteKeystoneService
<1>6. CASE RemoveFinalizer
  BY <1>6, RefineRemoveFinalizer
<1>7. CASE AddFinalizer
  BY <1>7, RefineAddFinalizer
<1>8. CASE UserDelete
  BY <1>8, <1>a, RefineUserDelete
<1>9. CASE GarbageCollect
  BY <1>9, <1>a, RefineGarbageCollect
<1>10. ASSUME NEW f \in Facades, KeystoneRegister(f) \/ KeystoneDeregister(f)
       PROVE  AbsStep
  BY <1>10, <1>a, RefineKeystoneOperator
<1>11. CASE UNCHANGED vars
  BY <1>11, AbsStutter DEF vars, worldVars, LiveServices
<1>. QED
  BY <1>1, <1>2, <1>3, <1>4, <1>5, <1>6, <1>7, <1>8, <1>9, <1>10, <1>11
  DEF Next, ControllerStep, Environment

-----------------------------------------------------------------------------
\* The initial state maps to the protocol's initial state, and satisfies
\* DeleteMarked.
LEMMA InitRefines == Init => Protocol!Init /\ DeleteMarked
  BY DEF Init, Protocol!Init, LiveServices, DeleteMarked, DelPCs

\* The reconciler of lines 299-451 and 592-715, with its cluster, implements
\* the finalizer protocol: for every secrets, configs and bounds, each
\* behaviour of Spec is, under the mapping Protocol, a behaviour of the
\* protocol's safety specification.
THEOREM Refinement == Spec => FinalizerProtocolSafety
<1>1. Spec => []RInv
  <2>1. Init => RInv
    BY InitIInv, InitRefines DEF RInv
  <2>2. RInv /\ [Next]_vars => RInv'
    BY NextIInv, DeleteMarkedStep DEF RInv
  <2>. QED
    BY <2>1, <2>2, PTL DEF Spec
<1>2. Init => Protocol!Init
  BY InitRefines
<1>. QED
  BY <1>1, <1>2, RefineStep, PTL
  DEF Spec, FinalizerProtocolSafety, Protocol!SafetySpec, AbsStep


\* The mapping instantiates the protocol's module and its proofs' module
\* alike: both give the same initial condition, step and invariant.
LEMMA ProtocolSame ==
    /\ Protocol!Init <=> ProtocolProofs!Init
    /\ [Protocol!Next]_Protocol!avars
         <=> [ProtocolProofs!Next]_ProtocolProofs!avars
    /\ Protocol!Protected <=> ProtocolProofs!Protected
  BY DEF Protocol!Init, ProtocolProofs!Init, Protocol!avars,
         ProtocolProofs!avars, Protocol!Protected, ProtocolProofs!Protected,
         Protocol!Next, ProtocolProofs!Next, Protocol!AddFinalizer,
         ProtocolProofs!AddFinalizer, Protocol!RemoveFinalizer,
         ProtocolProofs!RemoveFinalizer, Protocol!Delete,
         ProtocolProofs!Delete, Protocol!Collect, ProtocolProofs!Collect,
         Protocol!Register, ProtocolProofs!Register, Protocol!Deregister,
         ProtocolProofs!Deregister

\* The protocol's guarantee carries over to the code: in every reachable
\* state of the reconciler and its cluster, a registered KeystoneService
\* has an existing object holding the finalizer (the comment at line 597).
THEOREM ProtectedByFinalizer == Spec => []Protocol!Protected
<1>1. Protocol!SafetySpec => ProtocolProofs!SafetySpec
  BY ProtocolSame, PTL DEF Protocol!SafetySpec, ProtocolProofs!SafetySpec
<1>2. []ProtocolProofs!Protected => []Protocol!Protected
  BY ProtocolSame, PTL
<1>3. Spec => Protocol!SafetySpec
  BY Refinement DEF FinalizerProtocolSafety
<1>. QED
  BY <1>1, <1>2, <1>3, ProtocolProofs!ProtectedInvariant

=============================================================================
