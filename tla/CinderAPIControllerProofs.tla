--------------------- MODULE CinderAPIControllerProofs ---------------------
(***************************************************************************)
(* Proofs about CinderAPIController: type correctness and the finalizer    *)
(* protocol (no KeystoneService outlives its CinderAPI).                   *)
(***************************************************************************)
EXTENDS CinderAPIController, TLAPS

USE ConstantsAssumption

-----------------------------------------------------------------------------
(* Lemmas on the record types.                                             *)

\* Updating one field of a CinderAPI object's status keeps it an object.
LEMMA CRSetStatus ==
    ASSUME NEW s \in CR, NEW st \in Status
    PROVE  [s EXCEPT !.status = st] \in CR
  BY DEF CR

\* Adding a facade to the endpoints or service ids, or setting the ready
\* count or the hash, keeps a status a status.
LEMMA StatusFields ==
    ASSUME NEW st \in Status
    PROVE  /\ \A f \in Facades : [st EXCEPT !.eps = @ \cup {f}] \in Status
           /\ \A f \in Facades : [st EXCEPT !.ids = @ \cup {f}] \in Status
           /\ \A r \in ReadyCounts : [st EXCEPT !.ready = r] \in Status
           /\ \A h \in InputHashes : [st EXCEPT !.hash = h] \in Status
  BY DEF Status

\* The same updates applied to the status of an object keep it an object.
LEMMA CRStatusFields ==
    ASSUME NEW s \in CR
    PROVE  /\ \A f \in Facades : [s EXCEPT !.status.eps = @ \cup {f}] \in CR
           /\ \A f \in Facades : [s EXCEPT !.status.ids = @ \cup {f}] \in CR
           /\ \A r \in ReadyCounts : [s EXCEPT !.status.ready = r] \in CR
           /\ \A h \in InputHashes : [s EXCEPT !.status.hash = h] \in CR
  <1>1. s.status \in Status
    BY DEF CR
  <1>2. /\ \A f \in Facades : [s EXCEPT !.status.eps = @ \cup {f}] = [s EXCEPT !.status = [s.status EXCEPT !.eps = @ \cup {f}]]
        /\ \A f \in Facades : [s EXCEPT !.status.ids = @ \cup {f}] = [s EXCEPT !.status = [s.status EXCEPT !.ids = @ \cup {f}]]
        /\ \A r \in ReadyCounts : [s EXCEPT !.status.ready = r] = [s EXCEPT !.status = [s.status EXCEPT !.ready = r]]
        /\ \A h \in InputHashes : [s EXCEPT !.status.hash = h] = [s EXCEPT !.status = [s.status EXCEPT !.hash = h]]
    BY DEF CR
  <1>. QED
    BY <1>1, <1>2, StatusFields, CRSetStatus

\* The deferred merge patch of a status onto a status yields a status.
LEMMA MergeStatusType ==
    ASSUME NEW c \in Status, NEW b \in Status, NEW a \in Status
    PROVE  MergeStatus(c, b, a) \in Status
  BY DEF MergeStatus, MergeKeys, MergeScalar, Status

-----------------------------------------------------------------------------
\* Init is well typed.
LEMMA InitTypeOK == Init => TypeOK
<1> SUFFICES ASSUME Init PROVE TypeOK
  OBVIOUS
<1>1. (CHOOSE v \in CfgVals : TRUE) \in CfgVals
  OBVIOUS
<1>2. [hash |-> NoHash, eps |-> {}, ids |-> {}, ready |-> 0] \in Status
  BY DEF Status, NoHash, ReadyCounts
<1>3. cr \in CR /\ cache \in CR /\ inst \in CR /\ before \in Status
  BY <1>1, <1>2 DEF Init, CR
<1>4. depl \in Deployments /\ ksvc \in [Facades -> KsStates]
  BY DEF Init, Deployments, NoHash, ReadyCounts, KsStates
<1>5. cmVars \in [secret : SecretVals \cup {Absent}, cfg : CfgVals \cup {NoCfg}]
      /\ inputHash \in InputHashes \cup {NoHash}
  BY DEF Init
<1>6. /\ cacheFresh \in BOOLEAN /\ parentCMs \in BOOLEAN
      /\ services \in BOOLEAN /\ queued \in BOOLEAN
      /\ fresh \in BOOLEAN /\ wrote \in BOOLEAN
      /\ secret \in SecretVals \cup {Absent} /\ ownCM \in CfgVals \cup {Absent}
      /\ retry \in RetryModes
  BY DEF Init, RetryModes
<1>7. /\ pc \in PCs /\ idx \in 1..NFacades /\ res \in Results
      /\ envSteps \in 0..MaxEnvSteps /\ faults \in 0..MaxFaults
  BY DEF Init, PCs, Results, NFacades
<1>8. QED
  BY <1>3, <1>4, <1>5, <1>6, <1>7, Zenon DEF TypeOK

-----------------------------------------------------------------------------
(* One lemma per action: the frame, then each changed variable.            *)

\* Reconcile keeps every variable in its type.
LEMMA TypeOKReconcile ==
    ASSUME TypeOK, Reconcile
    PROVE  TypeOK'
  <1>frame. UNCHANGED <<cr, cache, cacheFresh, secret, parentCMs, ownCM, 
                       services, ksvc, depl, envSteps>>
    BY DEF Reconcile, passVars, worldVars
  <1>retry. retry' \in RetryModes
    BY DEF Reconcile, TypeOK, WorkQueueRetry, RetryModes, passVars
  <1>queued. queued' \in BOOLEAN
    BY DEF Reconcile, TypeOK, passVars
  <1>faults. faults' \in 0..MaxFaults
    BY DEF Reconcile, TypeOK, Fault, passVars
  <1>inst. inst' \in CR
    BY DEF Reconcile, TypeOK, CR, passVars
  <1>before. before' \in Status
    BY DEF Reconcile, TypeOK, CR, passVars
  <1>fresh. fresh' \in BOOLEAN
    BY DEF Reconcile, TypeOK, passVars
  <1>wrote. wrote' \in BOOLEAN
    BY DEF Reconcile, TypeOK, passVars
  <1>cmVars. cmVars' \in [secret : SecretVals \cup {Absent}, cfg : CfgVals \cup {NoCfg}]
    BY DEF Reconcile, TypeOK, passVars
  <1>inputHash. inputHash' \in InputHashes \cup {NoHash}
    BY DEF Reconcile, TypeOK, InputHashes, passVars
  <1>idx. idx' \in 1..NFacades
    BY DEF Reconcile, TypeOK, NFacades, passVars
  <1>res. res' \in Results
    BY DEF Reconcile, TypeOK, Results, Exit, passVars
  <1>pc. pc' \in PCs
    BY DEF Reconcile, TypeOK, PCs, Exit, passVars
  <1>. QED
    BY <1>frame, <1>retry, <1>queued, <1>faults, <1>inst, <1>before, <1>fresh, <1>wrote, <1>cmVars, <1>inputHash, <1>idx, <1>res, <1>pc, Zenon DEF TypeOK

\* DeleteKeystoneService keeps every variable in its type.
LEMMA TypeOKDeleteKeystoneService ==
    ASSUME TypeOK, DeleteKeystoneService
    PROVE  TypeOK'
  <1>frame. UNCHANGED <<cr, cache, cacheFresh, secret, parentCMs, ownCM, 
                       services, depl, inst, before, fresh, 
                       wrote, cmVars, inputHash, envSteps, retry>>
    BY DEF DeleteKeystoneService, passVars, worldVars
  <1>ksvc. ksvc' \in [Facades -> KsStates]
    BY DEF DeleteKeystoneService, TypeOK, Facade, Facades, KsStates, NFacades
  <1>queued. queued' \in BOOLEAN
    BY DEF DeleteKeystoneService, TypeOK
  <1>idx. idx' \in 1..NFacades
    BY DEF DeleteKeystoneService, TypeOK, NFacades
  <1>pc. pc' \in PCs
    BY DEF DeleteKeystoneService, TypeOK, PCs, Exit
  <1>res. res' \in Results
    BY DEF DeleteKeystoneService, TypeOK, Results, Exit
  <1>faults. faults' \in 0..MaxFaults
    BY DEF DeleteKeystoneService, TypeOK, Fault
  <1>. QED
    BY <1>frame, <1>ksvc, <1>queued, <1>idx, <1>pc, <1>res, <1>faults, Zenon DEF TypeOK

\* RemoveFinalizer keeps every variable in its type.
LEMMA TypeOKRemoveFinalizer ==
    ASSUME TypeOK, RemoveFinalizer
    PROVE  TypeOK'
  <1>frame. UNCHANGED <<cache, secret, parentCMs, ownCM, services, ksvc, 
                       depl, queued, before, fresh, cmVars, 
                       inputHash, idx, envSteps, retry>>
    BY DEF RemoveFinalizer, passVars, worldVars
  <1>cr. cr' \in CR
    BY DEF RemoveFinalizer, TypeOK, CR
  <1>inst. inst' \in CR
    BY <1>cr DEF RemoveFinalizer, TypeOK
  <1>cacheFresh. cacheFresh' \in BOOLEAN
    BY DEF RemoveFinalizer, TypeOK
  <1>wrote. wrote' \in BOOLEAN
    BY DEF RemoveFinalizer, TypeOK
  <1>pc. pc' \in PCs
    BY DEF RemoveFinalizer, TypeOK, PCs, Exit
  <1>res. res' \in Results
    BY DEF RemoveFinalizer, TypeOK, Results, Exit
  <1>faults. faults' \in 0..MaxFaults
    BY DEF RemoveFinalizer, TypeOK, Fault
  <1>. QED
    BY <1>frame, <1>cr, <1>inst, <1>cacheFresh, <1>wrote, <1>pc, <1>res, <1>faults, Zenon DEF TypeOK

\* AddFinalizer keeps every variable in its type.
LEMMA TypeOKAddFinalizer ==
    ASSUME TypeOK, AddFinalizer
    PROVE  TypeOK'
  <1>frame. UNCHANGED <<cache, secret, parentCMs, ownCM, services, ksvc, 
                       depl, queued, before, fresh, cmVars, 
                       inputHash, idx, envSteps, retry>>
    BY DEF AddFinalizer, passVars, worldVars
  <1>cr. cr' \in CR
    BY DEF AddFinalizer, TypeOK, CR
  <1>inst. inst' \in CR
    BY <1>cr DEF AddFinalizer, TypeOK
  <1>cacheFresh. cacheFresh' \in BOOLEAN
    BY DEF AddFinalizer, TypeOK
  <1>wrote. wrote' \in BOOLEAN
    BY DEF AddFinalizer, TypeOK
  <1>pc. pc' \in PCs
    BY DEF AddFinalizer, TypeOK, PCs, Exit
  <1>res. res' \in Results
    BY DEF AddFinalizer, TypeOK, Results, Exit
  <1>faults. faults' \in 0..MaxFaults
    BY DEF AddFinalizer, TypeOK, Fault
  <1>. QED
    BY <1>frame, <1>cr, <1>inst, <1>cacheFresh, <1>wrote, <1>pc, <1>res, <1>faults, Zenon DEF TypeOK

\* GetSecret keeps every variable in its type.
LEMMA TypeOKGetSecret ==
    ASSUME TypeOK, GetSecret
    PROVE  TypeOK'
  <1>frame. UNCHANGED <<cr, cache, cacheFresh, secret, parentCMs, ownCM, 
                       services, ksvc, depl, queued, inst, 
                       before, fresh, wrote, inputHash, idx, 
                       envSteps, retry>>
    BY DEF GetSecret, passVars, worldVars
  <1>cmVars. cmVars' \in [secret : SecretVals \cup {Absent}, cfg : CfgVals \cup {NoCfg}]
    BY DEF GetSecret, TypeOK
  <1>pc. pc' \in PCs
    BY DEF GetSecret, TypeOK, PCs, Exit
  <1>res. res' \in Results
    BY DEF GetSecret, TypeOK, Results, Exit
  <1>faults. faults' \in 0..MaxFaults
    BY DEF GetSecret, TypeOK, Fault
  <1>. QED
    BY <1>frame, <1>cmVars, <1>pc, <1>res, <1>faults, Zenon DEF TypeOK

\* GenerateServiceConfigMaps keeps every variable in its type.
LEMMA TypeOKGenerateServiceConfigMaps ==
    ASSUME TypeOK, GenerateServiceConfigMaps
    PROVE  TypeOK'
  <1>frame. UNCHANGED <<cr, cache, cacheFresh, secret, parentCMs, services, 
                       ksvc, depl, queued, inst, before, fresh, 
                       wrote, inputHash, idx, res, envSteps, retry>>
    BY DEF GenerateServiceConfigMaps, passVars, worldVars
  <1>ownCM. ownCM' \in CfgVals \cup {Absent}
    BY DEF GenerateServiceConfigMaps, TypeOK, CR
  <1>cmVars. cmVars' \in [secret : SecretVals \cup {Absent}, cfg : CfgVals \cup {NoCfg}]
    <2>1. inst.spec \in CfgVals
    BY DEF TypeOK, CR
  <2>2. QED
    BY <2>1 DEF GenerateServiceConfigMaps, TypeOK
  <1>faults. faults' \in 0..MaxFaults
    BY DEF GenerateServiceConfigMaps, TypeOK, Fault
  <1>pc. pc' \in PCs
    BY DEF GenerateServiceConfigMaps, TypeOK, PCs, Exit
  <1>. QED
    BY <1>frame, <1>ownCM, <1>cmVars, <1>faults, <1>pc, Zenon DEF TypeOK

\* GetParentConfigMaps keeps every variable in its type.
LEMMA TypeOKGetParentConfigMaps ==
    ASSUME TypeOK, GetParentConfigMaps
    PROVE  TypeOK'
  <1>frame. UNCHANGED <<cr, cache, cacheFresh, secret, parentCMs, ownCM, 
                       services, ksvc, depl, queued, inst, 
                       before, fresh, wrote, cmVars, inputHash, 
                       idx, envSteps, retry>>
    BY DEF GetParentConfigMaps, passVars, worldVars
  <1>pc. pc' \in PCs
    BY DEF GetParentConfigMaps, TypeOK, PCs, Exit
  <1>res. res' \in Results
    BY DEF GetParentConfigMaps, TypeOK, Results, Exit
  <1>faults. faults' \in 0..MaxFaults
    BY DEF GetParentConfigMaps, TypeOK, Fault
  <1>. QED
    BY <1>frame, <1>pc, <1>res, <1>faults, Zenon DEF TypeOK

\* CreateHashOfInputHashes keeps every variable in its type.
LEMMA TypeOKCreateHashOfInputHashes ==
    ASSUME TypeOK, CreateHashOfInputHashes
    PROVE  TypeOK'
  <1>frame. UNCHANGED <<cache, secret, parentCMs, ownCM, services, ksvc, 
                       depl, queued, before, fresh, cmVars, 
                       envSteps, retry>>
    BY DEF CreateHashOfInputHashes, passVars, worldVars
  <1>cr. cr' \in CR
    <2>1. [secret |-> cmVars.secret, cfg |-> cmVars.cfg] \in InputHashes
    BY DEF TypeOK, InputHashes
  <2>2. [inst EXCEPT !.status.hash = [secret |-> cmVars.secret, cfg |-> cmVars.cfg]] \in CR
    BY <2>1, CRStatusFields DEF TypeOK
  <2>3. [cr EXCEPT !.status = [inst EXCEPT !.status.hash = [secret |-> cmVars.secret, cfg |-> cmVars.cfg]].status] \in CR
    BY <2>2, CRSetStatus DEF TypeOK, CR
  <2>4. QED
    BY <2>3 DEF CreateHashOfInputHashes, TypeOK
  <1>inputHash. inputHash' \in InputHashes \cup {NoHash}
    BY DEF CreateHashOfInputHashes, TypeOK, InputHashes
  <1>pc. pc' \in PCs
    BY DEF CreateHashOfInputHashes, TypeOK, PCs, Exit
  <1>idx. idx' \in 1..NFacades
    BY DEF CreateHashOfInputHashes, TypeOK, NFacades
  <1>cacheFresh. cacheFresh' \in BOOLEAN
    BY DEF CreateHashOfInputHashes, TypeOK
  <1>inst. inst' \in CR
    <2>1. [secret |-> cmVars.secret, cfg |-> cmVars.cfg] \in InputHashes
    BY DEF TypeOK, InputHashes
  <2>2. [inst EXCEPT !.status.hash = [secret |-> cmVars.secret, cfg |-> cmVars.cfg]] \in CR
    BY <2>1, CRStatusFields DEF TypeOK
  <2>3. QED
    BY <2>2, <1>cr DEF CreateHashOfInputHashes, TypeOK
  <1>wrote. wrote' \in BOOLEAN
    BY DEF CreateHashOfInputHashes, TypeOK
  <1>res. res' \in Results
    BY DEF CreateHashOfInputHashes, TypeOK, Results, Exit
  <1>faults. faults' \in 0..MaxFaults
    BY DEF CreateHashOfInputHashes, TypeOK, Fault
  <1>. QED
    BY <1>frame, <1>cr, <1>inputHash, <1>pc, <1>idx, <1>cacheFresh, <1>inst, <1>wrote, <1>res, <1>faults, Zenon DEF TypeOK

\* ExposeEndpoints keeps every variable in its type.
LEMMA TypeOKExposeEndpoints ==
    ASSUME TypeOK, ExposeEndpoints
    PROVE  TypeOK'
  <1>frame. UNCHANGED <<cr, cache, cacheFresh, secret, parentCMs, ownCM, 
                       ksvc, depl, before, fresh, wrote, cmVars, 
                       inputHash, envSteps, retry>>
    BY DEF ExposeEndpoints, passVars, worldVars
  <1>services. services' \in BOOLEAN
    BY DEF ExposeEndpoints, TypeOK
  <1>queued. queued' \in BOOLEAN
    BY DEF ExposeEndpoints, TypeOK
  <1>inst. inst' \in CR
    <2>1. Facade[idx] \in Facades
    BY DEF TypeOK, Facade, Facades, NFacades
  <2>2. [inst EXCEPT !.status.eps = @ \cup {Facade[idx]}] \in CR
    BY <2>1, CRStatusFields DEF TypeOK
  <2>3. QED
    BY <2>2 DEF ExposeEndpoints, TypeOK
  <1>idx. idx' \in 1..NFacades
    BY DEF ExposeEndpoints, TypeOK, NFacades
  <1>pc. pc' \in PCs
    BY DEF ExposeEndpoints, TypeOK, PCs, Exit
  <1>res. res' \in Results
    BY DEF ExposeEndpoints, TypeOK, Results, Exit
  <1>faults. faults' \in 0..MaxFaults
    BY DEF ExposeEndpoints, TypeOK, Fault
  <1>. QED
    BY <1>frame, <1>services, <1>queued, <1>inst, <1>idx, <1>pc, <1>res, <1>faults, Zenon DEF TypeOK

\* InitGetSecret keeps every variable in its type.
LEMMA TypeOKInitGetSecret ==
    ASSUME TypeOK, InitGetSecret
    PROVE  TypeOK'
  <1>frame. UNCHANGED <<cr, cache, cacheFresh, secret, parentCMs, ownCM, 
                       services, ksvc, depl, queued, inst, 
                       before, fresh, wrote, cmVars, inputHash, 
                       idx, envSteps, retry>>
    BY DEF InitGetSecret, passVars, worldVars
  <1>pc. pc' \in PCs
    BY DEF InitGetSecret, TypeOK, PCs, Exit
  <1>res. res' \in Results
    BY DEF InitGetSecret, TypeOK, Results, Exit
  <1>faults. faults' \in 0..MaxFaults
    BY DEF InitGetSecret, TypeOK, Fault
  <1>. QED
    BY <1>frame, <1>pc, <1>res, <1>faults, Zenon DEF TypeOK

\* KeystoneCreateOrPatch keeps every variable in its type.
LEMMA TypeOKKeystoneCreateOrPatch ==
    ASSUME TypeOK, KeystoneCreateOrPatch
    PROVE  TypeOK'
  <1>frame. UNCHANGED <<cr, cache, cacheFresh, secret, parentCMs, ownCM, 
                       services, depl, before, fresh, wrote, 
                       cmVars, inputHash, envSteps, retry>>
    BY DEF KeystoneCreateOrPatch, passVars, worldVars
  <1>ksvc. ksvc' \in [Facades -> KsStates]
    BY DEF KeystoneCreateOrPatch, TypeOK, Facade, Facades, KsStates, NFacades
  <1>queued. queued' \in BOOLEAN
    BY DEF KeystoneCreateOrPatch, TypeOK
  <1>inst. inst' \in CR
    <2>1. Facade[idx] \in Facades
    BY DEF TypeOK, Facade, Facades, NFacades
  <2>2. [inst EXCEPT !.status.ids = @ \cup {Facade[idx]}] \in CR
    BY <2>1, CRStatusFields DEF TypeOK
  <2>3. QED
    BY <2>2 DEF KeystoneCreateOrPatch, TypeOK
  <1>idx. idx' \in 1..NFacades
    BY DEF KeystoneCreateOrPatch, TypeOK, NFacades
  <1>pc. pc' \in PCs
    BY DEF KeystoneCreateOrPatch, TypeOK, PCs, Exit
  <1>res. res' \in Results
    BY DEF KeystoneCreateOrPatch, TypeOK, Results, Exit
  <1>faults. faults' \in 0..MaxFaults
    BY DEF KeystoneCreateOrPatch, TypeOK, Fault
  <1>. QED
    BY <1>frame, <1>ksvc, <1>queued, <1>inst, <1>idx, <1>pc, <1>res, <1>faults, Zenon DEF TypeOK

\* DeploymentCreateOrPatch keeps every variable in its type.
LEMMA TypeOKDeploymentCreateOrPatch ==
    ASSUME TypeOK, DeploymentCreateOrPatch
    PROVE  TypeOK'
  <1>frame. UNCHANGED <<cr, cache, cacheFresh, secret, parentCMs, ownCM, 
                       services, ksvc, before, fresh, wrote, 
                       cmVars, inputHash, idx, envSteps, retry>>
    BY DEF DeploymentCreateOrPatch, passVars, worldVars
  <1>depl. depl' \in Deployments
    <2>1. (IF depl.exists THEN depl.ready ELSE 0) \in ReadyCounts
    BY DEF TypeOK, Deployments, ReadyCounts
  <2>2. [exists |-> TRUE, hash |-> inputHash,
         ready |-> IF depl.exists THEN depl.ready ELSE 0] \in Deployments
    BY <2>1 DEF TypeOK, Deployments
  <2>3. QED
    BY <2>2 DEF DeploymentCreateOrPatch, TypeOK
  <1>queued. queued' \in BOOLEAN
    BY DEF DeploymentCreateOrPatch, TypeOK
  <1>inst. inst' \in CR
    <2>1. (IF depl.exists THEN depl.ready ELSE 0) \in ReadyCounts
    BY DEF TypeOK, Deployments, ReadyCounts
  <2>2. [inst EXCEPT !.status.ready = IF depl.exists THEN depl.ready ELSE 0] \in CR
    BY <2>1, CRStatusFields DEF TypeOK
  <2>3. QED
    BY <2>2 DEF DeploymentCreateOrPatch, TypeOK
  <1>pc. pc' \in PCs
    BY DEF DeploymentCreateOrPatch, TypeOK, PCs, Exit
  <1>res. res' \in Results
    BY DEF DeploymentCreateOrPatch, TypeOK, Results, Exit
  <1>faults. faults' \in 0..MaxFaults
    BY DEF DeploymentCreateOrPatch, TypeOK, Fault
  <1>. QED
    BY <1>frame, <1>depl, <1>queued, <1>inst, <1>pc, <1>res, <1>faults, Zenon DEF TypeOK

\* PatchStatus keeps every variable in its type.
LEMMA TypeOKPatchStatus ==
    ASSUME TypeOK, PatchStatus
    PROVE  TypeOK'
  <1>frame. UNCHANGED <<cache, secret, parentCMs, ownCM, services, ksvc, 
                       depl, inst, before, fresh, wrote, cmVars, 
                       inputHash, idx, res, envSteps>>
    BY DEF PatchStatus, passVars, worldVars
  <1>pc. pc' \in PCs
    BY DEF PatchStatus, TypeOK, PCs, Exit
  <1>queued. queued' \in BOOLEAN
    BY DEF PatchStatus, TypeOK
  <1>cr. cr' \in CR
    <2>1. MergeStatus(cr.status, before, inst.status) \in Status
    BY MergeStatusType DEF TypeOK, CR
  <2>2. [cr EXCEPT !.status = MergeStatus(cr.status, before, inst.status)] \in CR
    BY <2>1, CRSetStatus DEF TypeOK
  <2>3. QED
    BY <2>2 DEF PatchStatus, TypeOK
  <1>cacheFresh. cacheFresh' \in BOOLEAN
    BY DEF PatchStatus, TypeOK
  <1>faults. faults' \in 0..MaxFaults
    BY DEF PatchStatus, TypeOK, Fault
  <1>retry. retry' \in RetryModes
    BY DEF PatchStatus, TypeOK, Results, RetryModes, WorkQueueRetry
  <1>. QED
    BY <1>frame, <1>pc, <1>queued, <1>cr, <1>cacheFresh, <1>faults, <1>retry, Zenon DEF TypeOK

\* InformerSync keeps every variable in its type.
LEMMA TypeOKInformerSync ==
    ASSUME TypeOK, InformerSync
    PROVE  TypeOK'
  <1>frame. UNCHANGED <<cr, secret, parentCMs, ownCM, services, ksvc, depl, 
                       pc, inst, before, fresh, wrote, cmVars, 
                       inputHash, idx, res, envSteps, faults, retry>>
    BY DEF InformerSync, passVars, worldVars
  <1>cache. cache' \in CR
    BY DEF InformerSync, TypeOK
  <1>cacheFresh. cacheFresh' \in BOOLEAN
    BY DEF InformerSync, TypeOK
  <1>queued. queued' \in BOOLEAN
    BY DEF InformerSync, TypeOK
  <1>. QED
    BY <1>frame, <1>cache, <1>cacheFresh, <1>queued, Zenon DEF TypeOK

\* UserEditSpec keeps every variable in its type.
LEMMA TypeOKUserEditSpec ==
    ASSUME TypeOK, UserEditSpec
    PROVE  TypeOK'
  <1>frame. UNCHANGED <<cache, secret, parentCMs, ownCM, services, ksvc, 
                       depl, queued, pc, inst, before, wrote, 
                       cmVars, inputHash, idx, res, faults, retry>>
    BY DEF UserEditSpec, passVars, worldVars
  <1>envSteps. envSteps' \in 0..MaxEnvSteps
    BY DEF UserEditSpec, TypeOK, EnvStep
  <1>cr. cr' \in CR
    BY DEF UserEditSpec, TypeOK, CR
  <1>cacheFresh. cacheFresh' \in BOOLEAN
    BY DEF UserEditSpec, TypeOK
  <1>fresh. fresh' \in BOOLEAN
    BY DEF UserEditSpec, TypeOK
  <1>. QED
    BY <1>frame, <1>envSteps, <1>cr, <1>cacheFresh, <1>fresh, Zenon DEF TypeOK

\* UserDelete keeps every variable in its type.
LEMMA TypeOKUserDelete ==
    ASSUME TypeOK, UserDelete
    PROVE  TypeOK'
  <1>frame. UNCHANGED <<cache, secret, parentCMs, ownCM, services, ksvc, 
                       depl, queued, pc, inst, before, wrote, 
                       cmVars, inputHash, idx, res, faults, retry>>
    BY DEF UserDelete, passVars, worldVars
  <1>envSteps. envSteps' \in 0..MaxEnvSteps
    BY DEF UserDelete, TypeOK, EnvStep
  <1>cr. cr' \in CR
    BY DEF UserDelete, TypeOK, CR
  <1>cacheFresh. cacheFresh' \in BOOLEAN
    BY DEF UserDelete, TypeOK
  <1>fresh. fresh' \in BOOLEAN
    BY DEF UserDelete, TypeOK
  <1>. QED
    BY <1>frame, <1>envSteps, <1>cr, <1>cacheFresh, <1>fresh, Zenon DEF TypeOK

\* SecretChange keeps every variable in its type.
LEMMA TypeOKSecretChange ==
    ASSUME TypeOK, SecretChange
    PROVE  TypeOK'
  <1>frame. UNCHANGED <<cr, cache, cacheFresh, parentCMs, ownCM, services, 
                       ksvc, depl, queued, pc, inst, before, 
                       fresh, wrote, cmVars, inputHash, idx, res, 
                       faults, retry>>
    BY DEF SecretChange, passVars, worldVars
  <1>envSteps. envSteps' \in 0..MaxEnvSteps
    BY DEF SecretChange, TypeOK, EnvStep
  <1>secret. secret' \in SecretVals \cup {Absent}
    BY DEF SecretChange, TypeOK
  <1>. QED
    BY <1>frame, <1>envSteps, <1>secret, Zenon DEF TypeOK

\* ParentConfigMapChange keeps every variable in its type.
LEMMA TypeOKParentConfigMapChange ==
    ASSUME TypeOK, ParentConfigMapChange
    PROVE  TypeOK'
  <1>frame. UNCHANGED <<cr, cache, cacheFresh, secret, ownCM, services, ksvc, 
                       depl, pc, inst, before, fresh, wrote, 
                       cmVars, inputHash, idx, res, retry>>
    BY DEF ParentConfigMapChange, passVars, worldVars
  <1>faults. faults' \in 0..MaxFaults
    BY DEF ParentConfigMapChange, TypeOK, Fault
  <1>envSteps. envSteps' \in 0..MaxEnvSteps
    BY DEF ParentConfigMapChange, TypeOK, EnvStep
  <1>parentCMs. parentCMs' \in BOOLEAN
    BY DEF ParentConfigMapChange, TypeOK
  <1>queued. queued' \in BOOLEAN
    BY DEF ParentConfigMapChange, TypeOK
  <1>. QED
    BY <1>frame, <1>envSteps, <1>parentCMs, <1>queued, <1>faults, Zenon DEF TypeOK

\* DeploymentReadyChange keeps every variable in its type.
LEMMA TypeOKDeploymentReadyChange ==
    ASSUME TypeOK, DeploymentReadyChange
    PROVE  TypeOK'
  <1>frame. UNCHANGED <<cr, cache, cacheFresh, secret, parentCMs, ownCM, 
                       services, ksvc, pc, inst, before, fresh, 
                       wrote, cmVars, inputHash, idx, res, 
                       faults, retry>>
    BY DEF DeploymentReadyChange, passVars, worldVars
  <1>envSteps. envSteps' \in 0..MaxEnvSteps
    BY DEF DeploymentReadyChange, TypeOK, EnvStep
  <1>depl. depl' \in Deployments
    BY DEF DeploymentReadyChange, TypeOK, Deployments, ReadyCounts
  <1>queued. queued' \in BOOLEAN
    BY DEF DeploymentReadyChange, TypeOK
  <1>. QED
    BY <1>frame, <1>envSteps, <1>depl, <1>queued, Zenon DEF TypeOK

\* KeystoneRegister keeps every variable in its type.
LEMMA TypeOKKeystoneRegister ==
    ASSUME TypeOK, NEW f \in Facades, KeystoneRegister(f)
    PROVE  TypeOK'
  <1>frame. UNCHANGED <<cr, cache, cacheFresh, secret, parentCMs, ownCM, 
                       services, depl, pc, inst, before, fresh, 
                       wrote, cmVars, inputHash, idx, res, 
                       envSteps, faults, retry>>
    BY DEF KeystoneRegister, passVars, worldVars
  <1>ksvc. ksvc' \in [Facades -> KsStates]
    BY DEF KeystoneRegister, TypeOK, Facade, Facades, KsStates, NFacades
  <1>queued. queued' \in BOOLEAN
    BY DEF KeystoneRegister, TypeOK
  <1>. QED
    BY <1>frame, <1>ksvc, <1>queued, Zenon DEF TypeOK

\* KeystoneDeregister keeps every variable in its type.
LEMMA TypeOKKeystoneDeregister ==
    ASSUME TypeOK, NEW f \in Facades, KeystoneDeregister(f)
    PROVE  TypeOK'
  <1>frame. UNCHANGED <<cr, cache, cacheFresh, secret, parentCMs, ownCM, 
                       services, depl, pc, inst, before, fresh, 
                       wrote, cmVars, inputHash, idx, res, 
                       envSteps, faults, retry>>
    BY DEF KeystoneDeregister, passVars, worldVars
  <1>ksvc. ksvc' \in [Facades -> KsStates]
    BY DEF KeystoneDeregister, TypeOK, Facade, Facades, KsStates, NFacades
  <1>queued. queued' \in BOOLEAN
    BY DEF KeystoneDeregister, TypeOK
  <1>. QED
    BY <1>frame, <1>ksvc, <1>queued, Zenon DEF TypeOK

\* GarbageCollect keeps every variable in its type.
LEMMA TypeOKGarbageCollect ==
    ASSUME TypeOK, GarbageCollect
    PROVE  TypeOK'
  <1>frame. UNCHANGED <<cr, cache, cacheFresh, secret, parentCMs, queued, pc, 
                       inst, before, fresh, wrote, cmVars, 
                       inputHash, idx, res, envSteps, faults, retry>>
    BY DEF GarbageCollect, passVars, worldVars
  <1>depl. depl' \in Deployments
    BY DEF GarbageCollect, TypeOK, Deployments, ReadyCounts
  <1>services. services' \in BOOLEAN
    BY DEF GarbageCollect, TypeOK
  <1>ownCM. ownCM' \in CfgVals \cup {Absent}
    BY DEF GarbageCollect, TypeOK, CR
  <1>ksvc. ksvc' \in [Facades -> KsStates]
    BY DEF GarbageCollect, TypeOK, Facade, Facades, KsStates, NFacades
  <1>. QED
    BY <1>frame, <1>depl, <1>services, <1>ownCM, <1>ksvc, Zenon DEF TypeOK

\* Resync keeps every variable in its type.
LEMMA TypeOKResync ==
    ASSUME TypeOK, Resync
    PROVE  TypeOK'
  <1>frame. UNCHANGED <<cr, cache, cacheFresh, secret, parentCMs, ownCM, 
                       services, ksvc, depl, pc, inst, before, 
                       fresh, wrote, cmVars, inputHash, idx, res, 
                       envSteps, faults, retry>>
    BY DEF Resync, passVars, worldVars
  <1>queued. queued' \in BOOLEAN
    BY DEF Resync, TypeOK
  <1>. QED
    BY <1>frame, <1>queued, Zenon DEF TypeOK

\* Every step of the controller and of the environment keeps the types.
LEMMA NextTypeOK == TypeOK /\ [Next]_vars => TypeOK'
<1> SUFFICES ASSUME TypeOK, [Next]_vars PROVE TypeOK'
  OBVIOUS
<1>1. CASE Reconcile
  BY <1>1, TypeOKReconcile
<1>2. CASE DeleteKeystoneService
  BY <1>2, TypeOKDeleteKeystoneService
<1>3. CASE RemoveFinalizer
  BY <1>3, TypeOKRemoveFinalizer
<1>4. CASE AddFinalizer
  BY <1>4, TypeOKAddFinalizer
<1>5. CASE GetSecret
  BY <1>5, TypeOKGetSecret
<1>6. CASE GenerateServiceConfigMaps
  BY <1>6, TypeOKGenerateServiceConfigMaps
<1>7. CASE GetParentConfigMaps
  BY <1>7, TypeOKGetParentConfigMaps
<1>8. CASE CreateHashOfInputHashes
  BY <1>8, TypeOKCreateHashOfInputHashes
<1>9. CASE ExposeEndpoints
  BY <1>9, TypeOKExposeEndpoints
<1>10. CASE InitGetSecret
  BY <1>10, TypeOKInitGetSecret
<1>11. CASE KeystoneCreateOrPatch
  BY <1>11, TypeOKKeystoneCreateOrPatch
<1>12. CASE DeploymentCreateOrPatch
  BY <1>12, TypeOKDeploymentCreateOrPatch
<1>13. CASE PatchStatus
  BY <1>13, TypeOKPatchStatus
<1>14. CASE InformerSync
  BY <1>14, TypeOKInformerSync
<1>15. CASE UserEditSpec
  BY <1>15, TypeOKUserEditSpec
<1>16. CASE UserDelete
  BY <1>16, TypeOKUserDelete
<1>17. CASE SecretChange
  BY <1>17, TypeOKSecretChange
<1>18. CASE ParentConfigMapChange
  BY <1>18, TypeOKParentConfigMapChange
<1>19. CASE DeploymentReadyChange
  BY <1>19, TypeOKDeploymentReadyChange
<1>20. CASE GarbageCollect
  BY <1>20, TypeOKGarbageCollect
<1>21. CASE Resync
  BY <1>21, TypeOKResync
<1>22. CASE \E f \in Facades : KeystoneRegister(f) \/ KeystoneDeregister(f)
  BY <1>22, TypeOKKeystoneRegister, TypeOKKeystoneDeregister
<1>23. CASE UNCHANGED vars
  BY <1>23 DEF TypeOK, vars, worldVars, passVars
<1>24. QED
  BY <1>1, <1>2, <1>3, <1>4, <1>5, <1>6, <1>7, <1>8, <1>9, <1>10, <1>11,
     <1>12, <1>13, <1>14, <1>15, <1>16, <1>17, <1>18, <1>19, <1>20, <1>21,
     <1>22, <1>23
  DEF Next, ControllerStep, Environment

\* The type invariant holds in every reachable state.
THEOREM TypeCorrect == Spec => []TypeOK
BY InitTypeOK, NextTypeOK, PTL DEF Spec

-----------------------------------------------------------------------------
(* The finalizer protocol.                                                 *)

\* Steps of reconcileNormal after the finalizer update succeeded.
AfterFinalizer == {"GetSecret", "EnsureConfigMaps", "GetParentConfigMaps",
                   "InputHash", "ExposeEndpoints", "InitGetSecret",
                   "KeystoneService", "Deployment"}

\* A KeystoneService that is registered or being registered.
Live(f) == ksvc[f] \in {"created", "ready"}

\* The inductive invariant behind NoOrphanKeystoneService:
\*  - a live KeystoneService is protected by the finalizer of an existing
\*    object (so the API server cannot remove the object under it);
\*  - while reconcileNormal runs past r.Update, the finalizer is there;
\*  - reconcileDelete has deleted every KeystoneService its loop has
\*    passed, and nothing creates one again before RemoveFinalizer.
LiveProtected ==
    \A f \in Facades : Live(f) => cr.exists /\ cr.fin
NormalHasFinalizer ==
    pc \in AfterFinalizer => cr.exists /\ cr.fin
DeleteProgress ==
    pc = "DeleteKeystoneService" => \A i \in 1..(idx - 1) : ~Live(Facade[i])
ReadyToRemove ==
    pc = "RemoveFinalizer" => \A f \in Facades : ~Live(f)

IInv == TypeOK /\ LiveProtected /\ NormalHasFinalizer /\ DeleteProgress
        /\ ReadyToRemove

-----------------------------------------------------------------------------
(* The inductive invariant is preserved by every action.                  *)

\* Steps that keep the protection of the object, create no live
\* KeystoneService and leave the pass where it is keep the invariant.
LEMMA IInvStable ==
    ASSUME IInv, TypeOK',
           (cr.exists /\ cr.fin) => (cr'.exists /\ cr'.fin),
           \A g \in Facades : Live(g)' => Live(g),
           pc' = pc, idx' = idx
    PROVE  IInv'
  <1>1. LiveProtected'
    BY DEF IInv, LiveProtected
  <1>2. NormalHasFinalizer'
    BY DEF IInv, NormalHasFinalizer
  <1>3. DeleteProgress'
    <2>1. \A i \in 1..(idx - 1) : Facade[i] \in Facades
      BY DEF IInv, TypeOK, Facade, Facades, NFacades
    <2>2. QED
      BY <2>1 DEF IInv, DeleteProgress
  <1>4. ReadyToRemove'
    BY DEF IInv, ReadyToRemove
  <1>. QED
    BY <1>1, <1>2, <1>3, <1>4 DEF IInv

\* A step of reconcileNormal past the finalizer update that keeps the
\* finalizer keeps the invariant, whatever it creates.
LEMMA IInvNormal ==
    ASSUME IInv, TypeOK',
           pc \in AfterFinalizer, pc' \in AfterFinalizer \cup {"PatchStatus"},
           cr'.exists = cr.exists, cr'.fin = cr.fin
    PROVE  IInv'
  BY DEF IInv, LiveProtected, NormalHasFinalizer, DeleteProgress, ReadyToRemove,
         AfterFinalizer

\* InformerSync keeps the inductive invariant.
LEMMA IInvInformerSync ==
    ASSUME IInv, InformerSync
    PROVE  IInv'
  <1>1. TypeOK'
    BY TypeOKInformerSync DEF IInv
  <1>2. (cr.exists /\ cr.fin) => (cr'.exists /\ cr'.fin)
    BY DEF InformerSync
  <1>3. \A g \in Facades : Live(g)' => Live(g)
    BY DEF InformerSync, Live, IInv, TypeOK
  <1>4. pc' = pc /\ idx' = idx
    BY DEF InformerSync, passVars
  <1>. QED
    BY <1>1, <1>2, <1>3, <1>4, IInvStable

\* SecretChange keeps the inductive invariant.
LEMMA IInvSecretChange ==
    ASSUME IInv, SecretChange
    PROVE  IInv'
  <1>1. TypeOK'
    BY TypeOKSecretChange DEF IInv
  <1>2. (cr.exists /\ cr.fin) => (cr'.exists /\ cr'.fin)
    BY DEF SecretChange
  <1>3. \A g \in Facades : Live(g)' => Live(g)
    BY DEF SecretChange, Live, IInv, TypeOK
  <1>4. pc' = pc /\ idx' = idx
    BY DEF SecretChange, passVars
  <1>. QED
    BY <1>1, <1>2, <1>3, <1>4, IInvStable

\* ParentConfigMapChange keeps the inductive invariant.
LEMMA IInvParentConfigMapChange ==
    ASSUME IInv, ParentConfigMapChange
    PROVE  IInv'
  <1>1. TypeOK'
    BY TypeOKParentConfigMapChange DEF IInv
  <1>2. (cr.exists /\ cr.fin) => (cr'.exists /\ cr'.fin)
    BY DEF ParentConfigMapChange
  <1>3. \A g \in Facades : Live(g)' => Live(g)
    BY DEF ParentConfigMapChange, Live, IInv, TypeOK
  <1>4. pc' = pc /\ idx' = idx
    BY DEF ParentConfigMapChange, passVars
  <1>. QED
    BY <1>1, <1>2, <1>3, <1>4, IInvStable

\* DeploymentReadyChange keeps the inductive invariant.
LEMMA IInvDeploymentReadyChange ==
    ASSUME IInv, DeploymentReadyChange
    PROVE  IInv'
  <1>1. TypeOK'
    BY TypeOKDeploymentReadyChange DEF IInv
  <1>2. (cr.exists /\ cr.fin) => (cr'.exists /\ cr'.fin)
    BY DEF DeploymentReadyChange
  <1>3. \A g \in Facades : Live(g)' => Live(g)
    BY DEF DeploymentReadyChange, Live, IInv, TypeOK
  <1>4. pc' = pc /\ idx' = idx
    BY DEF DeploymentReadyChange, passVars
  <1>. QED
    BY <1>1, <1>2, <1>3, <1>4, IInvStable

\* Resync keeps the inductive invariant.
LEMMA IInvResync ==
    ASSUME IInv, Resync
    PROVE  IInv'
  <1>1. TypeOK'
    BY TypeOKResync DEF IInv
  <1>2. (cr.exists /\ cr.fin) => (cr'.exists /\ cr'.fin)
    BY DEF Resync
  <1>3. \A g \in Facades : Live(g)' => Live(g)
    BY DEF Resync, Live, IInv, TypeOK
  <1>4. pc' = pc /\ idx' = idx
    BY DEF Resync, passVars
  <1>. QED
    BY <1>1, <1>2, <1>3, <1>4, IInvStable

\* UserEditSpec keeps the inductive invariant.
LEMMA IInvUserEditSpec ==
    ASSUME IInv, UserEditSpec
    PROVE  IInv'
  <1>1. TypeOK'
    BY TypeOKUserEditSpec DEF IInv
  <1>2. (cr.exists /\ cr.fin) => (cr'.exists /\ cr'.fin)
    BY DEF UserEditSpec, CR, IInv, TypeOK
  <1>3. \A g \in Facades : Live(g)' => Live(g)
    BY DEF UserEditSpec, Live, IInv, TypeOK
  <1>4. pc' = pc /\ idx' = idx
    BY DEF UserEditSpec, passVars
  <1>. QED
    BY <1>1, <1>2, <1>3, <1>4, IInvStable

\* UserDelete keeps the inductive invariant.
LEMMA IInvUserDelete ==
    ASSUME IInv, UserDelete
    PROVE  IInv'
  <1>1. TypeOK'
    BY TypeOKUserDelete DEF IInv
  <1>2. (cr.exists /\ cr.fin) => (cr'.exists /\ cr'.fin)
    BY DEF UserDelete, CR, IInv, TypeOK
  <1>3. \A g \in Facades : Live(g)' => Live(g)
    BY DEF UserDelete, Live, IInv, TypeOK
  <1>4. pc' = pc /\ idx' = idx
    BY DEF UserDelete, passVars
  <1>. QED
    BY <1>1, <1>2, <1>3, <1>4, IInvStable

\* KeystoneRegister keeps the inductive invariant.
LEMMA IInvKeystoneRegister ==
    ASSUME IInv, NEW f \in Facades, KeystoneRegister(f)
    PROVE  IInv'
  <1>1. TypeOK'
    BY TypeOKKeystoneRegister DEF IInv
  <1>2. (cr.exists /\ cr.fin) => (cr'.exists /\ cr'.fin)
    BY DEF KeystoneRegister
  <1>3. \A g \in Facades : Live(g)' => Live(g)
    BY DEF KeystoneRegister, Live, IInv, TypeOK
  <1>4. pc' = pc /\ idx' = idx
    BY DEF KeystoneRegister, passVars
  <1>. QED
    BY <1>1, <1>2, <1>3, <1>4, IInvStable

\* KeystoneDeregister keeps the inductive invariant.
LEMMA IInvKeystoneDeregister ==
    ASSUME IInv, NEW f \in Facades, KeystoneDeregister(f)
    PROVE  IInv'
  <1>1. TypeOK'
    BY TypeOKKeystoneDeregister DEF IInv
  <1>2. (cr.exists /\ cr.fin) => (cr'.exists /\ cr'.fin)
    BY DEF KeystoneDeregister
  <1>3. \A g \in Facades : Live(g)' => Live(g)
    BY DEF KeystoneDeregister, Live, IInv, TypeOK
  <1>4. pc' = pc /\ idx' = idx
    BY DEF KeystoneDeregister, passVars
  <1>. QED
    BY <1>1, <1>2, <1>3, <1>4, IInvStable

\* GarbageCollect keeps the inductive invariant.
LEMMA IInvGarbageCollect ==
    ASSUME IInv, GarbageCollect
    PROVE  IInv'
  <1>1. TypeOK'
    BY TypeOKGarbageCollect DEF IInv
  <1>2. (cr.exists /\ cr.fin) => (cr'.exists /\ cr'.fin)
    BY DEF GarbageCollect
  <1>3. \A g \in Facades : Live(g)' => Live(g)
    BY DEF GarbageCollect, Live, IInv, TypeOK, LiveProtected
  <1>4. pc' = pc /\ idx' = idx
    BY DEF GarbageCollect, passVars
  <1>. QED
    BY <1>1, <1>2, <1>3, <1>4, IInvStable

\* GetSecret keeps the inductive invariant.
LEMMA IInvGetSecret ==
    ASSUME IInv, GetSecret
    PROVE  IInv'
  <1>1. TypeOK'
    BY TypeOKGetSecret DEF IInv
  <1>2. pc \in AfterFinalizer /\ pc' \in AfterFinalizer \cup {"PatchStatus"}
    BY DEF GetSecret, Exit, AfterFinalizer
  <1>3. cr'.exists = cr.exists /\ cr'.fin = cr.fin
    BY DEF GetSecret, IInv, TypeOK, CR, worldVars
  <1>. QED
    BY <1>1, <1>2, <1>3, IInvNormal

\* GenerateServiceConfigMaps keeps the inductive invariant.
LEMMA IInvGenerateServiceConfigMaps ==
    ASSUME IInv, GenerateServiceConfigMaps
    PROVE  IInv'
  <1>1. TypeOK'
    BY TypeOKGenerateServiceConfigMaps DEF IInv
  <1>2. pc \in AfterFinalizer /\ pc' \in AfterFinalizer \cup {"PatchStatus"}
    BY DEF GenerateServiceConfigMaps, Exit, AfterFinalizer
  <1>3. cr'.exists = cr.exists /\ cr'.fin = cr.fin
    BY DEF GenerateServiceConfigMaps, IInv, TypeOK, CR, worldVars
  <1>. QED
    BY <1>1, <1>2, <1>3, IInvNormal

\* GetParentConfigMaps keeps the inductive invariant.
LEMMA IInvGetParentConfigMaps ==
    ASSUME IInv, GetParentConfigMaps
    PROVE  IInv'
  <1>1. TypeOK'
    BY TypeOKGetParentConfigMaps DEF IInv
  <1>2. pc \in AfterFinalizer /\ pc' \in AfterFinalizer \cup {"PatchStatus"}
    BY DEF GetParentConfigMaps, Exit, AfterFinalizer
  <1>3. cr'.exists = cr.exists /\ cr'.fin = cr.fin
    BY DEF GetParentConfigMaps, IInv, TypeOK, CR, worldVars
  <1>. QED
    BY <1>1, <1>2, <1>3, IInvNormal

\* CreateHashOfInputHashes keeps the inductive invariant.
LEMMA IInvCreateHashOfInputHashes ==
    ASSUME IInv, CreateHashOfInputHashes
    PROVE  IInv'
  <1>1. TypeOK'
    BY TypeOKCreateHashOfInputHashes DEF IInv
  <1>2. pc \in AfterFinalizer /\ pc' \in AfterFinalizer \cup {"PatchStatus"}
    BY DEF CreateHashOfInputHashes, Exit, AfterFinalizer
  <1>3. cr'.exists = cr.exists /\ cr'.fin = cr.fin
    BY DEF CreateHashOfInputHashes, IInv, TypeOK, CR, worldVars
  <1>. QED
    BY <1>1, <1>2, <1>3, IInvNormal

\* ExposeEndpoints keeps the inductive invariant.
LEMMA IInvExposeEndpoints ==
    ASSUME IInv, ExposeEndpoints
    PROVE  IInv'
  <1>1. TypeOK'
    BY TypeOKExposeEndpoints DEF IInv
  <1>2. pc \in AfterFinalizer /\ pc' \in AfterFinalizer \cup {"PatchStatus"}
    BY DEF ExposeEndpoints, Exit, AfterFinalizer
  <1>3. cr'.exists = cr.exists /\ cr'.fin = cr.fin
    BY DEF ExposeEndpoints, IInv, TypeOK, CR, worldVars
  <1>. QED
    BY <1>1, <1>2, <1>3, IInvNormal

\* InitGetSecret keeps the inductive invariant.
LEMMA IInvInitGetSecret ==
    ASSUME IInv, InitGetSecret
    PROVE  IInv'
  <1>1. TypeOK'
    BY TypeOKInitGetSecret DEF IInv
  <1>2. pc \in AfterFinalizer /\ pc' \in AfterFinalizer \cup {"PatchStatus"}
    BY DEF InitGetSecret, Exit, AfterFinalizer
  <1>3. cr'.exists = cr.exists /\ cr'.fin = cr.fin
    BY DEF InitGetSecret, IInv, TypeOK, CR, worldVars
  <1>. QED
    BY <1>1, <1>2, <1>3, IInvNormal

\* KeystoneCreateOrPatch keeps the inductive invariant.
LEMMA IInvKeystoneCreateOrPatch ==
    ASSUME IInv, KeystoneCreateOrPatch
    PROVE  IInv'
  <1>1. TypeOK'
    BY TypeOKKeystoneCreateOrPatch DEF IInv
  <1>2. pc \in AfterFinalizer /\ pc' \in AfterFinalizer \cup {"PatchStatus"}
    BY DEF KeystoneCreateOrPatch, Exit, AfterFinalizer
  <1>3. cr'.exists = cr.exists /\ cr'.fin = cr.fin
    BY DEF KeystoneCreateOrPatch, IInv, TypeOK, CR, worldVars
  <1>. QED
    BY <1>1, <1>2, <1>3, IInvNormal

\* DeploymentCreateOrPatch keeps the inductive invariant.
LEMMA IInvDeploymentCreateOrPatch ==
    ASSUME IInv, DeploymentCreateOrPatch
    PROVE  IInv'
  <1>1. TypeOK'
    BY TypeOKDeploymentCreateOrPatch DEF IInv
  <1>2. pc \in AfterFinalizer /\ pc' \in AfterFinalizer \cup {"PatchStatus"}
    BY DEF DeploymentCreateOrPatch, Exit, AfterFinalizer
  <1>3. cr'.exists = cr.exists /\ cr'.fin = cr.fin
    BY DEF DeploymentCreateOrPatch, IInv, TypeOK, CR, worldVars
  <1>. QED
    BY <1>1, <1>2, <1>3, IInvNormal

\* Reconcile starts a pass: the delete loop starts at its first facade.
LEMMA IInvReconcile ==
    ASSUME IInv, Reconcile
    PROVE  IInv'
  <1>1. TypeOK'
    BY TypeOKReconcile DEF IInv
  <1>2. cr' = cr /\ ksvc' = ksvc
    BY DEF Reconcile
  <1>3. /\ pc' \in {"Idle", "DeleteKeystoneService", "AddFinalizer"}
        /\ pc' = "DeleteKeystoneService" => idx' = 1
    BY DEF Reconcile, passVars
  <1>4. LiveProtected'
    BY <1>2 DEF IInv, LiveProtected, Live
  <1>5. NormalHasFinalizer' /\ ReadyToRemove'
    BY <1>3 DEF NormalHasFinalizer, ReadyToRemove, AfterFinalizer
  <1>6. DeleteProgress'
    BY <1>3 DEF DeleteProgress
  <1>. QED
    BY <1>1, <1>4, <1>5, <1>6 DEF IInv

\* One iteration of the delete loop leaves the facade it visits dead; after
\* the last one no KeystoneService is live.
LEMMA IInvDeleteKeystoneService ==
    ASSUME IInv, DeleteKeystoneService
    PROVE  IInv'
  <1>1. TypeOK'
    BY TypeOKDeleteKeystoneService DEF IInv
  <1>2. cr' = cr /\ pc = "DeleteKeystoneService"
    BY DEF DeleteKeystoneService
  <1>3. \A g \in Facades : Live(g)' => Live(g)
    BY DEF DeleteKeystoneService, Live, IInv, TypeOK
  <1>4. pc' \in {"PatchStatus", "DeleteKeystoneService", "RemoveFinalizer"}
    BY DEF DeleteKeystoneService, Exit
  <1>5. \A i \in 1..NFacades : Facade[i] \in Facades
    BY DEF Facade, Facades, NFacades
  <1>6. idx \in 1..NFacades
    BY DEF IInv, TypeOK
  <1>7. pc' # "PatchStatus" =>
           /\ ksvc'[Facade[idx]] \in {"absent", "deleting"}
           /\ pc' = "DeleteKeystoneService" => idx' = idx + 1
           /\ pc' = "RemoveFinalizer" => idx = NFacades
    BY <1>5, <1>6 DEF DeleteKeystoneService, Exit, IInv, TypeOK, NFacades
  <1>8. DeleteProgress'
    <2>1. SUFFICES ASSUME pc' = "DeleteKeystoneService",
                          NEW i \in 1..(idx' - 1)
                   PROVE  ~Live(Facade[i])'
      BY DEF DeleteProgress
    <2>2. CASE i < idx
      BY <2>2, <1>2, <1>3, <1>7, <1>5, <1>6 DEF IInv, DeleteProgress, NFacades
    <2>3. CASE i = idx
      BY <2>1, <2>3, <1>7 DEF Live
    <2>. QED
      BY <2>1, <2>2, <2>3, <1>7, <1>6
  <1>9. ReadyToRemove'
    <2>1. SUFFICES ASSUME pc' = "RemoveFinalizer", NEW g \in Facades
                   PROVE  ~Live(g)'
      BY DEF ReadyToRemove
    <2>2. idx = 2 /\ ~Live(Facade[2])'
      BY <2>1, <1>7 DEF NFacades, Live
    <2>3. ~Live(Facade[1])'
      BY <1>2, <1>3, <1>5, <2>2 DEF IInv, DeleteProgress, NFacades
    <2>. QED
      BY <2>2, <2>3 DEF Facade, Facades
  <1>10. LiveProtected'
    BY <1>2, <1>3 DEF IInv, LiveProtected
  <1>11. NormalHasFinalizer'
    BY <1>4 DEF NormalHasFinalizer, AfterFinalizer
  <1>. QED
    BY <1>1, <1>8, <1>9, <1>10, <1>11 DEF IInv

\* RemoveFinalizer runs only when no KeystoneService is live.
LEMMA IInvRemoveFinalizer ==
    ASSUME IInv, RemoveFinalizer
    PROVE  IInv'
  <1>1. TypeOK'
    BY TypeOKRemoveFinalizer DEF IInv
  <1>2. ksvc' = ksvc /\ pc = "RemoveFinalizer" /\ pc' = "PatchStatus"
    BY DEF RemoveFinalizer, Exit
  <1>3. LiveProtected'
    BY <1>2 DEF IInv, ReadyToRemove, LiveProtected, Live
  <1>4. NormalHasFinalizer' /\ DeleteProgress' /\ ReadyToRemove'
    BY <1>2 DEF NormalHasFinalizer, DeleteProgress, ReadyToRemove,
                AfterFinalizer
  <1>. QED
    BY <1>1, <1>3, <1>4 DEF IInv

\* AddFinalizer only adds the finalizer, and the pass goes on only when the
\* update succeeded.
LEMMA IInvAddFinalizer ==
    ASSUME IInv, AddFinalizer
    PROVE  IInv'
  <1>1. TypeOK'
    BY TypeOKAddFinalizer DEF IInv
  <1>2. ksvc' = ksvc
    BY DEF AddFinalizer
  <1>3. cr'.exists = cr.exists /\ (cr.fin => cr'.fin)
    BY DEF AddFinalizer, IInv, TypeOK, CR
  <1>4. /\ pc' \in {"GetSecret", "PatchStatus"}
        /\ pc' = "GetSecret" => cr'.exists /\ cr'.fin
    BY DEF AddFinalizer, Exit, IInv, TypeOK, CR
  <1>5. LiveProtected'
    BY <1>2, <1>3 DEF IInv, LiveProtected, Live
  <1>6. NormalHasFinalizer' /\ DeleteProgress' /\ ReadyToRemove'
    BY <1>4 DEF NormalHasFinalizer, DeleteProgress, ReadyToRemove,
                AfterFinalizer
  <1>. QED
    BY <1>1, <1>5, <1>6 DEF IInv

\* The deferred status patch changes only the status and ends the pass.
LEMMA IInvPatchStatus ==
    ASSUME IInv, PatchStatus
    PROVE  IInv'
  <1>1. TypeOK'
    BY TypeOKPatchStatus DEF IInv
  <1>2. ksvc' = ksvc /\ cr'.exists = cr.exists /\ cr'.fin = cr.fin
    BY DEF PatchStatus, IInv, TypeOK, CR
  <1>3. pc' = "Idle"
    BY DEF PatchStatus
  <1>4. LiveProtected'
    BY <1>2 DEF IInv, LiveProtected, Live
  <1>5. NormalHasFinalizer' /\ DeleteProgress' /\ ReadyToRemove'
    BY <1>3 DEF NormalHasFinalizer, DeleteProgress, ReadyToRemove,
                AfterFinalizer
  <1>. QED
    BY <1>1, <1>4, <1>5 DEF IInv

\* The initial state satisfies the inductive invariant.
LEMMA InitIInv == Init => IInv
  <1> SUFFICES ASSUME Init PROVE IInv
    OBVIOUS
  <1>1. TypeOK
    BY InitTypeOK
  <1>2. LiveProtected
    BY DEF Init, LiveProtected, Live
  <1>3. NormalHasFinalizer /\ DeleteProgress /\ ReadyToRemove
    BY DEF Init, NormalHasFinalizer, DeleteProgress, ReadyToRemove,
           AfterFinalizer
  <1>. QED
    BY <1>1, <1>2, <1>3 DEF IInv

\* Every step keeps the inductive invariant.
LEMMA NextIInv == IInv /\ [Next]_vars => IInv'
<1> SUFFICES ASSUME IInv, [Next]_vars PROVE IInv'
  OBVIOUS
<1>1. CASE ControllerStep
  BY <1>1, IInvReconcile, IInvDeleteKeystoneService, IInvRemoveFinalizer,
     IInvAddFinalizer, IInvGetSecret, IInvGenerateServiceConfigMaps,
     IInvGetParentConfigMaps, IInvCreateHashOfInputHashes,
     IInvExposeEndpoints, IInvInitGetSecret, IInvKeystoneCreateOrPatch,
     IInvDeploymentCreateOrPatch, IInvPatchStatus
  DEF ControllerStep
<1>2. CASE Environment
  BY <1>2, IInvInformerSync, IInvUserEditSpec, IInvUserDelete,
     IInvSecretChange, IInvParentConfigMapChange, IInvDeploymentReadyChange,
     IInvKeystoneRegister, IInvKeystoneDeregister, IInvGarbageCollect,
     IInvResync
  DEF Environment
<1>3. CASE UNCHANGED vars
  BY <1>3 DEF vars, worldVars, passVars, IInv, TypeOK, LiveProtected,
              NormalHasFinalizer, DeleteProgress, ReadyToRemove, Live
<1>. QED
  BY <1>1, <1>2, <1>3 DEF Next

\* The strengthened invariant holds in every reachable state.
THEOREM InductiveInvariant == Spec => []IInv
BY InitIInv, NextIInv, PTL DEF Spec

\* The invariant implies that no KeystoneService is live once the object
\* is gone.
LEMMA IInvNoOrphan == IInv => NoOrphanKeystoneService
BY DEF IInv, TypeOK, KsStates, LiveProtected, Live, NoOrphanKeystoneService

\* The finalizer protocol of reconcileNormal / reconcileDelete (lines
\* 595-600, 418-451) never lets the CinderAPI disappear while one of its
\* KeystoneServices is live, for any secrets, configs and bounds.
THEOREM NoOrphan == Spec => []NoOrphanKeystoneService
BY InductiveInvariant, IInvNoOrphan, PTL

=============================================================================
