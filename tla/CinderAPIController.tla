------------------------- MODULE CinderAPIController -------------------------
(***************************************************************************)
(* The CinderAPI reconciler (controllers/cinderapi_controller.go, the     *)
(* second file of src/pkg/cinderapi/statefuleset.go) together with the    *)
(* part of the cluster it talks to.                                        *)
(*                                                                         *)
(* One reconcile pass of one CinderAPI object is a sequence of blocking    *)
(* calls to the API server, the secret and config-map helpers, the         *)
(* endpoint exposer, the KeystoneService helper and the Deployment helper. *)
(* Every call is one step (pc names the next call), so the user, the       *)
(* keystone-operator, the garbage collector and the informer can act      *)
(* between any two of them.  Passes of the same object are serialised by   *)
(* the controller-runtime work queue, so there is one pass at a time.      *)
(*                                                                         *)
(* Data is abstracted: the custom service config is a member of CfgVals,   *)
(* the OpenStack secret a member of SecretVals, the input hash the record  *)
(* of the hashes it digests (collision-free), status maps the sets of      *)
(* their keys (nil and empty maps serialise alike under omitempty).        *)
(***************************************************************************)
EXTENDS Naturals

CONSTANTS
    SecretVals,     \* contents the OpenStack secret can have
    CfgVals,        \* values of Spec.CustomServiceConfig
    MaxEnvSteps,    \* bound on user / cluster changes in one behaviour
    MaxFaults       \* bound on failed calls in one behaviour

ASSUME ConstantsAssumption ==
    /\ SecretVals # {}
    /\ CfgVals # {}
    /\ MaxEnvSteps \in Nat
    /\ MaxFaults \in Nat

Absent == "absent"      \* an object that does not exist
\* Status.Hash has no entry for common.InputHashName (a record like a hash,
\* so that the two compare).
NoHash == [secret |-> "none", cfg |-> "none"]
NoCfg  == "nocfg"       \* configMapVars has no entry for <name>-config-data

\* keystoneServices (lines 273-286), iterated in this order.
Facade  == <<"V2", "V3">>
Facades == {"V2", "V3"}
NFacades == 2

ReadyCounts == 0..1
KsStates == {"absent", "created", "ready", "deleting"}

\* The digest util.ObjectHash(MergeEnvs(configMapVars)) stands for.
InputHashes == [secret : SecretVals \cup {Absent}, cfg : CfgVals \cup {NoCfg}]

Status == [hash : InputHashes \cup {NoHash}, eps : SUBSET Facades,
           ids : SUBSET Facades, ready : ReadyCounts]

CR == [exists : BOOLEAN, deleting : BOOLEAN, fin : BOOLEAN,
       spec : CfgVals, status : Status]

Deployments == [exists : BOOLEAN, hash : InputHashes \cup {NoHash},
                ready : ReadyCounts]

PCs == {"Idle", "AddFinalizer", "GetSecret", "EnsureConfigMaps",
        "GetParentConfigMaps", "InputHash", "ExposeEndpoints",
        "InitGetSecret", "KeystoneService", "Deployment",
        "DeleteKeystoneService", "RemoveFinalizer", "PatchStatus"}

\* What a pass returns: an empty result, a RequeueAfter without an error,
\* an error, or a RequeueAfter of 10 seconds together with an error (the
\* not-found returns of lines 556, 611 and 645).
Results == {"ok", "requeue", "err", "errAfter"}

\* How the work queue re-adds a request after a pass: not at all (Forget),
\* after the returned RequeueAfter delay (AddAfter), or with the
\* per-item exponential backoff of its rate limiter (AddRateLimited).
RetryModes == {"none", "after", "rateLimited"}

VARIABLES
    cr,          \* the CinderAPI object as stored by the API server
    cache,       \* the informer's copy of it, read by r.Client.Get
    cacheFresh,  \* the informer copy is the stored version
    secret,      \* the OpenStack secret Spec.Secret, or Absent
    parentCMs,   \* <cinder>-scripts and <cinder>-config-data both exist
    ownCM,       \* data of <name>-config-data, or Absent
    services,    \* the Services/Routes created by ExposeEndpoints exist
    ksvc,        \* KeystoneService object of each facade
    depl,        \* the Deployment
    queued,      \* a reconcile request for the object is in the work queue
    retry,       \* how the work queue re-added it after the last pass
    pc,          \* next call of the running pass
    inst,        \* the pass's in-memory instance
    before,      \* status snapshot of helper.NewHelper, for the deferred patch
    fresh,       \* inst carries the stored resourceVersion
    wrote,       \* the pass has updated the object (resourceVersion changed)
    cmVars,      \* hashes collected in configMapVars
    inputHash,   \* result of createHashOfInputHashes
    idx,         \* position in the keystoneServices / V2,V3 loops
    res,         \* result the pass returns to the work queue
    envSteps,    \* user / cluster changes so far
    faults       \* failed calls so far

worldVars == <<cr, cache, cacheFresh, secret, parentCMs, ownCM, services,
               ksvc, depl, queued, retry>>
passVars == <<pc, inst, before, fresh, wrote, cmVars, inputHash, idx, res>>
vars == <<worldVars, passVars, envSteps, faults>>

-----------------------------------------------------------------------------
(* Helpers                                                                 *)

\* Result of a JSON merge patch computed by client.MergeFrom(bef) against
\* aft, applied to the stored cur: keys the pass added are added, keys it
\* removed are removed, all others keep their stored value.
MergeKeys(cur, bef, aft) == (cur \ (bef \ aft)) \cup (aft \ bef)
MergeScalar(cur, bef, aft) == IF aft = bef THEN cur ELSE aft
MergeStatus(cur, bef, aft) ==
    [hash  |-> MergeScalar(cur.hash, bef.hash, aft.hash),
     eps   |-> MergeKeys(cur.eps, bef.eps, aft.eps),
     ids   |-> MergeKeys(cur.ids, bef.ids, aft.ids),
     ready |-> MergeScalar(cur.ready, bef.ready, aft.ready)]

\* A failed call: the helper or the API server returned an error.
Fault == faults < MaxFaults /\ faults' = faults + 1

\* Leave the pass through the deferred status patch with result r.
Exit(r) == pc' = "PatchStatus" /\ res' = r

\* The input hash of the current inputs.
CurrentHash == [secret |-> secret, cfg |-> cr.spec]

-----------------------------------------------------------------------------
Init ==
    /\ cr = [exists |-> TRUE, deleting |-> FALSE, fin |-> FALSE,
             spec |-> CHOOSE v \in CfgVals : TRUE,
             status |-> [hash |-> NoHash, eps |-> {}, ids |-> {}, ready |-> 0]]
    /\ cache = cr
    /\ cacheFresh = TRUE
    /\ secret \in SecretVals \cup {Absent}
    /\ parentCMs \in BOOLEAN
    /\ ownCM = Absent
    /\ services = FALSE
    /\ ksvc = [f \in Facades |-> "absent"]
    /\ depl = [exists |-> FALSE, hash |-> NoHash, ready |-> 0]
    /\ queued = TRUE
    /\ retry = "none"
    /\ pc = "Idle"
    /\ inst = cr
    /\ before = cr.status
    /\ fresh = TRUE
    /\ wrote = FALSE
    /\ cmVars = [secret |-> Absent, cfg |-> NoCfg]
    /\ inputHash = NoHash
    /\ idx = 1
    /\ res = "ok"
    /\ envSteps = 0
    /\ faults = 0

\* controller-runtime's handling of what Reconcile returns: an error wins
\* over the result (AddRateLimited; a RequeueAfter returned with it is
\* dropped), a RequeueAfter alone is honoured (AddAfter), success forgets
\* the request.
WorkQueueRetry(r) ==
    CASE r = "ok"                  -> "none"
      [] r = "requeue"             -> "after"
      [] r \in {"err", "errAfter"} -> "rateLimited"

-----------------------------------------------------------------------------
(* Reconcile (lines 299-365): take the request, read the instance from the *)
(* cache, initialise the status maps, snapshot it for the deferred patch   *)
(* and branch to reconcileDelete or reconcileNormal.                       *)
Reconcile ==
    /\ pc = "Idle" /\ queued
    /\ \/ /\ Fault                          \* Get failed: requeue
          /\ queued' = TRUE
          /\ retry' = WorkQueueRetry("err")
          /\ UNCHANGED <<passVars>>
       \/ /\ ~cache.exists                  \* NotFound: done, no requeue
          /\ queued' = FALSE
          /\ retry' = WorkQueueRetry("ok")
          /\ UNCHANGED <<passVars, faults>>
       \/ /\ cache.exists
          /\ queued' = FALSE
          /\ UNCHANGED retry
          /\ inst' = cache
          /\ before' = cache.status
          /\ fresh' = cacheFresh
          /\ wrote' = FALSE
          /\ cmVars' = [secret |-> Absent, cfg |-> NoCfg]
          /\ inputHash' = NoHash
          /\ idx' = 1
          /\ res' = "ok"
          /\ pc' = IF cache.deleting THEN "DeleteKeystoneService"
                                     ELSE "AddFinalizer"
          /\ UNCHANGED faults
    /\ UNCHANGED <<cr, cache, cacheFresh, secret, parentCMs, ownCM, services,
                   ksvc, depl, envSteps>>

\* Mutant: the rule of spec section 8, a guard on recorded endpoint data
\* instead of on a non-nil map: with no endpoints in the status the
\* KeystoneService deletes are skipped.
DeleteKeystoneServiceSkippingWithoutEndpoints ==
    IF inst.status.eps = {}
    THEN /\ pc = "DeleteKeystoneService"
         /\ pc' = "RemoveFinalizer"
         /\ UNCHANGED <<worldVars, inst, before, fresh, wrote, cmVars,
                        inputHash, idx, res, envSteps, faults>>
    ELSE /\ pc = "DeleteKeystoneService"
         /\ \/ /\ Fault
               /\ Exit("err")
               /\ UNCHANGED <<ksvc, queued, idx>>
            \/ /\ ksvc' = [ksvc EXCEPT ![Facade[idx]] =
                              IF @ = "absent" THEN "absent" ELSE "deleting"]
               /\ queued' = (queued \/ ksvc[Facade[idx]] \in {"created", "ready"})
               /\ IF idx < NFacades
                    THEN idx' = idx + 1 /\ UNCHANGED <<pc, res>>
                    ELSE pc' = "RemoveFinalizer" /\ UNCHANGED <<idx, res>>
               /\ UNCHANGED faults
         /\ UNCHANGED <<cr, cache, cacheFresh, secret, parentCMs, ownCM,
                        services, depl, retry, inst, before, fresh, wrote,
                        cmVars, inputHash, envSteps>>

\* Mutant: the loop returns success after the first KeystoneService.
DeleteKeystoneServiceReturningEarly ==
    /\ pc = "DeleteKeystoneService"
    /\ \/ /\ Fault
          /\ Exit("err")
          /\ UNCHANGED <<ksvc, queued>>
       \/ /\ ksvc' = [ksvc EXCEPT ![Facade[idx]] =
                         IF @ = "absent" THEN "absent" ELSE "deleting"]
          /\ queued' = (queued \/ ksvc[Facade[idx]] \in {"created", "ready"})
          /\ Exit("ok")
          /\ UNCHANGED faults
    /\ UNCHANGED <<cr, cache, cacheFresh, secret, parentCMs, ownCM, services,
                   depl, inst, before, fresh, wrote, cmVars, inputHash, idx,
                   envSteps, retry>>

-----------------------------------------------------------------------------
(* reconcileDelete (lines 418-452).  Status.APIEndpoints was made non-nil  *)
(* at line 326, so the guard at line 422 always holds and both             *)
(* KeystoneServices are deleted whatever the status records.               *)
DeleteKeystoneService ==
    /\ pc = "DeleteKeystoneService"
    /\ \/ /\ Fault
          /\ Exit("err")
          /\ UNCHANGED <<ksvc, queued, idx>>
       \/ /\ ksvc' = [ksvc EXCEPT ![Facade[idx]] =
                         IF @ = "absent" THEN "absent" ELSE "deleting"]
          /\ queued' = (queued \/ ksvc[Facade[idx]] \in {"created", "ready"})
          /\ IF idx < NFacades
               THEN idx' = idx + 1 /\ UNCHANGED <<pc, res>>
               ELSE pc' = "RemoveFinalizer" /\ UNCHANGED <<idx, res>>
          /\ UNCHANGED faults
    /\ UNCHANGED <<cr, cache, cacheFresh, secret, parentCMs, ownCM, services,
                   depl, inst, before, fresh, wrote, cmVars, inputHash,
                   envSteps, retry>>

\* RemoveFinalizer and r.Update (lines 445-451); the finalizer was the last
\* one, so the API server removes the object being deleted.
RemoveFinalizer ==
    /\ pc = "RemoveFinalizer"
    /\ \/ /\ ~cr.exists                     \* NotFound is success
          /\ Exit("ok")
          /\ UNCHANGED <<cr, cacheFresh, inst, wrote, faults>>
       \/ /\ cr.exists /\ ~fresh            \* Conflict
          /\ Exit("err")
          /\ UNCHANGED <<cr, cacheFresh, inst, wrote, faults>>
       \/ /\ cr.exists /\ Fault
          /\ Exit("err")
          /\ UNCHANGED <<cr, cacheFresh, inst, wrote>>
       \/ /\ cr.exists /\ fresh
          /\ cr' = [cr EXCEPT !.fin = FALSE, !.exists = ~cr.deleting]
          /\ inst' = cr'
          /\ cacheFresh' = FALSE
          /\ wrote' = TRUE
          /\ Exit("ok")
          /\ UNCHANGED faults
    /\ UNCHANGED <<cache, secret, parentCMs, ownCM, services, ksvc, depl,
                   queued, retry, before, fresh, cmVars, inputHash, idx,
                   envSteps>>


-----------------------------------------------------------------------------
(* reconcileNormal (lines 592-715).                                        *)

\* AddFinalizer and the immediate r.Update (lines 595-600).  The update
\* carries the resourceVersion the pass read: a stale copy gets Conflict.
AddFinalizer ==
    /\ pc = "AddFinalizer"
    /\ \/ /\ ~cr.exists \/ ~fresh          \* NotFound or Conflict
          /\ Exit("err")
          /\ UNCHANGED <<cr, cacheFresh, inst, wrote, faults>>
       \/ /\ Fault
          /\ Exit("err")
          /\ UNCHANGED <<cr, cacheFresh, inst, wrote>>
       \/ /\ cr.exists /\ fresh
          /\ cr' = [cr EXCEPT !.fin = TRUE]
          /\ inst' = cr'
          /\ cacheFresh' = (cacheFresh /\ cr.fin)
          /\ wrote' = (wrote \/ ~cr.fin)
          /\ pc' = "GetSecret"
          /\ UNCHANGED <<res, faults>>
    /\ UNCHANGED <<cache, secret, parentCMs, ownCM, services, ksvc, depl,
                   queued, retry, before, fresh, cmVars, inputHash, idx,
                   envSteps>>

\* secret.GetSecret of Spec.Secret (lines 605-616).
GetSecret ==
    /\ pc = "GetSecret"
    /\ \/ /\ secret = Absent               \* RequeueAfter 10s with an error
          /\ Exit("errAfter")
          /\ UNCHANGED <<cmVars, faults>>
       \/ /\ Fault
          /\ Exit("err")
          /\ UNCHANGED cmVars
       \/ /\ secret # Absent
          /\ cmVars' = [cmVars EXCEPT !.secret = secret]
          /\ pc' = "EnsureConfigMaps"
          /\ UNCHANGED <<res, faults>>
    /\ UNCHANGED <<worldVars, inst, before, fresh, wrote, inputHash, idx,
                   envSteps>>

\* generateServiceConfigMaps (lines 622-628, 741-783): create or patch
\* <name>-config-data from the custom config.  EnsureConfigMaps adds the
\* map's hash to configMapVars only when it succeeds; its error is dropped
\* (line 778-779) and the pipeline goes on.
GenerateServiceConfigMaps ==
    /\ pc = "EnsureConfigMaps"
    /\ \/ /\ Fault
          /\ UNCHANGED <<ownCM, cmVars>>
       \/ /\ ownCM' = inst.spec
          /\ cmVars' = [cmVars EXCEPT !.cfg = inst.spec]
          /\ UNCHANGED faults
    /\ pc' = "GetParentConfigMaps"
    /\ UNCHANGED <<cr, cache, cacheFresh, secret, parentCMs, services, ksvc,
                   depl, queued, inst, before, fresh, wrote, inputHash, idx,
                   res, envSteps, retry>>

\* configmap.GetConfigMaps of the parent's two maps (lines 635-648).
GetParentConfigMaps ==
    /\ pc = "GetParentConfigMaps"
    /\ \/ /\ ~parentCMs                    \* RequeueAfter 10s with an error
          /\ Exit("errAfter")
          /\ UNCHANGED faults
       \/ /\ Fault
          /\ Exit("err")
       \/ /\ parentCMs
          /\ pc' = "InputHash"
          /\ UNCHANGED <<res, faults>>
    /\ UNCHANGED <<worldVars, inst, before, fresh, wrote, cmVars, inputHash,
                   idx, envSteps>>

\* createHashOfInputHashes (lines 656-659, 789-807): hash configMapVars; if
\* Status.Hash changes, set it in memory and r.Client.Status().Update.
CreateHashOfInputHashes ==
    LET h     == [secret |-> cmVars.secret, cfg |-> cmVars.cfg]
        instH == [inst EXCEPT !.status.hash = h]
    IN
    /\ pc = "InputHash"
    /\ inputHash' = h
    /\ \/ /\ inst.status.hash = h
          /\ pc' = "ExposeEndpoints"
          /\ idx' = 1
          /\ UNCHANGED <<cr, cacheFresh, inst, wrote, res, faults>>
       \/ /\ inst.status.hash # h
          /\ \/ /\ ~cr.exists \/ ~fresh    \* NotFound or Conflict
                /\ inst' = instH
                /\ Exit("err")
                /\ UNCHANGED <<cr, cacheFresh, wrote, idx, faults>>
             \/ /\ Fault
                /\ inst' = instH
                /\ Exit("err")
                /\ UNCHANGED <<cr, cacheFresh, wrote, idx>>
             \/ /\ cr.exists /\ fresh
                /\ cr' = [cr EXCEPT !.status = instH.status]
                /\ inst' = cr'
                /\ cacheFresh' = FALSE
                /\ wrote' = TRUE
                /\ pc' = "ExposeEndpoints"
                /\ idx' = 1
                /\ UNCHANGED <<res, faults>>
    /\ UNCHANGED <<cache, secret, parentCMs, ownCM, services, ksvc, depl,
                   queued, before, fresh, cmVars, envSteps, retry>>

-----------------------------------------------------------------------------
(* reconcileInit (lines 454-590).                                          *)

\* endpoint.ExposeEndpoints for V2 then V3 (lines 466-545): create the
\* Services/Routes and record the facade's URLs in Status.APIEndpoints.
ExposeEndpoints ==
    /\ pc = "ExposeEndpoints"
    /\ \/ /\ Fault                         \* an error, or a pending result
          /\ \E r \in {"err", "requeue"} : Exit(r)
          /\ UNCHANGED <<services, queued, inst, idx>>
       \/ /\ services' = TRUE
          /\ queued' = (queued \/ ~services)
          /\ inst' = [inst EXCEPT !.status.eps = @ \cup {Facade[idx]}]
          /\ IF idx < NFacades
               THEN idx' = idx + 1 /\ UNCHANGED <<pc, res>>
               ELSE pc' = "InitGetSecret" /\ idx' = 1 /\ UNCHANGED res
          /\ UNCHANGED faults
    /\ UNCHANGED <<cr, cache, cacheFresh, secret, parentCMs, ownCM, ksvc, depl,
                   before, fresh, wrote, cmVars, inputHash, envSteps, retry>>

\* secret.GetSecret again before registering (lines 553-563).
InitGetSecret ==
    /\ pc = "InitGetSecret"
    /\ \/ /\ secret = Absent               \* RequeueAfter 10s with an error
          /\ Exit("errAfter")
          /\ UNCHANGED faults
       \/ /\ Fault
          /\ Exit("err")
       \/ /\ secret # Absent
          /\ pc' = "KeystoneService"
          /\ UNCHANGED <<res, faults>>
    /\ UNCHANGED <<worldVars, inst, before, fresh, wrote, cmVars, inputHash,
                   idx, envSteps>>

\* Mutant: line 710 is missing; ReadyCount is never copied to the status.
DeploymentCreateOrPatchWithoutReadyCount ==
    LET d == [exists |-> TRUE, hash |-> inputHash,
              ready  |-> IF depl.exists THEN depl.ready ELSE 0]
    IN
    /\ pc = "Deployment"
    /\ \/ /\ Fault
          /\ \E r \in {"err", "requeue"} : Exit(r)
          /\ UNCHANGED <<depl, queued>>
       \/ /\ depl' = d
          /\ queued' = (queued \/ d # depl)
          /\ Exit("ok")
          /\ UNCHANGED faults
    /\ UNCHANGED <<cr, cache, cacheFresh, secret, parentCMs, ownCM, services,
                   ksvc, inst, before, fresh, wrote, cmVars, inputHash, idx,
                   envSteps, retry>>

\* Mutant: the keystoneServices loop bound is off by one.
KeystoneCreateOrPatchOffByOne ==
    LET f  == Facade[idx]
        ks == IF ksvc[f] = "absent" THEN "created" ELSE ksvc[f]
    IN
    /\ pc = "KeystoneService"
    /\ \/ /\ Fault
          /\ Exit("err")
          /\ UNCHANGED <<ksvc, queued, inst, idx>>
       \/ /\ ksvc' = [ksvc EXCEPT ![f] = ks]
          /\ queued' = (queued \/ ksvc[f] = "absent")
          /\ IF ks = "ready"
               THEN /\ inst' = [inst EXCEPT !.status.ids = @ \cup {f}]
                    /\ IF idx <= NFacades
                         THEN idx' = idx + 1 /\ UNCHANGED <<pc, res>>
                         ELSE pc' = "Deployment" /\ UNCHANGED <<idx, res>>
               ELSE Exit("requeue") /\ UNCHANGED <<inst, idx>>
          /\ UNCHANGED faults
    /\ UNCHANGED <<cr, cache, cacheFresh, secret, parentCMs, ownCM, services,
                   depl, retry, before, fresh, wrote, cmVars, inputHash,
                   envSteps>>

\* KeystoneService CreateOrPatch for V2 then V3 (lines 565-586).  The
\* helper requeues until the keystone-operator has registered the service;
\* then its id is recorded in Status.ServiceIDs.
KeystoneCreateOrPatch ==
    LET f  == Facade[idx]
        ks == IF ksvc[f] = "absent" THEN "created" ELSE ksvc[f]
    IN
    /\ pc = "KeystoneService"
    /\ \/ /\ Fault
          /\ Exit("err")
          /\ UNCHANGED <<ksvc, queued, inst, idx>>
       \/ /\ ksvc' = [ksvc EXCEPT ![f] = ks]
          /\ queued' = (queued \/ ksvc[f] = "absent")
          /\ IF ks = "ready"
               THEN /\ inst' = [inst EXCEPT !.status.ids = @ \cup {f}]
                    /\ IF idx < NFacades
                         THEN idx' = idx + 1 /\ UNCHANGED <<pc, res>>
                         ELSE pc' = "Deployment" /\ UNCHANGED <<idx, res>>
               ELSE Exit("requeue") /\ UNCHANGED <<inst, idx>>
          /\ UNCHANGED faults
    /\ UNCHANGED <<cr, cache, cacheFresh, secret, parentCMs, ownCM, services,
                   depl, retry, before, fresh, wrote, cmVars, inputHash,
                   envSteps>>

\* reconcileUpdate and reconcileUpgrade return an empty result (lines
\* 678-692, 717-735); then the Deployment built with the input hash is
\* created or patched and its ready count copied to the status (698-714).
DeploymentCreateOrPatch ==
    LET d == [exists |-> TRUE, hash |-> inputHash,
              ready  |-> IF depl.exists THEN depl.ready ELSE 0]
    IN
    /\ pc = "Deployment"
    /\ \/ /\ Fault
          /\ \E r \in {"err", "requeue"} : Exit(r)
          /\ UNCHANGED <<depl, queued, inst>>
       \/ /\ depl' = d
          /\ queued' = (queued \/ d # depl)
          /\ inst' = [inst EXCEPT !.status.ready = d.ready]
          /\ Exit("ok")
          /\ UNCHANGED faults
    /\ UNCHANGED <<cr, cache, cacheFresh, secret, parentCMs, ownCM, services,
                   ksvc, before, fresh, wrote, cmVars, inputHash, idx,
                   envSteps, retry>>

\* The deferred function of Reconcile (lines 343-356): if the status
\* differs from the snapshot, merge-patch it.  NotFound is ignored, any
\* other error only logged.  The patch carries the resourceVersion when the
\* pass has updated the object, so it then fails on a newer version.  The
\* work queue requeues the request unless the pass returned success.
PatchStatus ==
    /\ pc = "PatchStatus"
    /\ pc' = "Idle"
    /\ queued' = (queued \/ res # "ok")
    /\ retry' = WorkQueueRetry(res)
    /\ \/ /\ \/ inst.status = before       \* nothing changed
             \/ ~cr.exists                 \* NotFound
             \/ wrote /\ ~fresh            \* Conflict, logged
          /\ UNCHANGED <<cr, cacheFresh, faults>>
       \/ /\ inst.status # before /\ cr.exists
          /\ Fault                         \* other error, logged
          /\ UNCHANGED <<cr, cacheFresh>>
       \/ /\ inst.status # before /\ cr.exists /\ ~(wrote /\ ~fresh)
          /\ cr' = [cr EXCEPT !.status =
                       MergeStatus(cr.status, before, inst.status)]
          /\ cacheFresh' = (cacheFresh /\ cr' = cr)
          /\ UNCHANGED faults
    /\ UNCHANGED <<cache, secret, parentCMs, ownCM, services, ksvc, depl,
                   inst, before, fresh, wrote, cmVars, inputHash, idx, res,
                   envSteps>>

-----------------------------------------------------------------------------
(* The environment: users, the informer, the keystone-operator, the       *)
(* garbage collector and the periodic resync.                             *)

EnvStep == envSteps < MaxEnvSteps /\ envSteps' = envSteps + 1

\* The informer applies the latest version and the For(&CinderAPI{}) watch
\* (line 406) enqueues the object.
InformerSync ==
    /\ ~cacheFresh
    /\ cache' = cr
    /\ cacheFresh' = TRUE
    /\ queued' = TRUE
    /\ UNCHANGED <<cr, secret, parentCMs, ownCM, services, ksvc, depl,
                   passVars, envSteps, faults, retry>>

\* A user edits Spec.CustomServiceConfig.
UserEditSpec ==
    /\ EnvStep
    /\ cr.exists
    /\ \E v \in CfgVals \ {cr.spec} : cr' = [cr EXCEPT !.spec = v]
    /\ cacheFresh' = FALSE
    /\ fresh' = FALSE
    /\ UNCHANGED <<cache, secret, parentCMs, ownCM, services, ksvc, depl,
                   queued, pc, inst, before, wrote, cmVars, inputHash, idx,
                   res, faults, retry>>

\* A user deletes the object: with a finalizer it is only marked.
UserDelete ==
    /\ EnvStep
    /\ cr.exists /\ ~cr.deleting
    /\ cr' = [cr EXCEPT !.deleting = TRUE, !.exists = cr.fin]
    /\ cacheFresh' = FALSE
    /\ fresh' = FALSE
    /\ UNCHANGED <<cache, secret, parentCMs, ownCM, services, ksvc, depl,
                   queued, pc, inst, before, wrote, cmVars, inputHash, idx,
                   res, faults, retry>>

\* A user creates, rotates or deletes the OpenStack secret.  Nothing
\* watches it: SetupWithManager (lines 405-415) only watches owned Secrets.
SecretChange ==
    /\ EnvStep
    /\ \E v \in (SecretVals \cup {Absent}) \ {secret} : secret' = v
    /\ UNCHANGED <<cr, cache, cacheFresh, parentCMs, ownCM, services, ksvc,
                   depl, queued, passVars, faults, retry>>

\* The parent Cinder controller creates or removes its config maps; the
\* ConfigMap watch maps them to this object by owner label (configMapFn,
\* lines 370-403, listing the CinderAPIs from the cache).  When the List
\* fails the map function returns nil (lines 378-380): the event is lost.
ParentConfigMapChange ==
    /\ EnvStep
    /\ parentCMs' = ~parentCMs
    /\ \/ /\ Fault
          /\ UNCHANGED queued
       \/ /\ queued' = (queued \/ cache.exists)
          /\ UNCHANGED faults
    /\ UNCHANGED <<cr, cache, cacheFresh, secret, ownCM, services, ksvc, depl,
                   passVars, retry>>

\* Pods of the Deployment become ready or unready; Owns(Deployment) enqueues.
DeploymentReadyChange ==
    /\ EnvStep
    /\ depl.exists
    /\ depl' = [depl EXCEPT !.ready = 1 - @]
    /\ queued' = TRUE
    /\ UNCHANGED <<cr, cache, cacheFresh, secret, parentCMs, ownCM, services,
                   ksvc, passVars, faults, retry>>

\* The keystone-operator registers a created KeystoneService, or finishes
\* deregistering a deleted one; Owns(KeystoneService) enqueues.
KeystoneRegister(f) ==
    /\ ksvc[f] = "created"
    /\ ksvc' = [ksvc EXCEPT ![f] = "ready"]
    /\ queued' = TRUE
    /\ UNCHANGED <<cr, cache, cacheFresh, secret, parentCMs, ownCM, services,
                   depl, passVars, envSteps, faults, retry>>

KeystoneDeregister(f) ==
    /\ ksvc[f] = "deleting"
    /\ ksvc' = [ksvc EXCEPT ![f] = "absent"]
    /\ queued' = TRUE
    /\ UNCHANGED <<cr, cache, cacheFresh, secret, parentCMs, ownCM, services,
                   depl, passVars, envSteps, faults, retry>>

\* Owner references: once the object is gone its owned objects are deleted.
GarbageCollect ==
    /\ ~cr.exists
    /\ \/ depl.exists \/ services \/ ownCM # Absent
       \/ \E f \in Facades : ksvc[f] \in {"created", "ready"}
    /\ depl' = [exists |-> FALSE, hash |-> NoHash, ready |-> 0]
    /\ services' = FALSE
    /\ ownCM' = Absent
    /\ ksvc' = [f \in Facades |->
                  IF ksvc[f] \in {"created", "ready"} THEN "deleting"
                                                       ELSE ksvc[f]]
    /\ UNCHANGED <<cr, cache, cacheFresh, secret, parentCMs, queued,
                   passVars, envSteps, faults, retry>>

\* The informer's periodic resync (manager SyncPeriod) re-enqueues the object.
Resync ==
    /\ cache.exists /\ ~queued
    /\ queued' = TRUE
    /\ UNCHANGED <<cr, cache, cacheFresh, secret, parentCMs, ownCM, services,
                   ksvc, depl, passVars, envSteps, faults, retry>>

-----------------------------------------------------------------------------
ControllerStep ==
    \/ Reconcile
    \/ DeleteKeystoneService \/ RemoveFinalizer
    \/ AddFinalizer \/ GetSecret \/ GenerateServiceConfigMaps
    \/ GetParentConfigMaps \/ CreateHashOfInputHashes
    \/ ExposeEndpoints \/ InitGetSecret \/ KeystoneCreateOrPatch
    \/ DeploymentCreateOrPatch
    \/ PatchStatus

Environment ==
    \/ InformerSync \/ UserEditSpec \/ UserDelete \/ SecretChange
    \/ ParentConfigMapChange \/ DeploymentReadyChange
    \/ \E f \in Facades : KeystoneRegister(f) \/ KeystoneDeregister(f)
    \/ GarbageCollect \/ Resync

Next == ControllerStep \/ Environment

\* The work queue runs every queued pass to its end; the informer, the
\* keystone-operator and the garbage collector keep working.  Users are
\* not fair.
ClusterFairness ==
    /\ WF_vars(ControllerStep)
    /\ WF_vars(InformerSync)
    /\ \A f \in Facades : WF_vars(KeystoneRegister(f))
                          /\ WF_vars(KeystoneDeregister(f))
    /\ WF_vars(GarbageCollect)

Spec == Init /\ [][Next]_vars /\ ClusterFairness /\ WF_vars(Resync)

\* The same system if the informer never resyncs.
SpecNoResync == Init /\ [][Next]_vars /\ ClusterFairness

-----------------------------------------------------------------------------
(* The refinement mapping to the finalizer protocol: the object's flags   *)
(* are the stored ones, and a facade is registered while its              *)
(* KeystoneService is created or ready (a deleted one is being            *)
(* deregistered by the keystone-operator and no longer counts).           *)

LiveServices == {f \in Facades : ksvc[f] \in {"created", "ready"}}

Protocol == INSTANCE CinderAPIFinalizerProtocol
                WITH Services <- Facades, exists <- cr.exists,
                     deleting <- cr.deleting, fin <- cr.fin,
                     live <- LiveServices

-----------------------------------------------------------------------------
(* Properties                                                              *)

TypeOK ==
    /\ cr \in CR
    /\ cache \in CR
    /\ cacheFresh \in BOOLEAN
    /\ secret \in SecretVals \cup {Absent}
    /\ parentCMs \in BOOLEAN
    /\ ownCM \in CfgVals \cup {Absent}
    /\ services \in BOOLEAN
    /\ ksvc \in [Facades -> KsStates]
    /\ depl \in Deployments
    /\ queued \in BOOLEAN
    /\ retry \in RetryModes
    /\ pc \in PCs
    /\ inst \in CR
    /\ before \in Status
    /\ fresh \in BOOLEAN
    /\ wrote \in BOOLEAN
    /\ cmVars \in [secret : SecretVals \cup {Absent}, cfg : CfgVals \cup {NoCfg}]
    /\ inputHash \in InputHashes \cup {NoHash}
    /\ idx \in 1..NFacades
    /\ res \in Results
    /\ envSteps \in 0..MaxEnvSteps
    /\ faults \in 0..MaxFaults

\* The finalizer added at line 596 exists "to avoid orphaning resources on
\* delete": once the CinderAPI is gone from the API server, no
\* KeystoneService it created is still live (each is absent or being
\* deregistered by the keystone-operator), whatever interleaving of
\* passes, stale cache reads, failed calls and user deletes led there.
NoOrphanKeystoneService ==
    ~cr.exists => \A f \in Facades : ksvc[f] \in {"absent", "deleting"}

\* A delete request is eventually carried out: reconcileDelete retries
\* through failures and conflicts until the finalizer is gone.
DeletionCompletes == (cr.exists /\ cr.deleting) ~> ~cr.exists

\* The inputs are usable and the object is not being deleted.
Settled == cr.exists /\ ~cr.deleting /\ secret # Absent /\ parentCMs

\* Everything the normal pass produces reflects the current inputs.
InSync ==
    /\ depl.exists /\ depl.hash = CurrentHash
    /\ ownCM = cr.spec
    /\ \A f \in Facades : ksvc[f] = "ready"
    /\ cr.status.eps = Facades /\ cr.status.ids = Facades
    /\ cr.status.ready = depl.ready

\* Level-triggered convergence: once users stop changing things, the
\* Deployment's CONFIG_HASH, the registrations and the status eventually
\* match the inputs and stay so (lines 652-654: the hash is there "to
\* identify if any those changed and a restart/recreate is required").
Converges == <>[](Settled => InSync)

\* The reconciler with its cluster implements the finalizer protocol: every
\* step of a pass, of a user or of the cluster is a protocol step or leaves
\* the object's flags and the registrations alone (a registration only under
\* the stored finalizer, a deregistration only of an object marked for
\* deletion, the finalizer released only with nothing registered), and the
\* delete path's retries carry every deregistration and the finalizer's
\* removal through.
FinalizerProtocolRefined == Protocol!Spec

\* The safety half of the refinement, for instances too large for the
\* liveness check: no step of a pass, a user or the cluster registers a
\* KeystoneService without the stored finalizer, deregisters one of an
\* object not marked for deletion, or releases the finalizer while a
\* registration is live.
FinalizerProtocolSafety == Protocol!SafetySpec

\* Spec section 4.4 step 3 and 9 take the swallowed EnsureConfigMaps error
\* for a soft failure.  Stated as the comment of lines 652-654 needs it:
\* a Deployment is only ever rolled out with an input hash that covers the
\* service's own config map <name>-config-data.
DeploymentHashCoversConfig == depl.exists => depl.hash.cfg # NoCfg

\* Spec section 8: "Deleting a resource whose status has no recorded
\* endpoint data completes deregistration without attempting any
\* identity-service calls": reconcileDelete reaches the KeystoneService
\* delete calls only when Status.APIEndpoints records some endpoint.
DeleteCallsNeedEndpoints ==
    pc = "DeleteKeystoneService" => inst.status.eps # {}

\* Spec section 5 (and section 4.4 steps 2 and 4): a missing OpenStack
\* secret or missing parent config maps yield a delayed retry of exactly 10
\* seconds.  Stated as an action property of the pass's end: a pass that
\* takes the not-found return of line 556, 611 or 645 is re-added to the
\* work queue after its RequeueAfter delay, not with the error backoff.
MissingDependencyRetriesAfterDelay ==
    [][pc = "PatchStatus" /\ res = "errAfter" => retry' = "after"]_vars

=============================================================================
