# Formal models of the CinderAPI controller

This directory holds TLA+ models of `src/pkg/cinderapi/statefuleset.go`, with TLC configurations that check them and TLAPS proofs about them. The file has two parts:

* the pod builder `StatefulSet` (lines 37-189);
* the CinderAPI reconciler (lines 190-807).

## 1. The system

### Parts

| Part | Code | State it touches |
|---|---|---|
| Reconcile entry | `Reconcile` 299-364 | Reads the object from the informer cache. Initialises the status maps and builds the helper, which takes a snapshot of the status. Dispatches to the delete or normal path. Defers a status merge patch. |
| Delete path | `reconcileDelete` 418-451 | Deletes the V2 and V3 KeystoneServices, then removes the finalizer with `r.Update`. |
| Normal path | `reconcileNormal` 592-715 | Runs these steps in order: add the finalizer (`r.Update`); read the OpenStack secret; `generateServiceConfigMaps`; read the two parent config maps; `createHashOfInputHashes`; `reconcileInit`; `reconcileUpdate`/`reconcileUpgrade` (no-ops, 717-735); create or patch the Deployment and copy its ready count into the status. |
| Init | `reconcileInit` 454-590 | Exposes the V2 and V3 endpoints and records their URLs in `Status.APIEndpoints`. Reads the secret again. Creates or patches the two KeystoneServices and records their ids in `Status.ServiceIDs`. |
| Config map | `generateServiceConfigMaps` 741-783 | `EnsureConfigMaps` of `<name>-config-data`. Its error is dropped (778-779). |
| Input hash | `createHashOfInputHashes` 785-807 | Hashes `configMapVars`. If the hash differs from `Status.Hash`, it sets the new hash in memory and calls `Status().Update`. |
| Watches | `SetupWithManager` 368-415 | `For(CinderAPI)`; `Owns` KeystoneService, Deployment, Secret, Route and Service; parent ConfigMaps through `configMapFn`. |
| Pod builder | `StatefulSet` 37-189 | A pure function: args, probes, volumes, and an error return. |

### How they interact

The controller-runtime work queue serialises the passes of one object, so there is only one pass at a time. Watches, failures and the periodic resync put the object back into the queue.

A pass does not run atomically. Each call to the API server or to a helper is a blocking round trip. Between two calls any of these can act:

* a user;
* the informer;
* the keystone-operator;
* the garbage collector.

Three features of the cluster make this hard:

* the Get reads a cache that may be out of date;
* `Update` and `Status().Update` carry the resourceVersion, so they conflict when their copy is stale;
* the deferred `client.MergeFrom` patch carries the resourceVersion only when the pass has already written the object. The helper's snapshot still has the old version, so the diff contains the new one.

### Correctness requirements

* The finalizer must protect the KeystoneServices. The code's comment at line 597 says it is there "to avoid orphaning resources on delete".
* Every delete must complete.
* The Deployment's input hash, the registrations and the status must converge to the inputs (comment at 652-654).
* The builder must render probes and volumes as spec section 8 describes.

## 2. Modules

| Module | Models |
|---|---|
| `CinderAPIController` | The reconciler together with its environment. |
| `MCCinderAPIController` | Instantiates the constants for TLC: two secret contents and two configs, as model values. |
| `CinderAPIControllerProofs` | TLAPS proofs about `CinderAPIController`. |
| `CinderAPIFinalizerProtocol` | The abstract specification: what the reconciler promises about its KeystoneServices, without passes, caches or failures. |
| `CinderAPIFinalizerProtocolProofs` | TLAPS proof of the protocol's invariant. |
| `CinderAPIControllerRefinement` | TLAPS proof that the controller implements the protocol. |
| `CinderAPIStatefulSet` | The pod builder. It has no constants and is checked directly. |
| `CinderAPIStatefulSetProofs` | TLAPS proofs of the builder's result and probes for every input. |

### CinderAPIController

**State.** These variables model the world:

* `cr`: the stored object. It has `exists`, `deleting`, `fin`, `spec` (the custom config) and `status`. The status has four fields:
  * the input hash;
  * the sets of facades with endpoints (`eps`);
  * the sets of facades with ids (`ids`);
  * the ready count.
* `cache` and `cacheFresh`: the informer copy of the object.
* `secret`: the OpenStack secret.
* `parentCMs`: whether the parent config maps exist.
* `ownCM`: `<name>-config-data`.
* `services`: the Services and Routes.
* `ksvc[f]`: the KeystoneService of each facade, one of absent, created, ready or deleting.
* `depl`: the Deployment.
* `queued`: whether the object has a request in the work queue.
* `retry`: how the work queue re-added the request after the last pass: not at all, after the returned RequeueAfter delay, or with its rate-limited backoff. It is set by `PatchStatus` at the end of a pass, and by `Reconcile` when the pass ends at once: a failed Get (line 313) is rate-limited, a NotFound (line 310) forgets the request.

These variables are the pass's locals:

* `pc`: the next call.
* `inst`: the in-memory instance.
* `before`: the helper's status snapshot.
* `fresh`: whether `inst` carries the stored resourceVersion.
* `wrote`: whether the pass has updated the object.
* `cmVars`: `configMapVars`.
* `inputHash`.
* `idx`: the loop index over `keystoneServices`.
* `res`: the result the pass returns: `ok`, `requeue` (a RequeueAfter without an error), `err`, or `errAfter` (RequeueAfter 10 s together with an error, the not-found returns of lines 556, 611 and 645).

**Data abstraction.**

* A hash is the record of the hashes it digests, so it has no collisions.
* A map in the status is the set of its keys. A nil map and an empty map serialise alike.

**Actions.** There is one action per call, in file order:

* `Reconcile`
* `DeleteKeystoneService` (one loop iteration)
* `RemoveFinalizer`
* `AddFinalizer`
* `GetSecret`
* `GenerateServiceConfigMaps`
* `GetParentConfigMaps`
* `CreateHashOfInputHashes`
* `ExposeEndpoints` (one facade)
* `InitGetSecret`
* `KeystoneCreateOrPatch` (one facade)
* `DeploymentCreateOrPatch`
* `PatchStatus` (the deferred function, on every exit)

Each action has the code's early returns:

* NotFound;
* Conflict when `~fresh`;
* a failed call (`Fault`, limited by `MaxFaults`);
* RequeueAfter;
* a pending result.

Every return goes through `Exit`, which leads to `PatchStatus`. `PatchStatus` also applies controller-runtime's handling of the returned pair (`WorkQueueRetry`): an error wins and the request is re-added with the rate limiter's backoff, whatever RequeueAfter says; a RequeueAfter alone is honoured; success forgets the request.

**Environment.**

* `InformerSync`: the informer catches up. The `For` watch then enqueues the object.
* `UserEditSpec` and `UserDelete`: user changes.
* `SecretChange`: the secret changes. Nothing watches it, so this does not enqueue.
* `ParentConfigMapChange`: a parent config map changes. `configMapFn` enqueues the object, unless its `List` fails (a `Fault`): then it returns nil and the event is lost (lines 378-380).
* `DeploymentReadyChange`.
* `KeystoneRegister` and `KeystoneDeregister`: the keystone-operator.
* `GarbageCollect`: the owner-reference cascade.
* `Resync`: the manager's SyncPeriod.

User and cluster changes are limited by `MaxEnvSteps`.

### CinderAPIFinalizerProtocol and the refinement

The abstract specification has four variables: `exists`, `deleting`, `fin` and `live` (the registered facades). Its actions are the effects the reconciler and its cluster have on them:

| Protocol action | Code |
|---|---|
| `AddFinalizer`: on an object not being deleted | `reconcileNormal` 595-600 |
| `Register(f)`: only while the object exists with the finalizer | `reconcileInit` 565-586 |
| `Deregister(f)`: only of an object marked for deletion | `reconcileDelete` 418-442 |
| `RemoveFinalizer`: only with nothing registered; the object goes | `reconcileDelete` 444-451 |
| `Delete`: a user delete; an object without the finalizer goes at once | user |
| `Collect`: owner-reference cascade of a removed object | garbage collector |

`Spec` adds weak fairness on `Deregister`, `RemoveFinalizer` and `Collect`.

`CinderAPIController` defines the mapping `Protocol`: the object's flags are the stored ones, and `live` is `LiveServices`, the facades whose KeystoneService is created or ready. Under it every step of a pass, a user or the cluster is a protocol step or a stutter:

* `KeystoneCreateOrPatch` of an absent service is `Register`;
* one iteration of the delete loop on a live service is `Deregister`;
* the successful finalizer updates are `AddFinalizer` and `RemoveFinalizer`;
* `UserDelete` is `Delete`;
* everything else leaves the flags and `live` alone. The keystone-operator only moves a service within live or within not live.

### CinderAPIStatefulSet

The builder's body is a sequence of steps:

* `BuildProbes` (59-83);
* `BaseVolumes` (85-96);
* one `EndpointVolume` per iteration of the endpoint loop (98-115). This includes the early `return nil, err`; after the last iteration the result is "ok", standing for the object built at 117-188, whose fields are data the model leaves out.

The inputs it branches on form a record chosen in `Init` over all combinations:

* the debug flag;
* whether a CA bundle is named;
* the endpoints with TLS;
* the endpoints whose `ToService` fails.

## 3. Runs

| Run | cfg | Expect | Shows |
|---|---|---|---|
| controller | `MCCinderAPIController.cfg` | pass | `TypeOK`, `NoOrphanKeystoneService`, `DeletionCompletes`, `Converges` and `FinalizerProtocolRefined` hold (501,846 distinct states, about 50 s). |
| controller_large | `MCCinderAPIController_large.cfg` | pass | `NoOrphanKeystoneService` and `FinalizerProtocolSafety` hold with three user or cluster changes and two failed calls (5,856,057 distinct states, about 65 s). |
| hashcfg | `MCCinderAPIController_hashcfg.cfg` | violation | `DeploymentHashCoversConfig` fails. After a swallowed `EnsureConfigMaps` error the Deployment is rolled out with a hash that omits the service config. |
| noresync | `MCCinderAPIController_noresync.cfg` | violation | `Converges` fails without the periodic resync. A rotated secret is never picked up, because nothing watches it. |
| delnoeps | `MCCinderAPIController_delnoeps.cfg` | violation | `DeleteCallsNeedEndpoints` fails. The delete path issues KeystoneService deletes although no endpoint was ever recorded: the guard at 422 is vacuous since line 326. |
| retry | `MCCinderAPIController_retry.cfg` | violation | `MissingDependencyRetriesAfterDelay` fails. A pass that takes the "secret not found" return (line 611) ends with RequeueAfter 10 s and an error; controller-runtime re-queues it with the error backoff and drops the 10 s the spec promises. |
| statefulset | `MCCinderAPIStatefulSet.cfg` | pass | `TypeOK` and `VolumesMatchReference` hold for all 64 input combinations. |

### Properties

* **`NoOrphanKeystoneService`.** Once the object is gone, no KeystoneService is created or ready. It takes several actors to break:
  * a pass that creates a service;
  * a user delete;
  * a status patch that is lost to a conflict;
  * a later delete pass.

  The mutant that skips the deletes when `eps` is empty breaks it in exactly that way.
* **`DeletionCompletes`.** A deletion eventually removes the object.
* **`Converges`.** Once users stop, the Deployment hash, the config map, the registrations and the status end up matching the inputs and stay that way.
* **`FinalizerProtocolRefined`.** Every behaviour of the controller and its cluster, mapped by `Protocol`, is a behaviour of `CinderAPIFinalizerProtocol!Spec`, fairness included. A delete loop that returns after its first KeystoneService leaves `Deregister` of the second facade enabled forever, and the property fails.
* **`FinalizerProtocolSafety`.** The safety half of `FinalizerProtocolRefined`: every step maps to a protocol step or a stutter. Checked on the large instance, where the liveness half would be too slow. The mutant that skips the deletes when `eps` is empty breaks it: the finalizer is released while a registration is live.
* **`MissingDependencyRetriesAfterDelay`** (violation run). The spec's statement that a missing secret or parent config map gives "a delayed retry of exactly 10 seconds", as an action property of the pass's end.
* **`VolumesMatchReference`.** It compares the builder's result with a description that has no control flow: failure exactly when a TLS endpoint has bad certificate settings, and otherwise a set of expected volumes together with a rank order. The probes are not given a property of their own: the only statement to make about them is the single conditional of lines 79-82, and a property restating it would hold by the shape of the action.

### Bounds

The controller run uses `MaxEnvSteps = 2` and `MaxFaults = 1`. This is enough for:

* a user delete together with one more change, such as a spec edit, a secret rotation or a parent config map change;
* one failed call at any point of the pass.

That covers every disjunct of every action. The coverage report has no action with a zero count.

The `controller_large` run raises the bounds to `MaxEnvSteps = 3` and `MaxFaults = 2` for the safety property. This reaches, for example, a failed delete and a conflicting finalizer update in one deletion, or a user delete after a spec edit and a secret rotation. With liveness the same bounds take over four minutes, so the liveness properties stay on the smaller instance.

With two facades, both loops run more than one iteration. With two secrets and two configs, "changed" is different from "unchanged".

`CHECK_DEADLOCK FALSE` is set because the system really stops: once the object is deleted and its owned objects are collected, nothing is enabled.

### Fairness

`ClusterFairness` is weak fairness on each of these:

* the controller: the work queue runs every queued request to completion;
* the informer;
* the keystone-operator, for each facade;
* the garbage collector.

`Spec` adds `WF(Resync)` for the manager's periodic resync. Users are not fair.

## 4. Proofs (`CinderAPIControllerProofs`)

Assumption used: `ConstantsAssumption` (non-empty value sets, natural bounds).

* **`TypeCorrect == Spec => []TypeOK`.**
  * `InitTypeOK` proves the initial state.
  * `NextTypeOK` proves the step. It dispatches to one lemma per action (`TypeOK<Action>`). Each such lemma proves the frame first, then one step per changed variable.
  * The record updates of the status go through the lemmas `CRStatusFields`, `CRSetStatus` and `MergeStatusType`.
* **`InductiveInvariant == Spec => []IInv`.** `IInv` is `TypeOK` together with four conjuncts:
  * `LiveProtected`: a live KeystoneService implies the object exists with the finalizer;
  * `NormalHasFinalizer`: past `AddFinalizer`, the finalizer is stored;
  * `DeleteProgress`: the delete loop has killed every facade it passed;
  * `ReadyToRemove`: at `RemoveFinalizer`, nothing is live.

  `NoOrphanKeystoneService` alone is not inductive. A state where `KeystoneCreateOrPatch` is about to run for an object without a finalizer satisfies it, but breaks it after one step. The extra conjuncts rule such states out. TLC checked `IInv` as an invariant of the controller run before the proof was written.

  The environment steps go through the lemma `IInvStable`. The normal-path steps after `AddFinalizer` go through `IInvNormal`. `Reconcile`, the delete loop, `RemoveFinalizer`, `AddFinalizer` and `PatchStatus` have proofs of their own.
* **`NoOrphan == Spec => []NoOrphanKeystoneService`.** It follows from `InductiveInvariant` by `IInvNoOrphan`.

## 4a. Proofs about the builder (`CinderAPIStatefulSetProofs`)

No assumption is needed: the module has no constants, and the theorems quantify over every input record of `Inputs`.

* **`BuilderTypeCorrect == Spec => []TypeOK`.** It rests on the lemma `BuilderInvariant == Spec => [](TypeOK /\ BuildProgress)`. `InitBInv` proves the initial state. `BuildProbesBInv`, `BaseVolumesBInv` and `EndpointVolumeBInv` prove one block each; the last splits on a failing endpoint and on the first or last iteration. `DoneBInv` covers the return.
* **`VolumesCorrect == Spec => []VolumesMatchReference`.** At the return, `BuildProgress` gives the volume list `VolumesAfter(in, 2)` and that no endpoint fails, or else a failing one. `ReferenceVolumes` then proves, by the eight cases of CA bundle and TLS per endpoint, that this list holds exactly the expected volumes in rank order.

`VolumesMatchReference` is not inductive alone: a state in the loop with a wrong partial volume list satisfies it, since it constrains only the returned state. The strengthening `BuildProgress`, defined in the proofs module, rules such states out: at each block the volume list is the one of the loop iterations done (`VolumesAfter`), `"err"` comes only right after a failing endpoint and `"ok"` only when none fails. It is proof scaffolding, not a property of the code, and TLC checked it on the statefulset instance before the proof was written. To keep the module free of `RECURSIVE` operators, the builder's module defines the set and the order of a sequence itself (`VolumeSet`, `StrictlyRanked`) instead of taking `ToSet` and `IsSorted` from SequencesExt. The sequence facts come from SequenceTheorems.

## 4b. Proofs of the refinement (`CinderAPIFinalizerProtocolProofs`, `CinderAPIControllerRefinement`)

* **`ProtectedInvariant == SafetySpec => []Protected`** in the protocol. `Protected` (a registration implies an existing object with the finalizer) is inductive together with the types.
* **`Refinement == Spec => FinalizerProtocolSafety`**, that is `Spec => Protocol!SafetySpec`; the `controller_large` run checks the same formula.
  * `InitRefines`: the initial state maps to the protocol's initial state.
  * `RefineStep`: under `RInv`, every step maps to a protocol step or a stutter. There is one lemma for each action that can change the mapped state: `RefineKeystoneCreateOrPatch`, `RefineDeleteKeystoneService`, `RefineRemoveFinalizer`, `RefineAddFinalizer`, `RefineUserDelete`, `RefineGarbageCollect` and `RefineKeystoneOperator`. The other actions stutter by `AbsStutter`.
  * `RInv` is `IInv` together with `DeleteMarked`, which states three things:
    * the cache never shows a deletion mark the store lacks;
    * the delete path runs only for a marked object;
    * a stored, marked object holds the finalizer.

    `IInv` alone is not enough. The protocol's `Deregister` needs the mark, and its `AddFinalizer` needs an unmarked object. `DeleteMarkedStep` proves `DeleteMarked` is preserved, and TLC checked it as an invariant of the controller run first.
* **`ProtectedByFinalizer == Spec => []Protocol!Protected`.** It carries the protocol's theorem to the code through the refinement, using the instance `ProtocolProofs` of the protocol's proof module. `ProtocolSame` shows that both instances denote the same formulas.

The refinement proof covers the safety part. The protocol's fairness is implied by the code only under the cluster's fairness, and that is checked by TLC (`FinalizerProtocolRefined`).

### Left to TLC

* The liveness properties (`DeletionCompletes`, `Converges`), because TLAPS does not handle fairness or ENABLED.
* The refinement's fairness part.
* Everything on the two violation runs.

## 5. Not modelled

* `Status.Conditions`. It is initialised but never populated here.
* `NewHelper` errors. They are folded into the Get fault.
* The label match of `configMapFn`. The model has one object and abstracts the match to "the parent config maps belong to this object". A failed `List` is modelled.
* The contents of the parent config maps. Only whether they exist is modelled.
* Services and Routes, modelled as one boolean.
* Retry delays as durations. The model records how a request is re-added (`retry`), not when.
* Names, images, environment and resources of the pod.
* The accessors `GetClient`, `GetKClient`, `GetLogger` and `GetScheme`.

## 6. Plan

* **Idempotence (spec section 8).** A second pass with unchanged inputs makes no writes. This needs a write counter per pass.
* **`configMapFn` as a pure operator.** The label filter, checked against a reference over small object sets.
* **More proofs.**
  * The `DeleteProgress` argument restated for N facades.
