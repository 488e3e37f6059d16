---------------------- MODULE CinderAPIStatefulSetProofs ----------------------
(***************************************************************************)
(* Proofs about the pod builder StatefulSet: for every input, its result  *)
(* is that of the spec's description.                                      *)
(***************************************************************************)
EXTENDS CinderAPIStatefulSet, SequenceTheorems, TLAPS

-----------------------------------------------------------------------------
(* The builder's progress, stated per block: the strengthening that makes *)
(* VolumesMatchReference inductive.                                        *)

\* The base volumes and the CA bundle (lines 85-96).
BaseList(x) == <<"base">> \o (IF x.caBundle THEN <<"ca">> ELSE <<>>)

\* The list s after the loop's iteration for endpoint e (lines 99-114).
WithCert(s, x, e) == IF e \in x.tls THEN Append(s, e) ELSE s

\* The volume list after the base block and the first n loop iterations.
VolumesAfter(x, n) ==
    CASE n = 0 -> BaseList(x)
      [] n = 1 -> WithCert(BaseList(x), x, Endpoints[1])
      [] n = 2 -> WithCert(WithCert(BaseList(x), x, Endpoints[1]),
                           x, Endpoints[2])

\* The endpoint with TLS enabled and unusable certificate settings.
Failing(x) == x.tls \cap x.badCert

\* At every block of the function, the volume list is the one the blocks
\* before it build, and the result is "err" only right after a failing
\* endpoint, "ok" only when no endpoint fails.
BuildProgress ==
    /\ step = "probes" => i = 1 /\ volumes = <<>>
    /\ step \in {"probes", "volumes", "loop"} => result = "pending"
    /\ step = "volumes" => i = 1 /\ volumes = <<>>
    /\ step = "loop" =>
         /\ volumes = VolumesAfter(in, i - 1)
         /\ \A k \in 1..(i - 1) : Endpoints[k] \notin Failing(in)
    /\ step = "done" =>
         /\ result \in {"ok", "err"}
         /\ result = "err" => Endpoints[i] \in Failing(in)
         /\ result = "ok" =>
              /\ i = Len(Endpoints)
              /\ volumes = VolumesAfter(in, Len(Endpoints))
              /\ \A k \in 1..Len(Endpoints) : Endpoints[k] \notin Failing(in)

\* The types together with the block-by-block progress of the function.
BInv == TypeOK /\ BuildProgress

-----------------------------------------------------------------------------
(* The volume list of the reference, as a set and in rank order.           *)

LEMMA EndpointsFacts ==
    /\ Len(Endpoints) = 2
    /\ Endpoints[1] = "internal" /\ Endpoints[2] = "public"
    /\ EndpointSet = {Endpoints[1], Endpoints[2]}
  BY DEF Endpoints, EndpointSet

\* Literal lists of one and of two elements of S are sequences over S.
LEMMA OneSeq ==
    ASSUME NEW S, NEW a \in S
    PROVE  <<a>> \in Seq(S)
<1>1. <<a>> \in [1..1 -> S]
  OBVIOUS
<1>. QED
  BY <1>1, SeqDef

LEMMA TwoSeq ==
    ASSUME NEW S, NEW a \in S, NEW b \in S
    PROVE  <<a, b>> \in Seq(S)
<1>1. <<a, b>> \in [1..2 -> S]
  OBVIOUS
<1>. QED
  BY <1>1, SeqDef

\* The list of the whole loop holds the expected volumes, each ranked
\* below the next.
LEMMA ReferenceVolumes ==
    ASSUME NEW x \in Inputs
    PROVE  /\ VolumeSet(VolumesAfter(x, 2)) =
                {"base"} \cup (IF x.caBundle THEN {"ca"} ELSE {}) \cup x.tls
           /\ StrictlyRanked(VolumesAfter(x, 2))
<1>1. x.tls \subseteq {"internal", "public"} /\ x.caBundle \in BOOLEAN
  BY DEF Inputs, EndpointSet
<1>2. VolumesAfter(x, 2) =
        WithCert(WithCert(BaseList(x), x, "internal"), x, "public")
  BY EndpointsFacts DEF VolumesAfter
<1>3. CASE x.caBundle /\ "internal" \in x.tls /\ "public" \in x.tls
  <2>1. VolumesAfter(x, 2) = <<"base", "ca", "internal", "public">>
    BY <1>2, <1>3 DEF BaseList, WithCert
  <2>2. x.tls = {"internal", "public"}
    BY <1>1, <1>3
  <2>4. VolumeSet(VolumesAfter(x, 2)) =
          {"base"} \cup (IF x.caBundle THEN {"ca"} ELSE {}) \cup x.tls
    BY <2>1, <2>2, <1>3 DEF VolumeSet
  <2>5. StrictlyRanked(VolumesAfter(x, 2))
    BY <2>1 DEF StrictlyRanked, Rank
  <2>. QED
    BY <2>4, <2>5
<1>4. CASE x.caBundle /\ "internal" \in x.tls /\ "public" \notin x.tls
  <2>1. VolumesAfter(x, 2) = <<"base", "ca", "internal">>
    BY <1>2, <1>4 DEF BaseList, WithCert
  <2>2. x.tls = {"internal"}
    BY <1>1, <1>4
  <2>4. VolumeSet(VolumesAfter(x, 2)) =
          {"base"} \cup (IF x.caBundle THEN {"ca"} ELSE {}) \cup x.tls
    BY <2>1, <2>2, <1>4 DEF VolumeSet
  <2>5. StrictlyRanked(VolumesAfter(x, 2))
    BY <2>1 DEF StrictlyRanked, Rank
  <2>. QED
    BY <2>4, <2>5
<1>5. CASE x.caBundle /\ "internal" \notin x.tls /\ "public" \in x.tls
  <2>1. VolumesAfter(x, 2) = <<"base", "ca", "public">>
    BY <1>2, <1>5 DEF BaseList, WithCert
  <2>2. x.tls = {"public"}
    BY <1>1, <1>5
  <2>4. VolumeSet(VolumesAfter(x, 2)) =
          {"base"} \cup (IF x.caBundle THEN {"ca"} ELSE {}) \cup x.tls
    BY <2>1, <2>2, <1>5 DEF VolumeSet
  <2>5. StrictlyRanked(VolumesAfter(x, 2))
    BY <2>1 DEF StrictlyRanked, Rank
  <2>. QED
    BY <2>4, <2>5
<1>6. CASE x.caBundle /\ "internal" \notin x.tls /\ "public" \notin x.tls
  <2>1. VolumesAfter(x, 2) = <<"base", "ca">>
    BY <1>2, <1>6 DEF BaseList, WithCert
  <2>2. x.tls = {}
    BY <1>1, <1>6
  <2>4. VolumeSet(VolumesAfter(x, 2)) =
          {"base"} \cup (IF x.caBundle THEN {"ca"} ELSE {}) \cup x.tls
    BY <2>1, <2>2, <1>6 DEF VolumeSet
  <2>5. StrictlyRanked(VolumesAfter(x, 2))
    BY <2>1 DEF StrictlyRanked, Rank
  <2>. QED
    BY <2>4, <2>5
<1>7. CASE ~x.caBundle /\ "internal" \in x.tls /\ "public" \in x.tls
  <2>1. VolumesAfter(x, 2) = <<"base", "internal", "public">>
    BY <1>2, <1>7 DEF BaseList, WithCert
  <2>2. x.tls = {"internal", "public"}
    BY <1>1, <1>7
  <2>4. VolumeSet(VolumesAfter(x, 2)) =
          {"base"} \cup (IF x.caBundle THEN {"ca"} ELSE {}) \cup x.tls
    BY <2>1, <2>2, <1>7 DEF VolumeSet
  <2>5. StrictlyRanked(VolumesAfter(x, 2))
    BY <2>1 DEF StrictlyRanked, Rank
  <2>. QED
    BY <2>4, <2>5
<1>8. CASE ~x.caBundle /\ "internal" \in x.tls /\ "public" \notin x.tls
  <2>1. VolumesAfter(x, 2) = <<"base", "internal">>
    BY <1>2, <1>8 DEF BaseList, WithCert
  <2>2. x.tls = {"internal"}
    BY <1>1, <1>8
  <2>4. VolumeSet(VolumesAfter(x, 2)) =
          {"base"} \cup (IF x.caBundle THEN {"ca"} ELSE {}) \cup x.tls
    BY <2>1, <2>2, <1>8 DEF VolumeSet
  <2>5. StrictlyRanked(VolumesAfter(x, 2))
    BY <2>1 DEF StrictlyRanked, Rank
  <2>. QED
    BY <2>4, <2>5
<1>9. CASE ~x.caBundle /\ "internal" \notin x.tls /\ "public" \in x.tls
  <2>1. VolumesAfter(x, 2) = <<"base", "public">>
    BY <1>2, <1>9 DEF BaseList, WithCert
  <2>2. x.tls = {"public"}
    BY <1>1, <1>9
  <2>4. VolumeSet(VolumesAfter(x, 2)) =
          {"base"} \cup (IF x.caBundle THEN {"ca"} ELSE {}) \cup x.tls
    BY <2>1, <2>2, <1>9 DEF VolumeSet
  <2>5. StrictlyRanked(VolumesAfter(x, 2))
    BY <2>1 DEF StrictlyRanked, Rank
  <2>. QED
    BY <2>4, <2>5
<1>10. CASE ~x.caBundle /\ "internal" \notin x.tls /\ "public" \notin x.tls
  <2>1. VolumesAfter(x, 2) = <<"base">>
    BY <1>2, <1>10 DEF BaseList, WithCert
  <2>2. x.tls = {}
    BY <1>1, <1>10
  <2>4. VolumeSet(VolumesAfter(x, 2)) =
          {"base"} \cup (IF x.caBundle THEN {"ca"} ELSE {}) \cup x.tls
    BY <2>1, <2>2, <1>10 DEF VolumeSet
  <2>5. StrictlyRanked(VolumesAfter(x, 2))
    BY <2>1 DEF StrictlyRanked, Rank
  <2>. QED
    BY <2>4, <2>5
<1>. QED
  BY <1>1, <1>3, <1>4, <1>5, <1>6, <1>7, <1>8, <1>9, <1>10

-----------------------------------------------------------------------------
(* The invariant holds initially and every block keeps it.                 *)

LEMMA InitBInv == Init => BInv
<1> SUFFICES ASSUME Init PROVE BInv
  OBVIOUS
<1>1. args \in Seq({"-c", "DebugCommand", "ServiceCommand"})
  BY OneSeq DEF Init
<1>2. volumes \in Seq(VolumeNames)
  BY EmptySeq DEF Init
<1>3. i \in 1..Len(Endpoints)
  BY EndpointsFacts DEF Init
<1>4. TypeOK
  BY <1>1, <1>2, <1>3 DEF Init, TypeOK, Probes, NoProbe, Steps
<1>5. BuildProgress
  BY DEF Init, BuildProgress
<1>. QED
  BY <1>4, <1>5 DEF BInv

LEMMA BuildProbesBInv == BInv /\ BuildProbes => BInv'
<1> SUFFICES ASSUME BInv, BuildProbes PROVE BInv'
  OBVIOUS
<1>1. livenessProbe' \in Probes /\ readinessProbe' \in Probes
  <2>1. CASE in.debug
    <3>1. livenessProbe' = [kind |-> "exec", scheme |-> ""]
          /\ readinessProbe' = livenessProbe'
      BY <2>1 DEF BuildProbes, NoProbe
    <3>. QED
      BY <3>1 DEF Probes
  <2>2. CASE ~in.debug
    <3>1. /\ livenessProbe' = [kind |-> "http", scheme |->
                 IF "public" \in in.tls THEN "HTTPS" ELSE ""]
          /\ readinessProbe' = livenessProbe'
      BY <2>2 DEF BuildProbes
    <3>. QED
      BY <3>1 DEF Probes
  <2>. QED
    BY <2>1, <2>2
<1>2. args' \in Seq({"-c", "DebugCommand", "ServiceCommand"})
  <2>1. args' = Append(args, IF in.debug THEN "DebugCommand"
                                         ELSE "ServiceCommand")
    BY DEF BuildProbes
  <2>. QED
    BY <2>1, AppendProperties DEF BInv, TypeOK
<1>4. TypeOK'
  BY <1>1, <1>2 DEF BInv, TypeOK, BuildProbes, Steps
<1>5. BuildProgress'
  BY DEF BInv, BuildProgress, BuildProbes
<1>. QED
  BY <1>4, <1>5 DEF BInv

LEMMA BaseVolumesBInv == BInv /\ BaseVolumes => BInv'
<1> SUFFICES ASSUME BInv, BaseVolumes PROVE BInv'
  OBVIOUS
<1>1. volumes' = VolumesAfter(in, 0)
  BY DEF BaseVolumes, VolumesAfter, BaseList
<1>2. VolumesAfter(in, 0) \in Seq(VolumeNames)
  <2>1. "base" \in VolumeNames /\ "ca" \in VolumeNames
    BY DEF VolumeNames
  <2>. QED
    BY <2>1, OneSeq, TwoSeq DEF VolumesAfter, BaseList
<1>3. TypeOK'
  BY <1>1, <1>2 DEF BInv, TypeOK, BaseVolumes, Steps
<1>4. BuildProgress'
  BY <1>1 DEF BInv, BuildProgress, BaseVolumes
<1>. QED
  BY <1>3, <1>4 DEF BInv

\* One iteration of the loop: a failing endpoint ends the function with
\* the error; any other adds its certificate and moves on or returns "ok".
LEMMA EndpointVolumeBInv == BInv /\ EndpointVolume => BInv'
<1> SUFFICES ASSUME BInv, EndpointVolume PROVE BInv'
  OBVIOUS
<1> DEFINE e == Endpoints[i]
<1>1. /\ i \in {1, 2} /\ e \in VolumeNames
      /\ step = "loop" /\ result = "pending"
      /\ volumes = VolumesAfter(in, i - 1) /\ volumes \in Seq(VolumeNames)
      /\ \A k \in 1..(i - 1) : Endpoints[k] \notin Failing(in)
  BY EndpointsFacts DEF BInv, TypeOK, BuildProgress, EndpointVolume,
     VolumeNames
<1>2. CASE e \in in.tls /\ e \in in.badCert
  <2>1. /\ result' = "err" /\ step' = "done"
        /\ UNCHANGED <<in, i, args, livenessProbe, readinessProbe, volumes>>
    BY <1>2 DEF EndpointVolume
  <2>2. e \in Failing(in)
    BY <1>2 DEF Failing
  <2>3. TypeOK'
    BY <2>1 DEF BInv, TypeOK, Steps
  <2>4. BuildProgress'
    BY <1>1, <2>1, <2>2 DEF BInv, BuildProgress
  <2>. QED
    BY <2>3, <2>4 DEF BInv
<1>3. CASE ~(e \in in.tls /\ e \in in.badCert)
  <2>1. e \notin Failing(in)
    BY <1>3 DEF Failing
  <2>2. /\ volumes' = WithCert(volumes, in, e)
        /\ UNCHANGED <<in, args, livenessProbe, readinessProbe>>
    BY <1>3 DEF EndpointVolume, WithCert
  <2>3. volumes' \in Seq(VolumeNames)
    BY <1>1, <2>2, AppendProperties DEF WithCert
  <2>4. volumes' = VolumesAfter(in, i)
    BY <1>1, <2>2 DEF VolumesAfter
  <2>5. \A k \in 1..i : Endpoints[k] \notin Failing(in)
    BY <1>1, <2>1
  <2>8. IF i < Len(Endpoints)
          THEN i' = i + 1 /\ UNCHANGED <<step, result>>
          ELSE step' = "done" /\ result' = "ok" /\ UNCHANGED i
    BY <1>3 DEF EndpointVolume
  <2>6. CASE i = 1
    <3>1. i' = 2 /\ step' = "loop" /\ result' = "pending"
      BY <1>1, <2>6, <2>8, EndpointsFacts
    <3>2. TypeOK'
      BY <2>2, <2>3, <3>1, EndpointsFacts DEF BInv, TypeOK, Steps
    <3>3. BuildProgress'
      BY <1>1, <2>2, <2>4, <2>5, <2>6, <3>1 DEF BInv, BuildProgress
    <3>. QED
      BY <3>2, <3>3 DEF BInv
  <2>7. CASE i = 2
    <3>1. i' = 2 /\ step' = "done" /\ result' = "ok"
      BY <1>1, <2>7, <2>8, EndpointsFacts
    <3>2. TypeOK'
      BY <2>2, <2>3, <3>1, EndpointsFacts DEF BInv, TypeOK, Steps
    <3>3. BuildProgress'
      BY <1>1, <2>2, <2>4, <2>5, <2>7, <3>1, EndpointsFacts
      DEF BInv, BuildProgress
    <3>. QED
      BY <3>2, <3>3 DEF BInv
  <2>. QED
    BY <1>1, <2>6, <2>7
<1>. QED
  BY <1>2, <1>3

\* The function returned: a stutter keeps everything.
LEMMA DoneBInv == BInv /\ (Done \/ UNCHANGED vars) => BInv'
  BY DEF BInv, TypeOK, BuildProgress, VolumesAfter, BaseList,
     WithCert, Failing, Done, vars

LEMMA BInvStep == BInv /\ [Next \/ Done]_vars => BInv'
  BY BuildProbesBInv, BaseVolumesBInv, EndpointVolumeBInv, DoneBInv DEF Next

-----------------------------------------------------------------------------
(* The invariant yields the property of the result.                      *)

LEMMA BInvVolumes == BInv => VolumesMatchReference
<1> SUFFICES ASSUME BInv, step = "done" PROVE VolumesMatchReference
  BY DEF VolumesMatchReference
<1>1. /\ in \in Inputs /\ in.tls \subseteq {Endpoints[1], Endpoints[2]}
      /\ result \in {"ok", "err"}
  BY EndpointsFacts DEF BInv, TypeOK, BuildProgress, Inputs
<1>2. result = "ok" => Failing(in) = {} /\ volumes = VolumesAfter(in, 2)
  BY <1>1, EndpointsFacts DEF BInv, BuildProgress, Failing
<1>3. result = "err" => Failing(in) # {}
  BY DEF BInv, BuildProgress
<1>4. result = "ok" =>
        /\ VolumeSet(volumes) = ExpectedVolumes
        /\ StrictlyRanked(volumes)
  BY <1>1, <1>2, ReferenceVolumes DEF ExpectedVolumes
<1>. QED
  BY <1>1, <1>2, <1>3, <1>4 DEF VolumesMatchReference, Failing

-----------------------------------------------------------------------------
\* Every reachable state of the builder has the types of TypeOK and the
\* block-by-block progress of BuildProgress (lines 59-115).
LEMMA BuilderInvariant == Spec => [](TypeOK /\ BuildProgress)
<1>1. Init => BInv
  BY InitBInv
<1>. QED
  BY <1>1, BInvStep, PTL DEF Spec, BInv

\* Every reachable state of the builder is well typed: in particular the
\* loop index stays within the endpoint list it indexes (line 98).
THEOREM BuilderTypeCorrect == Spec => []TypeOK
  BY BuilderInvariant, PTL

\* For every input, StatefulSet fails iff an endpoint with TLS has bad
\* certificate settings, and otherwise returns exactly the expected
\* volumes in the spec's order (lines 85-115).
THEOREM VolumesCorrect == Spec => []VolumesMatchReference
  BY InitBInv, BInvStep, BInvVolumes, PTL DEF Spec

=============================================================================
