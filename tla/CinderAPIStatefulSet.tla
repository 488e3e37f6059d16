------------------------- MODULE CinderAPIStatefulSet -------------------------
(***************************************************************************)
(* The pod builder StatefulSet (src/pkg/cinderapi/statefuleset.go, lines  *)
(* 37-189).  It is a pure function; its body is modelled as the sequence  *)
(* of its statements, one step per block, so that the early return inside *)
(* the endpoint loop and the order in which volumes are appended are      *)
(* explicit.  Every input the function branches on is a field of the      *)
(* record `in`, chosen in Init over all combinations:                     *)
(*   debug     Spec.Debug.Service                                          *)
(*   caBundle  Spec.TLS.CaBundleSecretName # ""                            *)
(*   tls       the endpoints e with Spec.TLS.API.Enabled(e)                *)
(*   badCert   the endpoints whose GenericService.ToService() fails        *)
(* Names, images, resources and the environment are copied from the spec  *)
(* without a branch and are left out.                                      *)
(***************************************************************************)
EXTENDS Naturals, Sequences

\* The loop of line 98 runs over these endpoints in this order.
Endpoints == <<"internal", "public">>
EndpointSet == {"internal", "public"}

Inputs == [debug : BOOLEAN, caBundle : BOOLEAN,
           tls : SUBSET EndpointSet, badCert : SUBSET EndpointSet]

\* A probe: its handler (Exec /bin/true or HTTPGet /healthcheck on
\* CinderPublicPort) and, for HTTPGet, the URI scheme ("" is the default).
Probes == [kind : {"none", "exec", "http"}, scheme : {"", "HTTPS"}]
NoProbe == [kind |-> "none", scheme |-> ""]

\* Volumes are named by what they carry: the base volumes of GetVolumes,
\* the CA bundle, and the TLS material of an endpoint.
VolumeNames == {"base", "ca"} \cup EndpointSet

Steps == {"probes", "volumes", "loop", "done"}

VARIABLES
    in,              \* the inputs of this call
    step,            \* next block of the function
    i,               \* index of the endpoint loop
    args,            \* args of the service container
    livenessProbe,
    readinessProbe,
    volumes,         \* volumes (volumeMounts are appended in lockstep)
    result           \* "pending", or what the function returns

vars == <<in, step, i, args, livenessProbe, readinessProbe, volumes, result>>

-----------------------------------------------------------------------------
Init ==
    /\ in \in Inputs
    /\ step = "probes"
    /\ i = 1
    /\ args = <<"-c">>
    /\ livenessProbe = NoProbe
    /\ readinessProbe = NoProbe
    /\ volumes = <<>>
    /\ result = "pending"

\* Lines 59-83: debug mode keeps the container alive and both probes run
\* /bin/true; otherwise the service runs and both probes share one HTTPGet
\* handler, whose scheme is HTTPS when the public endpoint has TLS.
BuildProbes ==
    LET http == [kind |-> "http",
                 scheme |-> IF "public" \in in.tls THEN "HTTPS" ELSE ""]
    IN
    /\ step = "probes"
    /\ IF in.debug
         THEN /\ args' = Append(args, "DebugCommand")
              /\ livenessProbe' = [NoProbe EXCEPT !.kind = "exec"]
              /\ readinessProbe' = livenessProbe'
         ELSE /\ args' = Append(args, "ServiceCommand")
              /\ livenessProbe' = http
              /\ readinessProbe' = livenessProbe'
    /\ step' = "volumes"
    /\ UNCHANGED <<in, i, volumes, result>>

\* Lines 85-96: the base volumes, then the CA bundle if one is named.
BaseVolumes ==
    /\ step = "volumes"
    /\ volumes' = <<"base">> \o (IF in.caBundle THEN <<"ca">> ELSE <<>>)
    /\ step' = "loop"
    /\ UNCHANGED <<in, i, args, livenessProbe, readinessProbe, result>>

\* Mutant: the endpoint loop runs public before internal.
EndpointVolumeReversed ==
    LET e == Endpoints[Len(Endpoints) + 1 - i] IN
    /\ step = "loop"
    /\ IF e \in in.tls /\ e \in in.badCert
         THEN result' = "err" /\ step' = "done" /\ UNCHANGED <<i, volumes>>
         ELSE /\ volumes' = IF e \in in.tls THEN Append(volumes, e)
                                            ELSE volumes
              /\ IF i < Len(Endpoints)
                   THEN i' = i + 1 /\ UNCHANGED <<step, result>>
                   ELSE step' = "done" /\ result' = "ok" /\ UNCHANGED i
    /\ UNCHANGED <<in, args, livenessProbe, readinessProbe>>

\* Mutant: the loop bound is off by one.
EndpointVolumeOffByOne ==
    LET e == Endpoints[i] IN
    /\ step = "loop"
    /\ IF e \in in.tls /\ e \in in.badCert
         THEN result' = "err" /\ step' = "done" /\ UNCHANGED <<i, volumes>>
         ELSE /\ volumes' = IF e \in in.tls THEN Append(volumes, e)
                                            ELSE volumes
              /\ IF i <= Len(Endpoints)
                   THEN i' = i + 1 /\ UNCHANGED <<step, result>>
                   ELSE step' = "done" /\ result' = "ok" /\ UNCHANGED i
    /\ UNCHANGED <<in, args, livenessProbe, readinessProbe>>

\* One iteration of the endpoint loop (lines 98-115): an endpoint with TLS
\* gets its certificate volume; a ToService error returns nil at once.
\* After the last iteration the StatefulSet is built (lines 117-188).
EndpointVolume ==
    LET e == Endpoints[i] IN
    /\ step = "loop"
    /\ IF e \in in.tls /\ e \in in.badCert
         THEN result' = "err" /\ step' = "done" /\ UNCHANGED <<i, volumes>>
         ELSE /\ volumes' = IF e \in in.tls THEN Append(volumes, e)
                                            ELSE volumes
              /\ IF i < Len(Endpoints)
                   THEN i' = i + 1 /\ UNCHANGED <<step, result>>
                   ELSE step' = "done" /\ result' = "ok" /\ UNCHANGED i
    /\ UNCHANGED <<in, args, livenessProbe, readinessProbe>>

Next ==
    \/ BuildProbes
    \/ BaseVolumes
    \/ EndpointVolume

\* The function returns: nothing is left to do.
Done == step = "done" /\ UNCHANGED vars

Spec == Init /\ [][Next \/ Done]_vars

-----------------------------------------------------------------------------
(* Properties                                                              *)

TypeOK ==
    /\ in \in Inputs
    /\ step \in Steps
    /\ i \in 1..Len(Endpoints)
    /\ args \in Seq({"-c", "DebugCommand", "ServiceCommand"})
    /\ livenessProbe \in Probes /\ readinessProbe \in Probes
    /\ volumes \in Seq(VolumeNames)
    /\ result \in {"pending", "ok", "err"}

\* The position of each volume in the list the spec describes: base
\* mounts, then the CA bundle, then the TLS material of each endpoint.
Rank(v) == CASE v = "base" -> 0 [] v = "ca" -> 1
             [] v = "internal" -> 2 [] v = "public" -> 3

\* The set of the entries of a sequence.
VolumeSet(s) == {s[k] : k \in DOMAIN s}

\* Each entry of s ranks strictly below every later one.
StrictlyRanked(s) == \A j, k \in 1..Len(s) : j < k => Rank(s[j]) < Rank(s[k])

\* The volumes the spec says a rendered pod has, as a set.
ExpectedVolumes ==
    {"base"} \cup (IF in.caBundle THEN {"ca"} ELSE {}) \cup in.tls

\* What the builder returns, stated without its control flow: it fails iff
\* an endpoint with TLS enabled has unusable certificate settings, and on
\* success its volume list holds exactly the expected volumes, each once,
\* in the order base, CA bundle, internal, public (spec: "deterministic
\* concatenation").  Violated by a loop that skips, repeats or reorders an
\* endpoint, or that carries on after a ToService error.
VolumesMatchReference ==
    step = "done" =>
        /\ result = "err" <=> in.tls \cap in.badCert # {}
        /\ result = "ok" =>
              /\ VolumeSet(volumes) = ExpectedVolumes
              /\ StrictlyRanked(volumes)

=============================================================================
