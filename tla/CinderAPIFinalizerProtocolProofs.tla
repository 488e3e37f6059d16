----------------- MODULE CinderAPIFinalizerProtocolProofs ------------------
(***************************************************************************)
(* The finalizer protocol keeps its registrations protected.               *)
(***************************************************************************)
EXTENDS CinderAPIFinalizerProtocol, TLAPS

\* Protected is inductive together with the types: a registration needs
\* the stored finalizer, the finalizer goes only with nothing registered,
\* and a deletion keeps an object that holds the finalizer.
PInv == TypeOK /\ Protected

\* Every protocol step keeps the invariant.
LEMMA PInvStep == PInv /\ [Next]_avars => PInv'
<1> SUFFICES ASSUME PInv, [Next]_avars PROVE PInv'
  OBVIOUS
<1>1. CASE AddFinalizer
  BY <1>1 DEF AddFinalizer, PInv, TypeOK, Protected
<1>2. CASE RemoveFinalizer
  BY <1>2 DEF RemoveFinalizer, PInv, TypeOK, Protected
<1>3. CASE Delete
  BY <1>3 DEF Delete, PInv, TypeOK, Protected
<1>4. CASE Collect
  BY <1>4 DEF Collect, PInv, TypeOK, Protected
<1>5. ASSUME NEW f \in Services, Register(f) PROVE PInv'
  BY <1>5 DEF Register, PInv, TypeOK, Protected
<1>6. ASSUME NEW f \in Services, Deregister(f) PROVE PInv'
  BY <1>6 DEF Deregister, PInv, TypeOK, Protected
<1>7. CASE UNCHANGED avars
  BY <1>7 DEF avars, PInv, TypeOK, Protected
<1>. QED
  BY <1>1, <1>2, <1>3, <1>4, <1>5, <1>6, <1>7 DEF Next

\* Under the protocol, while any KeystoneService is registered the object
\* exists and holds the finalizer (the promise of the comment at line 597).
THEOREM ProtectedInvariant == SafetySpec => []Protected
<1>1. Init => PInv
  BY DEF Init, PInv, TypeOK, Protected
<1>2. PInv => Protected
  BY DEF PInv
<1>. QED
  BY <1>1, <1>2, PInvStep, PTL DEF SafetySpec

=============================================================================
