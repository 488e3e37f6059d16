SPECIFICATION Spec
INVARIANTS TypeOK VolumesMatchReference
