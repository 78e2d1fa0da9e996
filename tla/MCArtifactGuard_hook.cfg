CONSTANTS
  Weight = {"q.gguf"}
  TopCache = {}
  SubCache = {"a/models/c"}
  Plain = {"p.txt"}
  Quoted = {"q.gguf"}
  MaxEdits = 5
SPECIFICATION Spec
INVARIANTS
  TypeOK
  RefusalsAreDeserved
  AuditIsExact
PROPERTY ArtifactsEnterByKnownGaps
CHECK_DEADLOCK FALSE
