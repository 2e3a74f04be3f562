SPECIFICATION Spec
CONSTANTS
  Component = Component
  Interfaces = {"types", "util", "http", "handler"}
  Types = {"fields", "hidden", "text", "handle", "code", "request", "useFields", "useCode", "status", "body"}
  Funcs = {"clone", "send", "serve"}
  Names = {"callback", "post", "types#clone", "handler#serve"}
  NoInterface = NoInterface
  NoType = NoType
  Kind <- MCKind
  Inner <- MCInner
  Home <- MCHome
  Same <- MCSame
  Root <- MCRoot
  ExportedTypes <- MCExportedTypes
  ExportedFunctions <- MCExportedFunctions
  Signature <- MCSignature
  Depth <- MCDepth
  Abis <- MCAbis
INVARIANTS
  ReferencesResolve
  ImportedOnce
  ExportsAreNamed
PROPERTIES
  Completes
\* The linker ends.
CHECK_DEADLOCK FALSE
