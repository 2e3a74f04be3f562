SPECIFICATION Spec
CONSTANTS
  Packages = {"base", "main", "tool"}
  Interfaces = {"types", "consts", "api", "handler", "inline", "local", "loose"}
  Funcs = {"open", "list", "send", "poll", "handle", "ping", "tick", "log"}
  Types = {"file", "error", "kind", "unused", "request", "body", "mode"}
  Vtables = {"files", "bytes", "nested", "done", "outer"}
  Worlds = {"client", "server", "both", "plugin", "command"}
  NoPackage = NoPackage
  NoWorld = NoWorld
  PackageOrder <- MCPackageOrder
  InterfacesOf <- MCInterfacesOf
  PackageOf <- MCPackageOf
  FunctionsOf <- MCFunctionsOf
  Owner <- MCOwner
  Payloads <- MCPayloads
  Signature <- MCSignature
  Async = {"send", "handle"}
  PostReturn = {"list", "handle", "poll", "ping"}
  StreamsFutures <- MCStreamsFutures
  Params <- MCParams
  Results <- MCResults
  Streams = {"files", "bytes", "outer"}
  Void = {"done"}
  Elements <- MCElements
  ElementVtables <- MCElementVtables
  ElementOwns <- MCElementOwns
  ImportsOf <- MCImportsOf
  ExportsOf <- MCExportsOf
  ExportsFunctions = {"command"}
  MaxRuns = 2
INVARIANTS
  TypeOK
  UniqueImports
  DefinedOnce
  CalledAreImported
  ReferencesResolve
PROPERTIES
  Finishes
\* The generator ends.
CHECK_DEADLOCK FALSE
