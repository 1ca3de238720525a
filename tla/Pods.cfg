\* Resources that differ in a field or in the names around, amounts of memory and
\* names of secrets that may not fit together, two changes between runs.
SPECIFICATION Spec
CONSTANTS
  Operands = {"dm", "reader", "sender", "ui", "mcmui", "report"}
  Specs <- AllSpecs
  Tags = {"", "3.7.2"}
  Shas = {"sha256"}
  MaxChanges = 2
INVARIANTS
  AsAsked
  RefusedForCause
  ChecksTheNamed
  WaitsForWhatItUses
