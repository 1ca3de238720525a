\* The secret of the MongoDB user has another name.
SPECIFICATION Spec
CONSTANTS
  Operands = {"dm", "reader", "sender", "ui", "mcmui", "report"}
  Specs <- RenamedSpecs
  Tags = {""}
  Shas = {"sha256"}
  MaxChanges = 1
INVARIANTS
  NamesServed
