SPECIFICATION Spec
CONSTANTS
  Dependencies <- MCDependencies
  Parents <- MCParents
  Valuations <- MCValuations
  calc_value <- MCcalc_value
  transform <- MCtransform
  eliminate_dups <- MCeliminate_dups
  trans_bool <- MCtrans_bool
  trans_compare <- MCtrans_compare
  eliminate_eq <- MCeliminate_eq
INVARIANTS TransformKeepsValue InheritKeepsValue BooleanKeepsVisibility VisibleIsNotNo SubmenuImplied
CHECK_DEADLOCK FALSE
