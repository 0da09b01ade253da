SPECIFICATION Spec
CONSTANT Half = 8
INVARIANTS TypeOK CmpDecides AddOverflows LogicSets
