SPECIFICATION Spec
CONSTANTS
  Size = 6
  MaxLength = 5
  OpLength = {1, 2}
  JumpLength = {2}
  CallLength = {5}
  Target = {3, 6}
INVARIANT TypeOK
INVARIANT IndicesAgree
INVARIANT BranchTargets
INVARIANT InOrder
INVARIANT GapIsOneInvalid
INVARIANT StopsAtUndecodable
PROPERTY Terminates
