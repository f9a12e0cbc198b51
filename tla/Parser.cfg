\* Words over two alphabets, packed argument lists and their prefixes, and every
\* header with a trail.
CONSTANTS
  Inputs <- MCInputs
  ArgumentLists <- MCArgumentLists
  ParameterLists <- MCParameterLists
SPECIFICATION Spec
INVARIANTS TypeOK WithinMessage StacksAgree WritesFreshSlot ObjectComplete AcceptsFormat BuildsFormat PackedArgumentsArrive
PROPERTIES Terminates Shrinks
\* A message that was parsed is done with.
CHECK_DEADLOCK FALSE
