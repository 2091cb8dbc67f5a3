SPECIFICATION Spec
INVARIANTS
  Confined OneOwner  Delivered Awake

  
CHECK_DEADLOCK FALSE
