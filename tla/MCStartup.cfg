CONSTANT
    Settings <- Deviating
SPECIFICATION Spec
INVARIANTS
    
    OneServerPerSetting
    NumbersServedAsChecked
    PoliciesShareTheLimit
CHECK_DEADLOCK FALSE
