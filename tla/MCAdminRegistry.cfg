SPECIFICATION Spec
CONSTANT System <- ReferenceAdmin
INVARIANT TechnicalRoutesRegistered
CHECK_DEADLOCK FALSE
