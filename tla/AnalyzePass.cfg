CONSTANT MaxPages = 3
SPECIFICATION Spec
INVARIANT TypeOK
INVARIANT WritesOnlyComplete
INVARIANT SendsOnlyAnalyzed
PROPERTY AbortedPassNeverWrites
PROPERTY PassReturns
PROPERTY GoroutinesEnd
PROPERTY ImplementsAbstractPass
\* A pass ends.  That it does not stop anywhere else is what PassReturns and
\* GoroutinesEnd say.
CHECK_DEADLOCK FALSE
