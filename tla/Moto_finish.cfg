CONSTANT Stroke <- MCStroke
SPECIFICATION Spec
INVARIANT FinishOnlyAfterFlush
