SPECIFICATION Spec
INVARIANTS AnalysesAreExact AnswersCarryOn JobsAreHeldToTheirTask   
CHECK_DEADLOCK FALSE
