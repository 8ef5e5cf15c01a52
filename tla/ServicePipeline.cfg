SPECIFICATION Spec
CONSTANTS
  c1 = c1 c2 = c2
  Calls = {c1}
  Gens <- MCGens
  MaxItems = 3
  Pipelines <- MCPipelines
  Answers <- MCAnswers
  None = None
INVARIANTS PersistedPrefix HooksEnclose ErrorTellsWhatIsStored AnswerMatchesBackend
\* Every call may have ended with the service closed for the last time.
CHECK_DEADLOCK FALSE
