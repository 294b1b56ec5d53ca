SPECIFICATION Spec
CONSTANTS
  Budgets = {0, 1, 3}
  Outputs = {1, 4}
  Jobs <- MCJobs
  Texts <- MCTexts
INVARIANTS ThoughtBounded AnswerUntouched ReportTruthful Screened VerdictSound
