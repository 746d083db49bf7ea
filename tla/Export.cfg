SPECIFICATION ExportSpec
CONSTANTS
  Answers <- MCAnswers
  Formats = {"csv", "json"}
INVARIANTS
  FileReadsBack
  ReportIsSound
CHECK_DEADLOCK FALSE
