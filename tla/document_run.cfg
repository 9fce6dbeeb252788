\* The run of a document.
CONSTANTS
  Parsed = 3
  MaxWritten = 4
  Limits <- LimitKinds
SPECIFICATION DocumentSpec
INVARIANTS RunsInDocumentOrder ReportTellsAbort
PROPERTIES LoadComesLast
