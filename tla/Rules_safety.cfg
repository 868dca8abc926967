\* Every configuration of up to three lines, with lines that are skipped, for
\* each of the files of geosite data and for none.
CONSTANTS
  ConfigLines <- MCLines
  MaxLines = 3
  Requests <- MCRequests
  NoIP = "none"
  Files <- MCFiles
  NoPath = NoPath
  RegexHosts <- MCRegexHosts
  LabelsWith <- MCLabelsWith
SPECIFICATION Spec
INVARIANTS
  FirstLineDecides
  TableAsWritten
CHECK_DEADLOCK FALSE
