\* Every document that MCDocuments lists is read once, from first byte to
\* outcome, with a size_t of four bits and doubles below a thousand.
SPECIFICATION Spec

CONSTANTS
  Modulus = 16
  Magnitude = 3
  Jobs <- MCJobs

INVARIANTS
  StacksAgree
  ReadsJson
  DumpReadsBack
  BodyServedAsMeant
  LoadedAsWritten
