\* Probing vocabulary: build from ARPA, write the binary, reload it.
CONSTANTS
  Words <- MCWords
  VocabHash <- MCVocabHash
  MaxEntries = 4
  MultNum = 3
  MultDen = 2
  FileVersions = {0, 1}
  Unset = Unset
  Configs <- MCConfigs
SPECIFICATION Spec
\* The loader ends once the vocabulary is served read-only, or has thrown.
CHECK_DEADLOCK FALSE
INVARIANTS
  TypeOK
  IndexReturnsInsertedId
  SinkAgreesWithIndex
  RoundTrip
  PolicyHonoured
PROPERTY
  ImplementsVocabulary
