\* Sorted vocabulary: build from ARPA, write the binary, reload it.
CONSTANTS
  Words <- MCWords
  VocabHash <- MCVocabHash
  Garbage <- MCGarbage
  MaxEntries = 5
  NoWord = NoWord
  Unset = Unset
  UnkDefault = UnkDefault
  Configs <- MCConfigs
SPECIFICATION Spec
\* The loader ends once the vocabulary is served read-only.
CHECK_DEADLOCK FALSE
INVARIANTS
  TypeOK
  WeightsFollowWords
  SinkAgreesWithIndex
  RoundTrip
  PolicyHonoured
PROPERTY
  ImplementsVocabulary
