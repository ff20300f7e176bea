SPECIFICATION McSpec
CONSTANTS NoData = NoData
CHECK_DEADLOCK FALSE
INVARIANTS BuildsAgree FilesIntact FamilyExact AccountExact DialogueSound
PROPERTY PublishedOnlyGrows
