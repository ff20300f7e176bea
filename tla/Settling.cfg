SPECIFICATION McSpec
CONSTANTS None = None
CHECK_DEADLOCK FALSE
PROPERTIES OutcomeTruthful WorkSettles
