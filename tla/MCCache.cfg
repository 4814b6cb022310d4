SPECIFICATION FairCacheSpec
CONSTANT Readers = {r1}
CONSTANT Writers = {w1, w2}
CONSTANT NoValue = NoValue
CONSTANT MaxWrites = 2
INVARIANT AnswersAreFresh
PROPERTY CacheCatchesUp
CHECK_DEADLOCK FALSE
