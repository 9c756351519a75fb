\* Three slots, four frames, SDL may reject events, the universe may end
CONSTANTS
  MaxFrames = 4
  SlotCount = 3
  EventsRejected = TRUE
SPECIFICATION FairSpec
INVARIANTS NoTearing
PROPERTIES RegisterSpec MainAnswers
