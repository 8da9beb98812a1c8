\* Three-tick assertion, four-tick clearing; a missed tick may double the gap.
CONSTANTS
  AssertTicks = 3
  ClearTicks = 4
  CooldownTicks = 3
  Gaps = {1, 2}
SPECIFICATION FairSpec
INVARIANTS CooldownIsAnchored
PROPERTIES AssertionIsEarned ClearingIsEarned ImplementsLifecycle QuietRecovers StormIsReported
