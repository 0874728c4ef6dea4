\* Two timers, a queue of one event, a clock that wraps after 6 ticks.
CONSTANTS
  ProcessList <- MCProcessList
  NumEvents = 1
  Timers = {1, 2}
  Wrap = 6
  Intervals <- MCIntervals
  Slack = 2
  Forget = 3
SPECIFICATION FairSpec
INVARIANTS TypeOK NoPollForgotten SleepsWithoutWork ListHoldsSet DueIsWatched
PROPERTIES PostedWhenDue DueIsPosted ButtonLives
