SPECIFICATION FairSpec
CONSTANTS
    Waiters = {"w1", "w2"}
    MaxEvents = 3
    Tasks <- MCTasks
    Scenes <- MCScenes
CHECK_DEADLOCK FALSE
INVARIANTS TypeOK FuturesAgree ReturnsFirst RespondedAnswered RefusedOnlyRaced SendShows
PROPERTIES WaitEnds AutodeferAnswers
