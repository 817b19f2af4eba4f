SPECIFICATION PagesSpec
CONSTANTS
    MaxGames = 1
    MaxCaptures = 2
    Videos = {1}
    MaxPickers = 1
    MaxButtons = 2
INVARIANTS PagesAgree DeletesTheChosen
