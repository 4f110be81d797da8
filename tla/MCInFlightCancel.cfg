SPECIFICATION ExchangeFairSpec
CONSTANTS Designs = {"stepaudio"}
PROPERTIES InFlightCancels
CHECK_DEADLOCK FALSE
