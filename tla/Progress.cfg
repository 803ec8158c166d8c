CONSTANTS
    NoHandler = NoHandler
    None = None

SPECIFICATION Spec
CHECK_DEADLOCK FALSE

PROPERTIES
    SettledRowConfirmed
    EveryCallbackSettles
    EveryAlertSettles
