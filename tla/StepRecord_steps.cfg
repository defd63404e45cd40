\* One event after another, of every kind, with frames that cannot be had or stored.
SPECIFICATION Spec
CONSTANTS
    MAX_DRAG_POINTS = 3
    None = None
    press_delay = 1
    type_delay = 2
    before_offset = 1
    after_delay = 1
    ModifierLists <- Lists
    Waypoints <- Vias
    MaxText = 4
INVARIANTS
    TypeOK ReplaysGesture LabelTellsGesture PressAgrees CutIsSuspected
    FramesOfTheirTime StepAccounted MarkIsVerified
CHECK_DEADLOCK FALSE
