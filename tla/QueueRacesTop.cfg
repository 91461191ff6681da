\* Nothing but reorderings, on an idle queue: the top row changes hands.
CONSTANTS
    Session = {s1, s2}
    Pwb = {p1, p2, p3, p4}
    InHand = {}
    Waiting = 4
    Kinds = {"promote_to_top_position", "demote_position"}
    None = None
SPECIFICATION Spec
INVARIANTS QueueOrder
CHECK_DEADLOCK FALSE
