CONSTANTS
    Session = {s1, s2, s3}
    Pwb = {p0, p1, p2, p3}
    InHand = {p0}
    Waiting = 2
    Kinds = {"promote_position", "demote_position", "promote_to_top_position", "abandon", "create"}
    None = None
SPECIFICATION Spec
SYMMETRY Symmetry
INVARIANTS TypeOK QueueOrder
PROPERTIES Serializable
CHECK_DEADLOCK FALSE
